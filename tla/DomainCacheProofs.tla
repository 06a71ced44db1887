-------------------------- MODULE DomainCacheProofs --------------------------
(***************************************************************************)
(* Proofs about DomainCache, for any set of clients and domains and any    *)
(* timeouts.                                                               *)
(***************************************************************************)
EXTENDS DomainCache, TLAPS

\* The prover of a leaf that names none.
USE ZenonT(60)

\* Type correctness of the literals, cited by the proofs below.
LEMMA NilType == Nil \in Lookup \cup {Nil}
  OBVIOUS

\* The domain that fills unused records is a domain.
LEMMA SomeDomainType == SomeDomain \in Domain
  BY ConstantsAssumption DEF SomeDomain

\* newCacheEntry (entry.go) makes a well-formed entry.
LEMMA NewEntryType ==
  ASSUME NEW d \in Domain, NEW t \in Time \cup {Never}
  PROVE  newCacheEntry(d, t) \in Entry
  BY ConstantsAssumption, SMTT(60) DEF newCacheEntry, Entry, NoEntry, Never

\* go-cache's SetDefault makes a well-formed item.
LEMMA SetDefaultType ==
  ASSUME NEW id \in EntryId, now \in Time
  PROVE  SetDefault(id) \in Item
  <1>1. now \in Int
    BY ConstantsAssumption, SMTT(60) DEF Time
  <1>2. SetDefault(id).expires \in Int
    BY <1>1, ConstantsAssumption, SMTT(60) DEF SetDefault
  <1> QED
    BY <1>2 DEF SetDefault, Item

\* Firing the retrieve Once touches neither the refresh state nor the domain.
LEMMA StartRetrieveType ==
  ASSUME NEW e \in Entry, now \in Int
  PROVE  /\ StartRetrieve(e) \in Entry
         /\ StartRetrieve(e).next = e.next
         /\ StartRetrieve(e).refresh = e.refresh
         /\ StartRetrieve(e).dom = e.dom
         /\ StartRetrieve(e).created = e.created
  <1> DEFINE t == now + RetrievalTimeout
  <1>1. t \in Int
    BY ConstantsAssumption, SMTT(60)
  <1>2. StartRetrieve(e) = [e EXCEPT !.retrieve = "running", !.deadline = t]
    BY DEF StartRetrieve
  <1> HIDE DEF t
  <1> QED
    BY <1>1, <1>2 DEF Entry

\* The unlocked writes of refreshFunc touch response and timestamp only.
LEMMA KeepOrReplaceType ==
  ASSUME NEW e \in Entry, NEW n \in Entry
  PROVE  /\ KeepOrReplace(e, n) \in Entry
         /\ KeepOrReplace(e, n).next = n.next
         /\ KeepOrReplace(e, n).refresh = n.refresh
         /\ KeepOrReplace(e, n).dom = n.dom
         /\ KeepOrReplace(e, n).created = n.created
  <1>1. [n EXCEPT !.response = e.response, !.orig = e.created] \in Entry
    BY DEF Entry
  <1> QED
    BY <1>1, SMTT(60) DEF KeepOrReplace, Entry

(***************************************************************************)
(* References in the heap: whatever the store, a call or a refresh refers  *)
(* to has been allocated, and the refresh Once has fired for exactly the   *)
(* entries that have a next.                                               *)
(***************************************************************************)
Allocated ==
  /\ \A d \in Domain : store[d].entry \in 0..used
  /\ \A c \in Client : client[c].ent \in 0..used
  /\ \A c \in Client : client[c].pc \in {"loaded", "wait"} => client[c].ent # NoEntry
  /\ \A id \in EntryId : entry[id].next \in 0..used /\ entry[id].next # id
  /\ \A id \in EntryId : id > used => entry[id].next = NoEntry
  /\ \A id \in EntryId : entry[id].refresh = "no" <=> entry[id].next = NoEntry

TypeInv == TypeOK /\ Allocated

\* A step that only fills fields of allocated entries, and moves no reference,
\* keeps the heap well-formed.
LEMMA SameReferencesType ==
  ASSUME TypeInv, now' = now, used' = used, store' = store,
         entry' \in [EntryId -> Entry],
         \A i \in EntryId : entry'[i].next = entry[i].next,
         \A i \in EntryId : entry'[i].refresh = "no" <=> entry'[i].next = NoEntry,
         client' \in [Client -> Call],
         \A c \in Client : client'[c].ent = client[c].ent,
         \A c \in Client : client'[c].pc \in {"loaded", "wait"} => client[c].ent # NoEntry
  PROVE  TypeInv'
  <1>1. TypeOK'
    BY DEF TypeInv, TypeOK
  <1>2. /\ \A d \in Domain : store'[d].entry \in 0..used'
        /\ \A c \in Client : client'[c].ent \in 0..used'
        /\ \A c \in Client : client'[c].pc \in {"loaded", "wait"} => client'[c].ent # NoEntry
    BY DEF TypeInv, Allocated
  <1>3. /\ \A i \in EntryId : entry'[i].next \in 0..used' /\ entry'[i].next # i
        /\ \A i \in EntryId : i > used' => entry'[i].next = NoEntry
    BY DEF TypeInv, Allocated
  <1>4. Allocated'
    BY <1>2, <1>3 DEF Allocated
  <1> QED
    BY <1>1, <1>4 DEF TypeInv

\* The empty cache is well-formed.
LEMMA InitType == Init => TypeInv
  <1> SUFFICES ASSUME Init PROVE TypeInv
    OBVIOUS
  <1> USE ConstantsAssumption DEF Init
  <1>1. entry \in [EntryId -> Entry]
    BY SomeDomainType, NewEntryType
  <1>2. store \in [Domain -> Item]
    BY SMTT(60) DEF Absent, Item, Never, NoEntry
  <1>3. client \in [Client -> Call]
    BY SomeDomainType, NilType DEF Call, NoEntry
  <1>4. TypeOK
    BY <1>1, <1>2, <1>3, SMTT(60) DEF TypeOK, Time
  <1>5. Allocated
    BY SMTT(60) DEF Allocated, Absent, NoEntry, EntryId, newCacheEntry
  <1> QED
    BY <1>4, <1>5 DEF TypeInv

\* LoadOrCreate returns an allocated entry on a hit.
LEMMA LoadHitType ==
  ASSUME TypeInv, NEW c \in Client, NEW d \in Domain, LoadHit(c, d)
  PROVE  TypeInv'
  BY NilType, ConstantsAssumption
     DEF TypeInv, TypeOK, Allocated, LoadHit, Visible, Call, Item, EntryId, NoEntry

\* A miss leaves the request without an entry until it holds the write lock.
LEMMA LoadMissType ==
  ASSUME TypeInv, NEW c \in Client, NEW d \in Domain, LoadMiss(c, d)
  PROVE  TypeInv'
  BY NilType, ConstantsAssumption, SMTT(60)
     DEF TypeInv, TypeOK, Allocated, LoadMiss, Call, EntryId, NoEntry

\* The second look of LoadOrCreate also returns an allocated entry.
LEMMA LoadRecheckType ==
  ASSUME TypeInv, NEW c \in Client, LoadRecheck(c)
  PROVE  TypeInv'
  <1> DEFINE d == client[c].dom
             id == store[d].entry
  <1>1. d \in Domain /\ id \in EntryId /\ id \in 0..used /\ id # NoEntry
    BY DEF TypeInv, TypeOK, Allocated, LoadRecheck, Visible, Call, Item
  <1>2. client' = [client EXCEPT ![c].pc = "loaded", ![c].ent = id]
    BY DEF LoadRecheck
  <1> HIDE DEF id, d
  <1> DEFINE new == [client[c] EXCEPT !.pc = "loaded", !.ent = id]
  <1>a. new \in Call
    BY <1>1 DEF TypeInv, TypeOK, Call
  <1>b. client' = [client EXCEPT ![c] = new]
    BY <1>2 DEF TypeInv, TypeOK
  <1>3. client' \in [Client -> Call]
    <2> HIDE DEF new
    <2> QED
      BY <1>a, <1>b DEF TypeInv, TypeOK
  <1>4. /\ \A b \in Client : client'[b].ent \in 0..used
        /\ \A b \in Client : client'[b].pc \in {"loaded", "wait"} => client'[b].ent # NoEntry
    BY <1>1, <1>2, SMTT(60) DEF TypeInv, TypeOK, Allocated, Call
  <1> QED
    BY <1>3, <1>4 DEF TypeInv, TypeOK, Allocated, LoadRecheck

\* LoadOrCreate allocates the next free entry.
LEMMA CreateType ==
  ASSUME TypeInv, NEW c \in Client, Create(c)
  PROVE  TypeInv'
  <1> DEFINE n == used + 1
             d == client[c].dom
  <1> USE ConstantsAssumption
  <1>1. /\ d \in Domain /\ n \in EntryId /\ now \in Time
        /\ used' = n /\ used' \in 0..MaxEntries
    BY SMTT(60) DEF TypeInv, TypeOK, Create, Call, EntryId
  <1>2. newCacheEntry(d, now) \in Entry /\ SetDefault(n) \in Item
    BY <1>1, NewEntryType, SetDefaultType
  <1> DEFINE new == [client[c] EXCEPT !.pc = "loaded", !.ent = n]
  <1>a. new \in Call
    BY <1>1 DEF TypeInv, TypeOK, Call
  <1>b. /\ client' = [client EXCEPT ![c] = new]
        /\ entry' = [entry EXCEPT ![n] = newCacheEntry(d, now)]
        /\ store' = [store EXCEPT ![d] = SetDefault(n)]
        /\ now' = now
    BY DEF Create, TypeInv, TypeOK
  <1>3. TypeOK'
    <2> HIDE DEF new, n, d
    <2> QED
      BY <1>1, <1>2, <1>a, <1>b DEF TypeInv, TypeOK
  <1>4. Allocated'
    <2> USE <1>1 DEF NoEntry
    <2>1. 0..used \subseteq 0..used' /\ n \in 0..used' /\ n # NoEntry
      BY SMTT(60) DEF TypeInv, TypeOK
    <2>2. \A e \in Domain : store'[e].entry \in 0..used'
      BY <2>1 DEF TypeInv, TypeOK, Allocated, Create, SetDefault
    <2>3. /\ \A b \in Client : client'[b].ent \in 0..used'
          /\ \A b \in Client : client'[b].pc \in {"loaded", "wait"} => client'[b].ent # NoEntry
      BY <2>1 DEF TypeInv, TypeOK, Allocated, Create, Call
    <2>4. /\ \A id \in EntryId : entry'[id].next \in 0..used' /\ entry'[id].next # id
          /\ \A id \in EntryId : id > used' => entry'[id].next = NoEntry
          /\ \A id \in EntryId : entry'[id].refresh = "no" <=> entry'[id].next = NoEntry
      BY <2>1, SMTT(60) DEF EntryId, TypeInv, TypeOK, Allocated, Create, newCacheEntry
    <2> QED
      BY <2>2, <2>3, <2>4 DEF Allocated
  <1> QED
    BY <1>3, <1>4 DEF TypeInv

\* Resolve returns: the call drops its entry and keeps the lookup.
LEMMA ReturnType ==
  ASSUME TypeInv, NEW c \in Client, NEW l \in Lookup \cup {Nil}, Return(c, l)
  PROVE  /\ client' \in [Client -> Call]
         /\ \A b \in Client : client'[b].ent \in 0..used
         /\ \A b \in Client : client'[b].pc \in {"loaded", "wait"} => client'[b].ent # NoEntry
  <1> USE ConstantsAssumption
  <1> DEFINE new == [client[c] EXCEPT !.pc = "idle", !.ent = NoEntry, !.got = l]
  <1>1. new \in Call /\ new.ent = NoEntry /\ new.pc = "idle"
    BY DEF TypeInv, TypeOK, Call
  <1>2. client' = [client EXCEPT ![c] = new]
    BY DEF Return, TypeInv, TypeOK
  <1> HIDE DEF new
  <1>3. client' \in [Client -> Call]
    BY <1>1, <1>2 DEF TypeInv, TypeOK
  <1>4. \A b \in Client : \/ client'[b] = client[b]
                          \/ client'[b].ent = NoEntry /\ client'[b].pc = "idle"
    BY <1>1, <1>2 DEF TypeInv, TypeOK
  <1>5. NoEntry \in 0..used
    BY SMTT(60) DEF TypeInv, TypeOK, NoEntry
  <1> QED
    BY <1>3, <1>4, <1>5 DEF TypeInv, Allocated

\* A return that leaves the heap and the store alone keeps them well-formed.
LEMMA OnlyReturnType ==
  ASSUME TypeInv, NEW c \in Client, NEW l \in Lookup \cup {Nil}, Return(c, l),
         now' = now, used' = used, entry' = entry, store' = store
  PROVE  TypeInv'
  <1>1. TypeOK'
    BY ReturnType DEF TypeInv, TypeOK
  <1>2. Allocated'
    BY ReturnType DEF TypeInv, Allocated
  <1> QED
    BY <1>1, <1>2 DEF TypeInv

\* A call that holds an entry refers to an allocated one.
LEMMA HeldEntryType ==
  ASSUME TypeInv, NEW c \in Client, client[c].pc \in {"loaded", "wait"}
  PROVE  /\ client[c].ent \in EntryId /\ client[c].ent \in 1..used
         /\ entry[client[c].ent] \in Entry
         /\ entry[client[c].ent].response \in Lookup \cup {Nil}
  <1>1. /\ used \in Nat /\ used <= MaxEntries
        /\ client[c].ent \in 0..used /\ client[c].ent # 0
    BY ConstantsAssumption, SMTT(60) DEF TypeInv, TypeOK, Allocated, NoEntry
  <1>2. client[c].ent \in EntryId /\ client[c].ent \in 1..used
    BY <1>1, ConstantsAssumption, SMTT(60) DEF EntryId
  <1>3. entry[client[c].ent] \in Entry
    BY <1>2 DEF TypeInv, TypeOK
  <1>4. entry[client[c].ent].response \in Lookup \cup {Nil}
    BY <1>3 DEF Entry
  <1> QED
    BY <1>2, <1>3, <1>4

\* A cache hit returns the response of an allocated entry.
LEMMA ServeFreshType ==
  ASSUME TypeInv, NEW c \in Client, ServeFresh(c)
  PROVE  TypeInv'
  <1>1. /\ client[c].pc \in {"loaded", "wait"}
        /\ Return(c, entry[client[c].ent].response)
        /\ now' = now /\ used' = used /\ entry' = entry /\ store' = store
    BY DEF ServeFresh
  <1> QED
    BY <1>1, HeldEntryType, OnlyReturnType

\* The refresh Once allocates the entry that refreshFunc will fill.
LEMMA ServeStaleType ==
  ASSUME TypeInv, NEW c \in Client, ServeStale(c)
  PROVE  TypeInv'
  <1> DEFINE id == client[c].ent
             n == used + 1
  <1> USE ConstantsAssumption DEF NoEntry
  <1>1. /\ id \in EntryId /\ id \in 1..used
        /\ entry[id] \in Entry
        /\ entry[id].response \in Lookup \cup {Nil}
        /\ now' = now /\ store' = store
    <2>1. client[c].pc = "loaded" /\ now' = now /\ store' = store
      BY DEF ServeStale
    <2> QED
      BY <2>1, HeldEntryType
  <1>2. /\ client' \in [Client -> Call]
        /\ \A b \in Client : client'[b].ent \in 0..used
        /\ \A b \in Client : client'[b].pc \in {"loaded", "wait"} => client'[b].ent # NoEntry
    <2>1. Return(c, entry[id].response)
      BY DEF ServeStale
    <2> QED
      BY <1>1, <2>1, ReturnType
  <1>3. CASE entry[id].refresh # "no"
    <2>1. used' = used /\ entry' = entry
      BY <1>3 DEF ServeStale
    <2>2. TypeOK'
      BY <1>1, <1>2, <2>1 DEF TypeInv, TypeOK
    <2>3. Allocated'
      BY <1>1, <1>2, <2>1 DEF TypeInv, Allocated
    <2> QED
      BY <2>2, <2>3 DEF TypeInv
  <1>4. CASE entry[id].refresh = "no"
    <2>1. /\ used' = n /\ n \in EntryId /\ n # id
          /\ entry' = [entry EXCEPT ![id].refresh = "spawned", ![id].next = n,
                                    ![n] = newCacheEntry(entry[id].dom, Never)]
      BY <1>1, <1>4, SMTT(60) DEF ServeStale, TypeInv, TypeOK, EntryId
    <2>2. newCacheEntry(entry[id].dom, Never) \in Entry
      BY <1>1, NewEntryType DEF Entry
    <2>3. entry' \in [EntryId -> Entry]
      <3> DEFINE old == [entry[id] EXCEPT !.refresh = "spawned", !.next = n]
                 new == newCacheEntry(entry[id].dom, Never)
      <3>1. old \in Entry
        BY <1>1, <2>1 DEF Entry
      <3>2. entry' = [[entry EXCEPT ![id] = old] EXCEPT ![n] = new]
        BY <1>1, <2>1 DEF TypeInv, TypeOK
      <3>3. new \in Entry
        BY <2>2
      <3> HIDE DEF old, new
      <3> QED
        BY <3>1, <3>2, <3>3 DEF TypeInv, TypeOK
    <2>4. 0..used \subseteq 0..used' /\ n \in 0..used' /\ n # NoEntry
      BY <2>1, SMTT(60) DEF TypeInv, TypeOK
    <2>5. /\ \A i \in EntryId : entry'[i].next \in 0..used' /\ entry'[i].next # i
          /\ \A i \in EntryId : i > used' => entry'[i].next = NoEntry
          /\ \A i \in EntryId : entry'[i].refresh = "no" <=> entry'[i].next = NoEntry
      <3>1. /\ entry'[id].next = n /\ entry'[id].refresh = "spawned"
            /\ entry'[n].next = NoEntry /\ entry'[n].refresh = "no"
            /\ \A i \in EntryId \ {id, n} : entry'[i] = entry[i]
        BY <1>1, <2>1 DEF TypeInv, TypeOK, newCacheEntry, Entry
      <3>2. n # NoEntry /\ used' = n /\ used \in Nat /\ id <= used
        BY <1>1, <2>1, SMTT(60) DEF EntryId, TypeInv, TypeOK
      <3>3. \A i \in EntryId : /\ entry[i].next \in 0..used' /\ entry[i].next # i
                               /\ i > used' => entry[i].next = NoEntry
                               /\ entry[i].refresh = "no" <=> entry[i].next = NoEntry
        BY <2>4, <3>2, SMTT(60) DEF TypeInv, Allocated, EntryId
      <3>4. ASSUME NEW i \in EntryId
            PROVE  /\ entry'[i].next \in 0..used' /\ entry'[i].next # i
                   /\ i > used' => entry'[i].next = NoEntry
                   /\ entry'[i].refresh = "no" <=> entry'[i].next = NoEntry
        <4> HIDE DEF id, n
        <4>1. CASE i = id
          BY <1>1, <2>1, <2>4, <3>1, <3>2, <4>1, SMTT(60)
        <4>2. CASE i = n
          BY <2>1, <2>4, <3>1, <3>2, <4>2, SMTT(60)
        <4>3. CASE i \notin {id, n}
          <5>1. entry'[i] = entry[i]
            BY <3>1, <4>3
          <5> QED
            BY <3>3, <5>1
        <4> QED
          BY <4>1, <4>2, <4>3
      <3> QED
        BY <3>4
    <2>6. used' \in 0..MaxEntries
      BY <2>1, SMTT(60) DEF EntryId
    <2>7. TypeOK'
      BY <1>1, <1>2, <2>3, <2>6 DEF TypeInv, TypeOK
    <2>8. Allocated'
      BY <1>1, <1>2, <2>4, <2>5 DEF TypeInv, Allocated
    <2> QED
      BY <2>7, <2>8 DEF TypeInv
  <1> QED
    BY <1>3, <1>4

\* A waiting request fires the retrieve Once at most.
LEMMA WaitType ==
  ASSUME TypeInv, NEW c \in Client, Wait(c)
  PROVE  TypeInv'
  <1> DEFINE id == client[c].ent
  <1> USE ConstantsAssumption DEF NoEntry
  <1>1. id \in EntryId /\ entry[id] \in Entry /\ now \in Int
    BY SMTT(60) DEF TypeInv, TypeOK, Allocated, Wait, EntryId, Time
  <1> DEFINE e == IF entry[id].retrieve = "no" THEN StartRetrieve(entry[id]) ELSE entry[id]
  <1>a. e \in Entry /\ e.next = entry[id].next /\ e.refresh = entry[id].refresh
    BY <1>1, StartRetrieveType
  <1>b. entry' = [entry EXCEPT ![id] = e]
    BY DEF Wait
  <1> HIDE DEF e
  <1>2. /\ entry' \in [EntryId -> Entry]
        /\ \A i \in EntryId : entry'[i].next = entry[i].next /\ entry'[i].refresh = entry[i].refresh
    BY <1>1, <1>a, <1>b DEF TypeInv, TypeOK
  <1>c. \A i \in EntryId : entry'[i].refresh = "no" <=> entry'[i].next = NoEntry
    BY <1>2 DEF TypeInv, Allocated
  <1>3. client' \in [Client -> Call]
    BY SMTT(60) DEF TypeInv, TypeOK, Wait, Call
  <1>4. \A b \in Client : /\ client'[b].ent = client[b].ent
                          /\ b # c => client'[b] = client[b]
    BY DEF TypeInv, TypeOK, Wait, Call
  <1>5. client[c].ent # NoEntry
    BY <1>1, SMTT(60) DEF EntryId
  <1>6. \A b \in Client : client'[b].pc \in {"loaded", "wait"} => client[b].ent # NoEntry
    BY <1>4, <1>5 DEF TypeInv, Allocated
  <1>7. now' = now /\ used' = used /\ store' = store
    BY DEF Wait
  <1> QED
    BY <1>2, <1>c, <1>3, <1>4, <1>6, <1>7, SameReferencesType

\* A request woken by the closed channel returns a response.
LEMMA RetrievedType ==
  ASSUME TypeInv, NEW c \in Client, Retrieved(c)
  PROVE  TypeInv'
  <1>1. /\ client[c].pc \in {"loaded", "wait"}
        /\ Return(c, entry[client[c].ent].response)
        /\ now' = now /\ used' = used /\ entry' = entry /\ store' = store
    BY DEF Retrieved
  <1> QED
    BY <1>1, HeldEntryType, OnlyReturnType

\* A cancelled request returns an error lookup.
LEMMA ContextDoneType ==
  ASSUME TypeInv, NEW c \in Client, ContextDone(c)
  PROVE  TypeInv'
  <1>1. [kind |-> "err", at |-> now] \in Lookup
    BY DEF TypeInv, TypeOK, Lookup
  <1>2. /\ Return(c, [kind |-> "err", at |-> now])
        /\ now' = now /\ used' = used /\ entry' = entry /\ store' = store
    BY DEF ContextDone
  <1> QED
    BY <1>1, <1>2, OnlyReturnType

\* Retrieve returns a lookup.
LEMMA AnswerType ==
  ASSUME TypeInv, NEW id \in EntryId, NEW kind \in {"ok", "gone", "err"}, Answer(id, kind)
  PROVE  TypeInv'
  <1> DEFINE l == [kind |-> kind, at |-> now]
  <1>a. l \in Lookup /\ entry[id] \in Entry
    BY DEF TypeInv, TypeOK, Lookup
  <1>b. [entry[id] EXCEPT !.retrieve = "answered", !.answer = l] \in Entry
    BY <1>a DEF Entry
  <1>c. entry' = [entry EXCEPT ![id] = [entry[id] EXCEPT !.retrieve = "answered", !.answer = l]]
    BY DEF TypeInv, TypeOK, Answer
  <1>1. entry' \in [EntryId -> Entry]
    BY <1>b, <1>c DEF TypeInv, TypeOK
  <1> QED
    BY <1>1, SMTT(60) DEF TypeInv, TypeOK, Allocated, Answer

\* setResponse stores the lookup that Retrieve returned.
LEMMA setResponseType ==
  ASSUME TypeInv, NEW id \in EntryId, setResponse(id)
  PROVE  TypeInv'
  <1>a. entry[id] \in Entry /\ entry[id].answer \in Lookup \cup {Nil}
    BY DEF TypeInv, TypeOK, Entry
  <1>b. [entry[id] EXCEPT !.retrieve = "done", !.response = entry[id].answer] \in Entry
    BY <1>a DEF Entry
  <1>c. entry' = [entry EXCEPT ![id] =
                   [entry[id] EXCEPT !.retrieve = "done", !.response = entry[id].answer]]
    BY DEF TypeInv, TypeOK, setResponse
  <1>1. entry' \in [EntryId -> Entry]
    BY <1>b, <1>c DEF TypeInv, TypeOK
  <1> QED
    BY <1>1, SMTT(60) DEF TypeInv, TypeOK, Allocated, setResponse

\* refreshFunc starts the retrieval of the new entry.
LEMMA RefreshStartType ==
  ASSUME TypeInv, NEW id \in EntryId, RefreshStart(id)
  PROVE  TypeInv'
  <1> DEFINE n == entry[id].next
             old == [entry[id] EXCEPT !.refresh = "retrieving"]
             heap == [entry EXCEPT ![id] = old]
             new == [entry[n] EXCEPT !.created = now]
  <1> USE ConstantsAssumption
  <1>c. entry[id] \in Entry /\ now \in Time /\ now \in Int
    BY SMTT(60) DEF TypeInv, TypeOK, Time
  <1>d. n # NoEntry /\ n # id
    BY DEF TypeInv, Allocated, RefreshStart
  <1>e. n \in EntryId
    BY <1>c, <1>d DEF Entry
  <1>1. n \in EntryId /\ n # NoEntry /\ n # id /\ entry[n] \in Entry /\ now \in Time /\ now \in Int /\ entry[id] \in Entry
    BY <1>c, <1>d, <1>e DEF TypeInv, TypeOK
  <1>a. old \in Entry /\ old.next = n /\ old.refresh # "no"
    BY <1>1, SMTT(60) DEF Entry
  <1> HIDE DEF old
  <1>2. /\ heap \in [EntryId -> Entry]
        /\ \A i \in EntryId : heap[i].next = entry[i].next
        /\ \A i \in EntryId : heap[i].refresh = "no" <=> heap[i].next = NoEntry
        /\ entry[n].refresh = "no" <=> entry[n].next = NoEntry
    BY <1>1, <1>a DEF TypeInv, TypeOK, Allocated
  <1> USE DEF old
  <1>3. new \in Entry /\ new.next = entry[n].next /\ new.refresh = entry[n].refresh
    BY <1>1, <1>2 DEF Entry
  <1>4. entry' = [heap EXCEPT ![n] = StartRetrieve(new)]
    BY <1>1 DEF TypeInv, TypeOK, RefreshStart
  <1> HIDE DEF heap, new, n, old
  <1>b. /\ StartRetrieve(new) \in Entry
        /\ StartRetrieve(new).next = entry[n].next
        /\ StartRetrieve(new).refresh = entry[n].refresh
    BY <1>1, <1>3, StartRetrieveType
  <1>5. /\ entry' \in [EntryId -> Entry]
        /\ \A i \in EntryId : entry'[i].next = entry[i].next
        /\ \A i \in EntryId : entry'[i].refresh = "no" <=> entry'[i].next = NoEntry
    BY <1>1, <1>2, <1>4, <1>b
  <1>6. now' = now /\ used' = used /\ store' = store /\ client' = client
    BY DEF RefreshStart
  <1>7. /\ client' \in [Client -> Call]
        /\ \A c \in Client : client'[c].ent = client[c].ent
        /\ \A c \in Client : client'[c].pc \in {"loaded", "wait"} => client[c].ent # NoEntry
    BY <1>6 DEF TypeInv, TypeOK, Allocated
  <1> QED
    BY <1>5, <1>6, <1>7, SameReferencesType

\* refreshFunc keeps or replaces the response of the new entry.
LEMMA RefreshDecideType ==
  ASSUME TypeInv, NEW id \in EntryId, RefreshDecide(id)
  PROVE  TypeInv'
  <1> DEFINE n == entry[id].next
             old == [entry[id] EXCEPT !.refresh = "decided"]
             heap == [entry EXCEPT ![id] = old]
             new == KeepOrReplace(entry[id], entry[n])
  <1> USE ConstantsAssumption
  <1>1. n \in EntryId /\ n # NoEntry /\ n # id /\ entry[n] \in Entry /\ entry[id] \in Entry
    <2>1. entry[id] \in Entry
      BY DEF TypeInv, TypeOK
    <2>2. n # NoEntry /\ n # id
      BY DEF TypeInv, Allocated, RefreshDecide
    <2>3. n \in EntryId
      BY <2>1, <2>2 DEF Entry
    <2> QED
      BY <2>1, <2>2, <2>3 DEF TypeInv, TypeOK
  <1>a. old \in Entry /\ old.next = n /\ old.refresh # "no"
    BY <1>1, SMTT(60) DEF Entry
  <1> HIDE DEF old
  <1>2. /\ heap \in [EntryId -> Entry]
        /\ \A i \in EntryId : heap[i].next = entry[i].next
        /\ \A i \in EntryId : heap[i].refresh = "no" <=> heap[i].next = NoEntry
        /\ entry[n].refresh = "no" <=> entry[n].next = NoEntry
    BY <1>1, <1>a DEF TypeInv, TypeOK, Allocated
  <1> USE DEF old
  <1>3. new \in Entry /\ new.next = entry[n].next /\ new.refresh = entry[n].refresh
    BY <1>1, <1>2, KeepOrReplaceType
  <1>4. entry' = [heap EXCEPT ![n] = new]
    BY <1>1 DEF TypeInv, TypeOK, RefreshDecide
  <1> HIDE DEF heap, new, n, old
  <1>5. /\ entry' \in [EntryId -> Entry]
        /\ \A i \in EntryId : entry'[i].next = entry[i].next
        /\ \A i \in EntryId : entry'[i].refresh = "no" <=> entry'[i].next = NoEntry
    BY <1>1, <1>2, <1>3, <1>4
  <1>6. now' = now /\ used' = used /\ store' = store /\ client' = client
    BY DEF RefreshDecide
  <1>7. /\ client' \in [Client -> Call]
        /\ \A c \in Client : client'[c].ent = client[c].ent
        /\ \A c \in Client : client'[c].pc \in {"loaded", "wait"} => client[c].ent # NoEntry
    BY <1>6 DEF TypeInv, TypeOK, Allocated
  <1> QED
    BY <1>5, <1>6, <1>7, SameReferencesType

\* ReplaceOrCreate puts an allocated entry in the store.
LEMMA RefreshPublishType ==
  ASSUME TypeInv, NEW id \in EntryId, RefreshPublish(id)
  PROVE  TypeInv'
  <1> DEFINE n == entry[id].next
             old == [entry[id] EXCEPT !.refresh = "published"]
  <1>1. n \in EntryId /\ n \in 0..used /\ n # id /\ entry[id] \in Entry /\ entry[id].dom \in Domain
    BY DEF TypeInv, TypeOK, Allocated, RefreshPublish, Entry, EntryId, NoEntry
  <1>2. SetDefault(n) \in Item /\ SetDefault(n).entry = n
    BY <1>1, SetDefaultType DEF TypeInv, TypeOK, SetDefault
  <1>3. old \in Entry /\ old.next = entry[id].next /\ old.refresh = "published"
        /\ entry[id].next # NoEntry
    BY <1>1, SMTT(60) DEF Entry, EntryId, NoEntry
  <1>4. entry' = [entry EXCEPT ![id] = old]
    BY DEF TypeInv, TypeOK, RefreshPublish
  <1> HIDE DEF n, old
  <1>5. /\ entry' \in [EntryId -> Entry]
        /\ \A i \in EntryId : entry'[i].next = entry[i].next
        /\ \A i \in EntryId : entry'[i].refresh = "no" <=> entry'[i].next = NoEntry
    BY <1>1, <1>3, <1>4 DEF TypeInv, TypeOK, Allocated
  <1>6. /\ store' \in [Domain -> Item]
        /\ \A d \in Domain : store'[d].entry \in 0..used
    BY <1>1, <1>2 DEF TypeInv, TypeOK, Allocated, RefreshPublish, n
  <1> QED
    BY <1>5, <1>6 DEF TypeInv, TypeOK, Allocated, RefreshPublish

\* The janitor empties an item.
LEMMA DeleteExpiredType ==
  ASSUME TypeInv, NEW d \in Domain, DeleteExpired(d)
  PROVE  TypeInv'
  BY SMTT(60) DEF TypeInv, TypeOK, Allocated, DeleteExpired, Absent, Item, Never, NoEntry

\* Time passes within its bound.
LEMMA TickType ==
  ASSUME TypeInv, Tick
  PROVE  TypeInv'
  <1>1. now' \in Time
    BY ConstantsAssumption, SMTT(60) DEF TypeInv, TypeOK, Tick, Time
  <1> QED
    BY <1>1 DEF TypeInv, TypeOK, Allocated, Tick

\* Every step keeps the state well-formed.
LEMMA NextType == TypeInv /\ [Next]_vars => TypeInv'
  <1>1. ASSUME TypeInv, NEW c \in Client, ClientStep(c) PROVE TypeInv'
    BY <1>1, LoadHitType, LoadMissType, LoadRecheckType, CreateType, ServeFreshType,
       ServeStaleType, WaitType, RetrievedType, ContextDoneType
       DEF ClientStep
  <1>2. ASSUME TypeInv, NEW id \in EntryId, RetrieveStep(id) PROVE TypeInv'
    BY <1>2, AnswerType, setResponseType DEF RetrieveStep
  <1>3. ASSUME TypeInv, NEW id \in EntryId, RefreshStep(id) PROVE TypeInv'
    BY <1>3, RefreshStartType, RefreshDecideType, RefreshPublishType DEF RefreshStep
  <1>4. ASSUME TypeInv, UNCHANGED vars PROVE TypeInv'
    BY <1>4 DEF TypeInv, TypeOK, Allocated, vars
  <1> QED
    BY <1>1, <1>2, <1>3, <1>4, DeleteExpiredType, TickType DEF Next

(***************************************************************************)
(* The heap, the store and the calls stay well formed, whatever the        *)
(* requests, the refreshes and the clock do.                               *)
(***************************************************************************)
THEOREM TypeCorrect == Spec => []TypeInv
  BY InitType, NextType, PTL DEF Spec

\* The type invariant that the runs check, for every value of the constants.
THEOREM TypeOKInvariant == Spec => []TypeOK
  <1>1. TypeInv => TypeOK
    BY DEF TypeInv
  <1> QED
    BY <1>1, TypeCorrect, PTL

-----------------------------------------------------------------------------
(***************************************************************************)
(* One miss per expiry.                                                    *)
(*                                                                         *)
(* MissOncePerExpiry is not inductive: it has to be known why LoadOrCreate *)
(* cannot miss again too early.  From the moment a miss made an entry and  *)
(* until its TTL has passed, the store holds SOME item for the domain that *)
(* lives at least as long: the janitor only removes what has expired, and  *)
(* every SetDefault moves the expiry forward.                              *)
(***************************************************************************)
CoveredBy(id) ==
  /\ entry[id].created \in 0..now
  /\ now <= entry[id].created + ExpirationTimeout =>
       /\ store[entry[id].dom].entry # NoEntry
       /\ store[entry[id].dom].expires >= entry[id].created + ExpirationTimeout

Covered == \A id \in EntryId : MadeByMiss(id) => CoveredBy(id)

MissInv == TypeInv /\ Covered /\ MissOncePerExpiry

\* A step that allocates nothing and leaves the misses as they were.
SameMisses ==
  /\ used' = used
  /\ \A i \in EntryId :
       /\ entry'[i].next = entry[i].next
       /\ entry'[i].dom = entry[i].dom
       /\ MadeByMiss(i) => entry'[i].created = entry[i].created

\* Such a step leaves the set of misses alone,
LEMMA SameMade ==
  ASSUME SameMisses, NEW id \in EntryId
  PROVE  MadeByMiss(id)' <=> MadeByMiss(id)
  BY DEF SameMisses, MadeByMiss

\* hence the distance between them,
LEMMA SameOnce ==
  ASSUME MissInv, SameMisses
  PROVE  MissOncePerExpiry'
  BY SameMade DEF MissInv, MissOncePerExpiry, SameMisses

\* and, if the store and the clock stand still, what covers them.
LEMMA SameCovered ==
  ASSUME MissInv, SameMisses, now' = now, store' = store
  PROVE  Covered'
  BY SameMade DEF MissInv, Covered, CoveredBy, SameMisses

\* A step that leaves all entries alone is such a step.
LEMMA ClientMisses ==
  ASSUME MissInv, entry' = entry, used' = used
  PROVE  SameMisses
  BY DEF SameMisses

\* Firing the retrieve Once creates no entry.
LEMMA WaitMisses ==
  ASSUME MissInv, NEW c \in Client, Wait(c)
  PROVE  SameMisses
  <1> DEFINE id == client[c].ent
             e == IF entry[id].retrieve = "no" THEN StartRetrieve(entry[id]) ELSE entry[id]
  <1>1. id \in EntryId /\ entry[id] \in Entry /\ now \in Int
    BY ConstantsAssumption, SMTT(60)
       DEF MissInv, TypeInv, TypeOK, Allocated, Wait, EntryId, NoEntry, Time
  <1>2. e.next = entry[id].next /\ e.dom = entry[id].dom /\ e.created = entry[id].created
    BY <1>1, StartRetrieveType
  <1>3. entry' = [entry EXCEPT ![id] = e] /\ used' = used
    BY DEF Wait
  <1> HIDE DEF e
  <1> QED
    BY <1>1, <1>2, <1>3 DEF SameMisses, MissInv, TypeInv, TypeOK

\* The retrieving goroutine creates no entry.
LEMMA RetrieveMisses ==
  ASSUME MissInv, NEW id \in EntryId, RetrieveStep(id)
  PROVE  SameMisses
  BY SMTT(60) DEF SameMisses, RetrieveStep, Answer, setResponse, MissInv, TypeInv, TypeOK, Entry

\* refreshFunc changes the creation time of its own new entry only, no miss.
LEMMA RefreshMisses ==
  ASSUME MissInv, NEW id \in EntryId, RefreshStep(id)
  PROVE  SameMisses
  <1> DEFINE n == entry[id].next
  <1>1. n \in EntryId /\ n # id /\ entry[n] \in Entry /\ ~MadeByMiss(n) /\ now \in Time /\ now \in Int
    <2>1. entry[id].refresh # "no"
      BY DEF RefreshStep, RefreshStart, RefreshDecide, RefreshPublish
    <2>2. n # NoEntry /\ n \in 0..used /\ n # id
      BY <2>1 DEF MissInv, TypeInv, Allocated
    <2>3. used \in 0..MaxEntries /\ entry \in [EntryId -> Entry] /\ now \in Time
      BY DEF MissInv, TypeInv, TypeOK
    <2>4. n \in EntryId
      BY <2>2, <2>3, ConstantsAssumption, SMTT(60) DEF EntryId, NoEntry
    <2>5. ~MadeByMiss(n)
      BY DEF MadeByMiss
    <2>6. now \in Int
      BY <2>3, ConstantsAssumption, SMTT(60) DEF Time
    <2> QED
      BY <2>2, <2>3, <2>4, <2>5, <2>6
  <1>2. CASE RefreshStart(id)
    <2> DEFINE new == [entry[n] EXCEPT !.created = now]
    <2>1. new \in Entry /\ new.next = entry[n].next /\ new.dom = entry[n].dom
      BY <1>1 DEF Entry
    <2>2. /\ StartRetrieve(new).next = entry[n].next
          /\ StartRetrieve(new).dom = entry[n].dom
      BY <1>1, <2>1, StartRetrieveType
    <2> QED
      BY <1>1, <1>2, <2>2 DEF SameMisses, RefreshStart, MissInv, TypeInv, TypeOK, Entry
  <1>3. CASE RefreshDecide(id)
    <2> DEFINE new == KeepOrReplace(entry[id], entry[n])
    <2>1. new.next = entry[n].next /\ new.dom = entry[n].dom /\ new.created = entry[n].created
      BY <1>1, KeepOrReplaceType, SMTT(60) DEF MissInv, TypeInv, TypeOK
    <2> QED
      BY <1>1, <1>3, <2>1 DEF SameMisses, RefreshDecide, MissInv, TypeInv, TypeOK, Entry
  <1>4. CASE RefreshPublish(id)
    BY <1>4 DEF SameMisses, RefreshPublish, MissInv, TypeInv, TypeOK, Entry
  <1> QED
    BY <1>2, <1>3, <1>4 DEF RefreshStep

\* ReplaceOrCreate renews the item's expiry, so it covers all earlier misses.
LEMMA PublishCovered ==
  ASSUME MissInv, NEW id \in EntryId, RefreshPublish(id)
  PROVE  Covered'
  <1> DEFINE n == entry[id].next
             d == entry[id].dom
  <1>1. n # NoEntry /\ d \in Domain /\ now \in Int
    BY ConstantsAssumption, SMTT(60)
       DEF MissInv, TypeInv, TypeOK, Allocated, RefreshPublish, Entry, Time
  <1>2. SameMisses /\ now' = now
    BY RefreshMisses DEF RefreshStep, RefreshPublish
  <1>3. /\ store'[d].entry # NoEntry
        /\ store'[d].expires = now + ExpirationTimeout
        /\ \A b \in Domain : b # d => store'[b] = store[b]
    BY <1>1 DEF RefreshPublish, SetDefault, MissInv, TypeInv, TypeOK
  <1>4. SUFFICES ASSUME NEW i \in EntryId, MadeByMiss(i) PROVE CoveredBy(i)'
    BY <1>2, SameMade DEF Covered
  <1>5. CoveredBy(i) /\ entry[i].dom \in Domain /\ entry'[i].dom = entry[i].dom
        /\ entry'[i].created = entry[i].created
    BY <1>2, <1>4 DEF Covered, MissInv, SameMisses, TypeInv, TypeOK, Entry
  <1> HIDE DEF n, d
  <1>6. CASE entry[i].dom = d
    BY <1>1, <1>2, <1>3, <1>5, <1>6, ConstantsAssumption, SMTT(60) DEF CoveredBy
  <1>7. CASE entry[i].dom # d
    BY <1>2, <1>3, <1>5, <1>7 DEF CoveredBy
  <1> QED
    BY <1>6, <1>7

\* The janitor deletes only items that cover no miss any more.
LEMMA DeleteCovered ==
  ASSUME MissInv, NEW d \in Domain, DeleteExpired(d)
  PROVE  Covered'
  <1>1. /\ now \in Int /\ store[d].expires \in Int /\ now > store[d].expires
        /\ now' = now /\ entry' = entry /\ used' = used
        /\ \A b \in Domain : b # d => store'[b] = store[b]
    BY ConstantsAssumption, SMTT(60)
       DEF MissInv, TypeInv, TypeOK, DeleteExpired, Visible, Item, Time
  <1>2. SUFFICES ASSUME NEW i \in EntryId, MadeByMiss(i) PROVE CoveredBy(i)'
    BY <1>1 DEF Covered, MadeByMiss
  <1>3. CoveredBy(i) /\ entry[i].dom \in Domain /\ entry[i].created \in Int
    BY <1>2, ConstantsAssumption, SMTT(60) DEF Covered, MissInv, TypeInv, TypeOK, Entry, CoveredBy
  <1>4. CASE entry[i].dom = d
    BY <1>1, <1>3, <1>4, ConstantsAssumption, SMTT(60) DEF CoveredBy
  <1>5. CASE entry[i].dom # d
    BY <1>1, <1>3, <1>5 DEF CoveredBy
  <1> QED
    BY <1>4, <1>5

\* Time uncovers a miss only once its TTL is over.
LEMMA TickCovered ==
  ASSUME MissInv, Tick
  PROVE  Covered'
  <1>1. now \in Nat /\ now' = now + 1 /\ store' = store /\ entry' = entry /\ used' = used
    BY ConstantsAssumption, SMTT(60) DEF MissInv, TypeInv, TypeOK, Tick, Time
  <1>2. SUFFICES ASSUME NEW i \in EntryId, MadeByMiss(i) PROVE CoveredBy(i)'
    BY <1>1 DEF Covered, MadeByMiss
  <1>3. CoveredBy(i)
    BY <1>2 DEF Covered, MissInv
  <1> QED
    BY <1>1, <1>3, ConstantsAssumption, SMTT(60) DEF CoveredBy

\* The refresh Once fires: the new entry is somebody's next, not a miss.
LEMMA ServeStaleMisses ==
  ASSUME MissInv, NEW c \in Client, ServeStale(c)
  PROVE  Covered' /\ MissOncePerExpiry'
  <1> DEFINE id == client[c].ent
             n == used + 1
  <1>1. id \in EntryId /\ id \in 1..used /\ used \in Nat /\ now' = now /\ store' = store
    BY ConstantsAssumption, SMTT(60)
       DEF MissInv, TypeInv, TypeOK, Allocated, ServeStale, EntryId, NoEntry
  <1>2. CASE entry[id].refresh # "no"
    BY <1>1, <1>2, ClientMisses, SameOnce, SameCovered DEF ServeStale
  <1>3. CASE entry[id].refresh = "no"
    <2>1. /\ used' = n /\ n \in EntryId /\ n # id /\ entry[id].next = NoEntry
          /\ entry' = [entry EXCEPT ![id].refresh = "spawned", ![id].next = n,
                                    ![n] = newCacheEntry(entry[id].dom, Never)]
      <3>1. /\ used' = n /\ used < MaxEntries
            /\ entry' = [entry EXCEPT ![id].refresh = "spawned", ![id].next = n,
                                      ![n] = newCacheEntry(entry[id].dom, Never)]
        BY <1>3 DEF ServeStale
      <3>2. n \in EntryId /\ n # id
        BY <1>1, <3>1, ConstantsAssumption, SMTT(60) DEF EntryId
      <3>3. entry[id].next = NoEntry
        <4>1. \A i \in EntryId : entry[i].refresh = "no" <=> entry[i].next = NoEntry
          BY DEF MissInv, TypeInv, Allocated
        <4> QED
          BY <1>1, <1>3, <4>1
      <3> QED
        BY <3>1, <3>2, <3>3
    <2>2. /\ entry'[id].next = n
          /\ entry'[id].dom = entry[id].dom /\ entry'[id].created = entry[id].created
          /\ \A i \in EntryId \ {id, n} : entry'[i] = entry[i]
      <3> DEFINE old == [entry[id] EXCEPT !.refresh = "spawned", !.next = n]
                 new == newCacheEntry(entry[id].dom, Never)
      <3>1. entry[id] \in Entry /\ entry \in [EntryId -> Entry]
        BY <1>1 DEF MissInv, TypeInv, TypeOK
      <3>2. old.next = n /\ old.dom = entry[id].dom /\ old.created = entry[id].created
        BY <3>1 DEF Entry
      <3>3. entry' = [[entry EXCEPT ![id] = old] EXCEPT ![n] = new]
        BY <1>1, <2>1, <3>1
      <3>4. n \in EntryId /\ n # id /\ id \in EntryId
        BY <1>1, <2>1
      <3> HIDE DEF old, new, id, n
      <3> QED
        BY <3>1, <3>2, <3>3, <3>4
    <2>3. ASSUME NEW i \in EntryId, MadeByMiss(i)'
          PROVE  /\ MadeByMiss(i)
                 /\ entry'[i].dom = entry[i].dom /\ entry'[i].created = entry[i].created
      <3>1. i # n /\ i <= used
        <4>1. entry'[id].next # i /\ i <= used'
          BY <1>1, <2>3 DEF MadeByMiss
        <4>2. i # n /\ i <= n
          BY <2>1, <2>2, <4>1
        <4>3. i \in Int
          BY ConstantsAssumption, SMTT(60) DEF EntryId
        <4> QED
          BY <1>1, <4>2, <4>3, SMTT(60)
      <3>2. ASSUME NEW j \in EntryId PROVE entry[j].next # i
        <4>a. i # NoEntry
          BY SMTT(60) DEF EntryId, NoEntry
        <4>b. entry[id].next = NoEntry
          BY <2>1
        <4>c. entry[n].next = NoEntry
          <5>1. n \in EntryId
            BY <2>1
          <5>2. n > used
            BY <1>1, SMTT(60)
          <5> HIDE DEF n
          <5> QED
            BY <5>1, <5>2 DEF MissInv, TypeInv, Allocated
        <4>1. CASE j = id
          BY <4>1, <4>a, <4>b
        <4>2. CASE j = n
          BY <4>2, <4>a, <4>c
        <4>3. CASE j \notin {id, n}
          BY <4>3, <2>2, <2>3 DEF MadeByMiss
        <4> QED
          BY <4>1, <4>2, <4>3
      <3> QED
        BY <2>2, <3>1, <3>2 DEF MadeByMiss
    <2>4. Covered'
      BY <1>1, <2>3 DEF Covered, CoveredBy, MissInv
    <2>5. MissOncePerExpiry'
      BY <2>3 DEF MissOncePerExpiry, MissInv
    <2> QED
      BY <2>4, <2>5
  <1> QED
    BY <1>2, <1>3

\* LoadOrCreate creates: no miss of the domain is covered any more, so all of
\* them are older than ExpirationTimeout; the new one is covered by its item.
LEMMA CreateMisses ==
  ASSUME MissInv, NEW c \in Client, Create(c)
  PROVE  Covered' /\ MissOncePerExpiry'
  <1> DEFINE d == client[c].dom
             n == used + 1
  <1>1. /\ d \in Domain /\ used \in Nat /\ n \in EntryId /\ now \in Nat /\ now' = now
        /\ used' = n /\ ~Visible(d)
        /\ entry' = [entry EXCEPT ![n] = newCacheEntry(d, now)]
        /\ store' = [store EXCEPT ![d] = SetDefault(n)]
    BY ConstantsAssumption, SMTT(60)
       DEF MissInv, TypeInv, TypeOK, Create, EntryId, Call, Time
  <1>2. /\ entry'[n].dom = d /\ entry'[n].created = now /\ entry'[n].next = NoEntry
        /\ \A i \in EntryId : i # n => entry'[i] = entry[i]
        /\ entry[n].next = NoEntry
        /\ store'[d].entry = n /\ store'[d].expires = now + ExpirationTimeout
        /\ \A b \in Domain : b # d => store'[b] = store[b]
    BY <1>1, SMTT(60) DEF MissInv, TypeInv, TypeOK, Allocated, newCacheEntry, SetDefault
  <1>3. n # NoEntry
    BY <1>1, SMTT(60) DEF NoEntry
  <1>4. ASSUME NEW i \in EntryId, i # n, MadeByMiss(i)'
        PROVE  /\ MadeByMiss(i) /\ i < n
               /\ entry[i].dom \in Domain /\ entry[i].created \in 0..now
               /\ entry[i].dom = d => now - entry[i].created > ExpirationTimeout
    <2>1. i <= used /\ i < n
      BY <1>1, <1>4, ConstantsAssumption, SMTT(60) DEF MadeByMiss, EntryId
    <2>2. MadeByMiss(i)
      BY <1>2, <1>4, <2>1 DEF MadeByMiss, EntryId, NoEntry
    <2>3. CoveredBy(i) /\ entry[i].dom \in Domain
      BY <2>2 DEF MissInv, Covered, TypeInv, TypeOK, Entry
    <2>4. store[d] \in Item
      BY <1>1 DEF MissInv, TypeInv, TypeOK
    <2>5. ASSUME entry[i].dom = d PROVE now - entry[i].created > ExpirationTimeout
      BY <1>1, <2>3, <2>4, <2>5, ConstantsAssumption, SMTT(60) DEF CoveredBy, Visible, Item
    <2> QED
      BY <2>1, <2>2, <2>3, <2>5 DEF CoveredBy
  <1> HIDE DEF d, n
  <1>5. ASSUME NEW i \in EntryId, MadeByMiss(i)' PROVE CoveredBy(i)'
    <2>1. CASE i = n
      BY <1>1, <1>2, <1>3, <2>1, ConstantsAssumption, SMTT(60) DEF CoveredBy
    <2>2. CASE i # n
      <3>1. CoveredBy(i) /\ entry'[i] = entry[i] /\ entry[i].dom \in Domain
        BY <1>2, <1>4, <1>5, <2>2 DEF MissInv, Covered
      <3>2. CASE entry[i].dom = d
        BY <1>1, <1>4, <1>5, <2>2, <3>1, <3>2, ConstantsAssumption, SMTT(60) DEF CoveredBy
      <3>3. CASE entry[i].dom # d
        BY <1>1, <1>2, <3>1, <3>3 DEF CoveredBy
      <3> QED
        BY <3>2, <3>3
    <2> QED
      BY <2>1, <2>2
  <1>6. ASSUME NEW i \in EntryId, NEW j \in EntryId, MadeByMiss(i)', MadeByMiss(j)', i < j,
               entry'[i].dom = entry'[j].dom
        PROVE  entry'[j].created - entry'[i].created > ExpirationTimeout
    <2>1. i \in Int /\ j \in Int
      BY ConstantsAssumption, SMTT(60) DEF EntryId
    <2>2. CASE j = n
      BY <1>2, <1>4, <1>6, <2>1, <2>2, SMTT(60)
    <2>3. CASE i = n
      BY <1>1, <1>4, <1>6, <2>1, <2>3, SMTT(60) DEF n
    <2>4. CASE i # n /\ j # n
      BY <1>2, <1>4, <1>6, <2>4 DEF MissInv, MissOncePerExpiry
    <2> QED
      BY <2>2, <2>3, <2>4
  <1> QED
    BY <1>5, <1>6 DEF Covered, MissOncePerExpiry

\* Every step preserves the inductive invariant.
LEMMA MissStep ==
  ASSUME MissInv, [Next]_vars
  PROVE  MissInv'
  <1>1. TypeInv'
    BY NextType DEF MissInv
  <1>2. Covered' /\ MissOncePerExpiry'
    <2>1. CASE UNCHANGED vars
      BY <2>1, ClientMisses, SameOnce, SameCovered DEF vars
    <2>2. ASSUME NEW c \in Client, NEW d \in Domain, LoadHit(c, d) \/ LoadMiss(c, d)
          PROVE  Covered' /\ MissOncePerExpiry'
      BY <2>2, ClientMisses, SameOnce, SameCovered DEF LoadHit, LoadMiss
    <2>3. ASSUME NEW c \in Client,
                 LoadRecheck(c) \/ ServeFresh(c) \/ Retrieved(c) \/ ContextDone(c)
          PROVE  Covered' /\ MissOncePerExpiry'
      BY <2>3, ClientMisses, SameOnce, SameCovered
         DEF LoadRecheck, ServeFresh, Retrieved, ContextDone
    <2>4. ASSUME NEW c \in Client, Create(c) PROVE Covered' /\ MissOncePerExpiry'
      BY <2>4, CreateMisses
    <2>5. ASSUME NEW c \in Client, ServeStale(c) PROVE Covered' /\ MissOncePerExpiry'
      BY <2>5, ServeStaleMisses
    <2>6. ASSUME NEW c \in Client, Wait(c) PROVE Covered' /\ MissOncePerExpiry'
      <3>1. now' = now /\ store' = store
        BY <2>6 DEF Wait
      <3> QED
        BY <2>6, <3>1, WaitMisses, SameOnce, SameCovered
    <2>7. ASSUME NEW id \in EntryId, RetrieveStep(id) PROVE Covered' /\ MissOncePerExpiry'
      <3>1. now' = now /\ store' = store
        BY <2>7 DEF RetrieveStep, Answer, setResponse
      <3> QED
        BY <2>7, <3>1, RetrieveMisses, SameOnce, SameCovered
    <2>8. ASSUME NEW id \in EntryId, RefreshStep(id) PROVE Covered' /\ MissOncePerExpiry'
      <3>1. SameMisses
        BY <2>8, RefreshMisses
      <3>2. CASE RefreshPublish(id)
        BY <3>1, <3>2, PublishCovered, SameOnce
      <3>3. CASE RefreshStart(id) \/ RefreshDecide(id)
        BY <3>1, <3>3, SameOnce, SameCovered DEF RefreshStart, RefreshDecide
      <3> QED
        BY <2>8, <3>2, <3>3 DEF RefreshStep
    <2>9. ASSUME NEW d \in Domain, DeleteExpired(d) PROVE Covered' /\ MissOncePerExpiry'
      BY <2>9, DeleteCovered, ClientMisses, SameOnce DEF DeleteExpired
    <2>10. CASE Tick
      BY <2>10, TickCovered, ClientMisses, SameOnce DEF Tick
    <2> QED
      BY <2>1, <2>2, <2>3, <2>4, <2>5, <2>6, <2>7, <2>8, <2>9, <2>10 DEF Next, ClientStep
  <1> QED
    BY <1>1, <1>2 DEF MissInv

(***************************************************************************)
(* LoadOrCreate makes at most one entry for a domain per CacheExpiry: the  *)
(* check under the read lock, the check again under the write lock, the    *)
(* refreshes that replace the item and the janitor that deletes it leave   *)
(* no gap, for any number of requests, domains and timeouts.               *)
(***************************************************************************)
THEOREM MissOnce == Spec => []MissOncePerExpiry
  <1>1. Init => MissInv
    BY InitType, ConstantsAssumption, SMTT(60)
       DEF MissInv, Covered, MissOncePerExpiry, MadeByMiss, Init, EntryId
  <1>2. MissInv /\ [Next]_vars => MissInv'
    BY MissStep
  <1>3. MissInv => MissOncePerExpiry
    BY DEF MissInv
  <1> QED
    BY <1>1, <1>2, <1>3, PTL DEF Spec

-----------------------------------------------------------------------------
(***************************************************************************)
(* What the entries hold.                                                  *)
(*                                                                         *)
(* A response is an answer that the API gave for the entry's own domain,   *)
(* and is there exactly when the channel is closed, refreshes that keep an *)
(* old response included.                                                  *)
(***************************************************************************)
Filled(id) ==
  /\ entry[id].retrieve \in {"no", "running"} <=> entry[id].answer = Nil
  /\ entry[id].retrieve = "done" <=> isResolved(entry[id])
  /\ isResolved(entry[id]) => entry[id].response \in Answered(entry[id].dom)
  /\ id > used => entry[id].retrieve = "no"

(***************************************************************************)
(* A refresh has an entry of its own, for the same domain, that nobody     *)
(* else can reach before it is published: nobody but refreshFunc fires its *)
(* retrieve Once.                                                          *)
(***************************************************************************)
Private(id, n) ==
  /\ isResolved(entry[id])
  /\ entry[n].dom = entry[id].dom
  /\ entry[id].refresh = "spawned" => entry[n].retrieve = "no"
  /\ entry[id].refresh # "published" => ~ Reachable(n)
  /\ \A j \in EntryId : entry[j].next = n => j = id

\* The store and the calls refer to entries of the domain they are for.
OwnDomain ==
  /\ \A d \in Domain : store[d].entry # NoEntry => entry[store[d].entry].dom = d
  /\ \A c \in Client : client[c].ent # NoEntry => entry[client[c].ent].dom = client[c].dom

Content ==
  /\ TypeInv
  /\ \A id \in EntryId : Filled(id)
  /\ \A id \in EntryId : entry[id].next # NoEntry => Private(id, entry[id].next)
  /\ OwnDomain


\* Firing the retrieve Once answers nothing yet.
LEMMA StartRetrieveFields ==
  ASSUME NEW e \in Entry
  PROVE  /\ StartRetrieve(e).retrieve = "running"
         /\ StartRetrieve(e).answer = e.answer
         /\ StartRetrieve(e).response = e.response
         /\ StartRetrieve(e).orig = e.orig
         /\ StartRetrieve(e).refresh = e.refresh
         /\ StartRetrieve(e).next = e.next
         /\ StartRetrieve(e).dom = e.dom
  BY DEF StartRetrieve, Entry

\* refreshFunc gives the new entry the old response, or leaves it alone.
LEMMA KeepOrReplaceFields ==
  ASSUME NEW e \in Entry, NEW n \in Entry
  PROVE  /\ KeepOrReplace(e, n).retrieve = n.retrieve
         /\ KeepOrReplace(e, n).answer = n.answer
         /\ KeepOrReplace(e, n).response \in {e.response, n.response}
         /\ KeepOrReplace(e, n).refresh = n.refresh
         /\ KeepOrReplace(e, n).next = n.next
         /\ KeepOrReplace(e, n).dom = n.dom
  <1>1. CASE ~isExpired(e) /\ hasTemporaryError(n)
    <2>1. KeepOrReplace(e, n) = [n EXCEPT !.response = e.response, !.orig = e.created]
      BY <1>1 DEF KeepOrReplace
    <2> QED
      BY <2>1 DEF Entry
  <1>2. CASE ~(~isExpired(e) /\ hasTemporaryError(n))
    BY <1>2 DEF KeepOrReplace
  <1> QED
    BY <1>1, <1>2

\* What the API has answered for a domain is not forgotten, as long as the
\* allocated entries keep their domain and their answer,
LEMMA AnsweredGrows ==
  ASSUME 1..used \subseteq 1..used', NEW d,
         \A i \in 1..used : /\ entry'[i].dom = entry[i].dom
                            /\ entry[i].answer # Nil => entry'[i].answer = entry[i].answer
  PROVE  Answered(d) \subseteq Answered(d)'
  BY DEF Answered

\* and nothing is added by entries that are not answered.
LEMMA AnsweredSame ==
  ASSUME 1..used \subseteq 1..used', NEW d,
         \A i \in 1..used : entry'[i].dom = entry[i].dom /\ entry'[i].answer = entry[i].answer,
         \A i \in 1..used' : i \in 1..used \/ entry'[i].answer = Nil
  PROVE  Answered(d)' = Answered(d)
  BY SMTT(60) DEF Answered

\* An entry whose retrieval a step leaves alone stays as filled as it was.
LEMMA FilledKept ==
  ASSUME NEW i \in EntryId, Filled(i), i > used' => i > used,
         entry'[i].retrieve = entry[i].retrieve, entry'[i].answer = entry[i].answer,
         entry'[i].response = entry[i].response,
         NEW d, entry[i].dom = d, entry'[i].dom = d, Answered(d) \subseteq Answered(d)'
  PROVE  Filled(i)'
  BY DEF Filled, isResolved

\* A step of the calls or of the store alone, that makes no other entry
\* reachable, keeps what the entries hold.
LEMMA SameHeapContent ==
  ASSUME Content, TypeInv', entry' = entry, used' = used,
         \A i \in EntryId : Reachable(i)' => Reachable(i), OwnDomain'
  PROVE  Content'
  <1>1. ASSUME NEW i \in EntryId PROVE Filled(i)'
    <2>1. Filled(i)
      BY DEF Content
    <2> QED
      BY <2>1 DEF Filled, isResolved, Answered
  <1>2. ASSUME NEW i \in EntryId, entry'[i].next # NoEntry
        PROVE  Private(i, entry[i].next)'
    <2>1. Private(i, entry[i].next) /\ entry[i].next \in EntryId
      BY <1>2 DEF Content, TypeInv, TypeOK, Entry
    <2>2. entry'[i].refresh # "published" => ~ Reachable(entry[i].next)'
      BY <2>1 DEF Private
    <2> QED
      BY <2>1, <2>2 DEF Private, isResolved
  <1> QED
    BY <1>1, <1>2 DEF Content

\* A step that fills entries and moves no reference keeps refreshes private.
LEMMA SameReferencesContent ==
  ASSUME Content, TypeInv', store' = store,
         \A c \in Client : client'[c].ent = client[c].ent /\ client'[c].dom = client[c].dom,
         \A i \in EntryId :
           /\ entry'[i].next = entry[i].next /\ entry'[i].dom = entry[i].dom
           /\ entry[i].response # Nil => entry'[i].response # Nil
           /\ entry[i].refresh = "published" => entry'[i].refresh = "published"
           /\ entry[i].next # NoEntry /\ entry'[i].refresh = "spawned"
                => entry'[entry[i].next].retrieve = "no",
         \A i \in EntryId : Filled(i)'
  PROVE  Content'
  <1>1. \A i \in EntryId : Reachable(i)' <=> Reachable(i)
    BY DEF Reachable
  <1>2. ASSUME NEW i \in EntryId, entry'[i].next # NoEntry
        PROVE  Private(i, entry[i].next)'
    <2>1. /\ Private(i, entry[i].next) /\ entry[i].next \in EntryId
          /\ entry'[i].next = entry[i].next
      <3>1. entry'[i].next = entry[i].next /\ entry[i].next # NoEntry
        BY <1>2
      <3> QED
        BY <3>1, SMTT(60) DEF Content, TypeInv, TypeOK, Entry
    <2>2. isResolved(entry[i])'
      BY <2>1 DEF Private, isResolved
    <2>3. entry'[entry'[i].next].dom = entry'[i].dom
      BY <2>1 DEF Private
    <2>4. entry'[i].refresh # "published" => ~ Reachable(entry[i].next)'
      BY <1>1, <2>1 DEF Private
    <2>5. \A j \in EntryId : entry'[j].next = entry'[i].next => j = i
      BY <2>1 DEF Private
    <2> QED
      BY <1>2, <2>1, <2>2, <2>3, <2>4, <2>5 DEF Private
  <1>3. OwnDomain'
    <2>1. ASSUME NEW d \in Domain, store'[d].entry # NoEntry
          PROVE  entry'[store'[d].entry].dom = d
      <3>1. store[d].entry \in EntryId /\ entry[store[d].entry].dom = d
        BY <2>1 DEF Content, OwnDomain, TypeInv, TypeOK, Item
      <3> QED
        BY <3>1
    <2>2. ASSUME NEW c \in Client, client'[c].ent # NoEntry
          PROVE  entry'[client'[c].ent].dom = client'[c].dom
      <3>1. client[c].ent \in EntryId /\ entry[client[c].ent].dom = client[c].dom
        <4>1. client[c].ent # NoEntry /\ client[c] \in Call
          BY <2>2 DEF Content, TypeInv, TypeOK
        <4>2. client[c].ent \in EntryId
          BY <4>1 DEF Call
        <4> QED
          BY <4>1, <4>2 DEF Content, OwnDomain
      <3> QED
        BY <3>1
    <2> QED
      BY <2>1, <2>2 DEF OwnDomain
  <1> QED
    BY <1>2, <1>3 DEF Content

\* A call that takes the entry of its domain's item reads what could be reached.
LEMMA LoadContent ==
  ASSUME Content, TypeInv', NEW c \in Client, NEW d \in Domain, client'[c].dom = d,
         client'[c].ent = NoEntry \/ client'[c].ent = store[d].entry,
         \A b \in Client : b # c => client'[b] = client[b],
         entry' = entry, used' = used, store' = store
  PROVE  Content'
  <1>1. ASSUME NEW i \in EntryId, Reachable(i)' PROVE Reachable(i)
    <2>1. i # NoEntry
      BY SMTT(60) DEF EntryId, NoEntry
    <2>2. ASSUME NEW b \in Client, client'[b].ent = i PROVE Reachable(i)
      <3>1. CASE b = c
        BY <2>1, <2>2, <3>1 DEF Reachable
      <3>2. CASE b # c
        BY <2>2, <3>2 DEF Reachable
      <3> QED
        BY <3>1, <3>2
    <2> QED
      BY <1>1, <2>2 DEF Reachable
  <1>2. OwnDomain'
    <2>1. ASSUME NEW b \in Client, client'[b].ent # NoEntry
          PROVE  entry'[client'[b].ent].dom = client'[b].dom
      <3>1. CASE b = c
        <4>1. client'[c].ent = store[d].entry /\ store[d].entry # NoEntry
          BY <2>1, <3>1
        <4>2. entry[store[d].entry].dom = d
          BY <4>1 DEF Content, OwnDomain
        <4> QED
          BY <3>1, <4>1, <4>2
      <3>2. CASE b # c
        BY <2>1, <3>2 DEF Content, OwnDomain
      <3> QED
        BY <3>1, <3>2
    <2> QED
      BY <2>1 DEF Content, OwnDomain
  <1> QED
    BY <1>1, <1>2, SameHeapContent

\* Resolve returns: the call drops its entry.
LEMMA ReturnContent ==
  ASSUME Content, TypeInv', NEW c \in Client, NEW l, Return(c, l),
         entry' = entry, used' = used, store' = store
  PROVE  Content'
  <1>1. /\ client'[c].ent = NoEntry
        /\ \A b \in Client : b # c => client'[b] = client[b]
    BY DEF Return, Content, TypeInv, TypeOK, Call
  <1>2. ASSUME NEW i \in EntryId, Reachable(i)' PROVE Reachable(i)
    <2>1. i # NoEntry
      BY SMTT(60) DEF EntryId, NoEntry
    <2> QED
      BY <1>1, <1>2, <2>1 DEF Reachable
  <1>3. OwnDomain'
    BY <1>1 DEF Content, OwnDomain
  <1> QED
    BY <1>2, <1>3, SameHeapContent

\* The steps of Resolve that leave the heap alone.
LEMMA ReadContent ==
  ASSUME Content, TypeInv', NEW c \in Client,
         \/ \E d \in Domain : LoadHit(c, d) \/ LoadMiss(c, d)
         \/ LoadRecheck(c) \/ ServeFresh(c) \/ Retrieved(c) \/ ContextDone(c)
  PROVE  Content'
  <1>a. client \in [Client -> Call]
    BY DEF Content, TypeInv, TypeOK
  <1>1. ASSUME NEW d \in Domain, LoadHit(c, d) PROVE Content'
    <2>1. /\ client'[c].dom = d /\ client'[c].ent = store[d].entry
          /\ \A b \in Client : b # c => client'[b] = client[b]
          /\ entry' = entry /\ used' = used /\ store' = store
      BY <1>a, <1>1 DEF LoadHit
    <2> QED
      BY <2>1, LoadContent
  <1>2. ASSUME NEW d \in Domain, LoadMiss(c, d) PROVE Content'
    <2>1. /\ client'[c].dom = d /\ client'[c].ent = NoEntry
          /\ \A b \in Client : b # c => client'[b] = client[b]
          /\ entry' = entry /\ used' = used /\ store' = store
      BY <1>a, <1>2 DEF LoadMiss
    <2> QED
      BY <2>1, LoadContent
  <1>3. CASE LoadRecheck(c)
    <2>1. PICK d \in Domain : d = client[c].dom
      BY <1>a DEF Call
    <2>2. client[c] \in Call
      BY <1>a
    <2>3. /\ client'[c].dom = d /\ client'[c].ent = store[d].entry
          /\ \A b \in Client : b # c => client'[b] = client[b]
          /\ entry' = entry /\ used' = used /\ store' = store
      BY <1>a, <1>3, <2>1, <2>2 DEF LoadRecheck, Call
    <2> QED
      BY <2>3, LoadContent
  <1>4. CASE ServeFresh(c) \/ Retrieved(c)
    <2>1. /\ Return(c, entry[client[c].ent].response)
          /\ entry' = entry /\ used' = used /\ store' = store
      BY <1>4 DEF ServeFresh, Retrieved
    <2> QED
      BY <2>1, ReturnContent
  <1>5. CASE ContextDone(c)
    <2>1. /\ Return(c, [kind |-> "err", at |-> now])
          /\ entry' = entry /\ used' = used /\ store' = store
      BY <1>5 DEF ContextDone
    <2> QED
      BY <2>1, ReturnContent
  <1> QED
    BY <1>1, <1>2, <1>3, <1>4, <1>5

\* The janitor makes an entry unreachable, if anything.
LEMMA DeleteContent ==
  ASSUME Content, TypeInv', NEW d \in Domain, DeleteExpired(d)
  PROVE  Content'
  <1>1. /\ store'[d].entry = NoEntry
        /\ \A b \in Domain : b # d => store'[b] = store[b]
        /\ entry' = entry /\ used' = used /\ client' = client
    BY DEF DeleteExpired, Absent, Content, TypeInv, TypeOK
  <1>2. ASSUME NEW i \in EntryId, Reachable(i)' PROVE Reachable(i)
    <2>1. i # NoEntry
      BY SMTT(60) DEF EntryId, NoEntry
    <2> QED
      BY <1>1, <1>2, <2>1 DEF Reachable
  <1>3. OwnDomain'
    BY <1>1 DEF Content, OwnDomain
  <1> QED
    BY <1>1, <1>2, <1>3, SameHeapContent

\* Neither time nor stuttering changes what the entries hold.
LEMMA TimeContent ==
  ASSUME Content, TypeInv', Tick \/ UNCHANGED vars
  PROVE  Content'
  <1>1. entry' = entry /\ used' = used /\ client' = client /\ store' = store
    BY DEF Tick, vars
  <1>2. \A i \in EntryId : Reachable(i)' => Reachable(i)
    BY <1>1 DEF Reachable
  <1>3. OwnDomain'
    BY <1>1 DEF Content, OwnDomain
  <1> QED
    BY <1>1, <1>2, <1>3, SameHeapContent

\* A step that fills one entry, n, that no refresh is about to fill.
LEMMA FillContent ==
  ASSUME Content, TypeInv', store' = store, used' = used,
         \A c \in Client : client'[c].ent = client[c].ent /\ client'[c].dom = client[c].dom,
         \A i \in EntryId :
           /\ entry'[i].next = entry[i].next /\ entry'[i].dom = entry[i].dom
           /\ entry[i].refresh = "published" => entry'[i].refresh = "published",
         NEW n \in EntryId,
         \A i \in EntryId : i # n =>
           /\ entry'[i].retrieve = entry[i].retrieve /\ entry'[i].answer = entry[i].answer
           /\ entry'[i].response = entry[i].response,
         \A i \in EntryId : entry'[i].refresh = "spawned" =>
           entry[i].refresh = "spawned" /\ entry[i].next # n,
         entry[n].answer # Nil => entry'[n].answer = entry[n].answer,
         entry[n].response # Nil => entry'[n].response # Nil,
         Filled(n)'
  PROVE  Content'
  <1>1. 1..used \subseteq EntryId
    BY SMTT(60), ConstantsAssumption DEF Content, TypeInv, TypeOK, EntryId
  <1>2. \A i \in EntryId : /\ entry[i].answer # Nil => entry'[i].answer = entry[i].answer
                           /\ entry[i].response # Nil => entry'[i].response # Nil
    OBVIOUS
  <1>3. ASSUME NEW i \in EntryId PROVE Filled(i)'
    <2>1. CASE i = n
      BY <2>1
    <2>2. CASE i # n
      <3>1. /\ Filled(i) /\ entry'[i].retrieve = entry[i].retrieve
            /\ entry'[i].answer = entry[i].answer
            /\ entry'[i].response = entry[i].response /\ entry'[i].dom = entry[i].dom
        BY <2>2 DEF Content
      <3>a. PICK d : d = entry[i].dom
        OBVIOUS
      <3>2. Answered(d) \subseteq Answered(d)'
        BY <1>1, <1>2, AnsweredGrows
      <3> QED
        BY <3>1, <3>a, <3>2, FilledKept
    <2> QED
      BY <2>1, <2>2
  <1>4. ASSUME NEW i \in EntryId, entry[i].next # NoEntry, entry'[i].refresh = "spawned"
        PROVE  entry'[entry[i].next].retrieve = "no"
    <2>1. entry[i].refresh = "spawned" /\ entry[i].next # n /\ entry[i].next \in EntryId
      BY <1>4 DEF Content, TypeInv, TypeOK, Entry
    <2>2. entry[entry[i].next].retrieve = "no"
      BY <1>4, <2>1 DEF Content, Private
    <2> QED
      BY <2>1, <2>2
  <1> QED
    BY <1>2, <1>3, <1>4, SameReferencesContent

\* A waiting request fires the Once of an entry it can reach.
LEMMA WaitContent ==
  ASSUME Content, TypeInv', NEW c \in Client, Wait(c)
  PROVE  Content'
  <1>1. PICK id \in EntryId : id = client[c].ent
    BY HeldEntryType DEF Content, Wait
  <1>2. /\ entry \in [EntryId -> Entry] /\ entry[id] \in Entry /\ client \in [Client -> Call]
        /\ store' = store /\ used' = used
    BY DEF Content, TypeInv, TypeOK, Wait
  <1>3. \A b \in Client : client'[b].ent = client[b].ent /\ client'[b].dom = client[b].dom
    BY <1>2 DEF Wait, Call
  <1>4. CASE entry[id].retrieve = "no"
    <2>1. /\ entry'[id] = StartRetrieve(entry[id])
          /\ \A i \in EntryId : i # id => entry'[i] = entry[i]
      BY <1>1, <1>2, <1>4 DEF Wait
    <2>2. /\ entry'[id].retrieve = "running" /\ entry'[id].answer = entry[id].answer
          /\ entry'[id].response = entry[id].response /\ entry'[id].refresh = entry[id].refresh
          /\ entry'[id].next = entry[id].next /\ entry'[id].dom = entry[id].dom
      BY <1>2, <2>1, StartRetrieveFields, SMTT(60)
    <2>3. ASSUME NEW i \in EntryId, entry'[i].refresh = "spawned"
          PROVE  entry[i].refresh = "spawned" /\ entry[i].next # id
      <3>1. entry[i].refresh = "spawned"
        BY <2>1, <2>2, <2>3
      <3>2. Reachable(id) /\ id # NoEntry
        BY SMTT(60), <1>1 DEF Reachable, EntryId, NoEntry
      <3> QED
        BY <3>1, <3>2 DEF Content, Private
    <2>4. Filled(id)'
      <3>1. Filled(id)
        BY DEF Content
      <3>2. id > used => FALSE
        BY SMTT(60), <1>1, HeldEntryType DEF Content, Wait, TypeInv, TypeOK
      <3>3. entry[id].answer = Nil /\ entry[id].response = Nil
        BY <1>4, <3>1 DEF Filled, isResolved
      <3> QED
        BY <1>2, <2>2, <3>2, <3>3 DEF Filled, isResolved
    <2>5. /\ \A i \in EntryId :
               /\ entry'[i].next = entry[i].next /\ entry'[i].dom = entry[i].dom
               /\ entry[i].refresh = "published" => entry'[i].refresh = "published"
          /\ \A i \in EntryId : i # id =>
               /\ entry'[i].retrieve = entry[i].retrieve /\ entry'[i].answer = entry[i].answer
               /\ entry'[i].response = entry[i].response
      BY <2>1, <2>2
    <2> QED
      BY <1>2, <1>3, <2>2, <2>3, <2>4, <2>5, FillContent
  <1>5. CASE entry[id].retrieve # "no"
    <2>1. entry' = entry
      BY <1>1, <1>2, <1>5 DEF Wait
    <2>2. \A i \in EntryId : Reachable(i)' => Reachable(i)
      BY <1>2, <1>3 DEF Reachable
    <2>3. OwnDomain'
      BY <1>2, <1>3, <2>1 DEF Content, OwnDomain
    <2> QED
      BY <1>2, <2>1, <2>2, <2>3, SameHeapContent
  <1> QED
    BY <1>4, <1>5

\* The retrieving goroutine fills its own entry.
LEMMA AnswerContent ==
  ASSUME Content, TypeInv', NEW id \in EntryId, NEW kind \in {"ok", "gone", "err"},
         Answer(id, kind)
  PROVE  Content'
  <1>1. /\ entry \in [EntryId -> Entry] /\ entry[id] \in Entry /\ Filled(id)
        /\ store' = store /\ used' = used /\ client' = client
        /\ entry[id].retrieve = "running"
    BY DEF Content, TypeInv, TypeOK, Answer
  <1>2. /\ entry'[id].retrieve = "answered" /\ entry'[id].answer = [kind |-> kind, at |-> now]
        /\ entry'[id].response = entry[id].response /\ entry'[id].refresh = entry[id].refresh
        /\ entry'[id].next = entry[id].next /\ entry'[id].dom = entry[id].dom
        /\ \A i \in EntryId : i # id => entry'[i] = entry[i]
    BY <1>1 DEF Answer, Entry
  <1>3. entry'[id].answer # Nil
    <2>1. kind # "nil"
      OBVIOUS
    <2> QED
      BY SMTT(60), <1>2, <2>1 DEF Nil
  <1>4. Filled(id)'
    BY <1>1, <1>2, <1>3 DEF Filled, isResolved
  <1>5. ASSUME NEW i \in EntryId, entry'[i].refresh = "spawned"
        PROVE  entry[i].refresh = "spawned" /\ entry[i].next # id
    <2>1. entry[i].refresh = "spawned" /\ id # NoEntry
      BY SMTT(60), <1>2, <1>5 DEF EntryId, NoEntry
    <2> QED
      BY <1>1, <2>1 DEF Content, Private
  <1>6. entry[id].answer = Nil
    BY <1>1 DEF Filled
  <1>7. /\ \A i \in EntryId :
             /\ entry'[i].next = entry[i].next /\ entry'[i].dom = entry[i].dom
             /\ entry[i].refresh = "published" => entry'[i].refresh = "published"
        /\ \A i \in EntryId : i # id =>
             /\ entry'[i].retrieve = entry[i].retrieve /\ entry'[i].answer = entry[i].answer
             /\ entry'[i].response = entry[i].response
    BY <1>2
  <1> QED
    BY <1>1, <1>2, <1>4, <1>5, <1>6, <1>7, FillContent

\* The response of an entry is an answer for its domain.
LEMMA setResponseContent ==
  ASSUME Content, TypeInv', NEW id \in EntryId, setResponse(id)
  PROVE  Content'
  <1>1. /\ entry \in [EntryId -> Entry] /\ entry[id] \in Entry /\ Filled(id)
        /\ store' = store /\ used' = used /\ client' = client
        /\ entry[id].retrieve = "answered"
    BY DEF Content, TypeInv, TypeOK, setResponse
  <1>2. /\ entry'[id].retrieve = "done" /\ entry'[id].answer = entry[id].answer
        /\ entry'[id].response = entry[id].answer /\ entry'[id].refresh = entry[id].refresh
        /\ entry'[id].next = entry[id].next /\ entry'[id].dom = entry[id].dom
        /\ \A i \in EntryId : i # id => entry'[i] = entry[i]
    BY <1>1 DEF setResponse, Entry
  <1>3. entry[id].answer # Nil /\ entry[id].response = Nil /\ ~(id > used)
    BY <1>1 DEF Filled, isResolved
  <1>4. Filled(id)'
    <2>1. id \in 1..used'
      BY SMTT(60), <1>1, <1>3, ConstantsAssumption DEF Content, TypeInv, TypeOK, EntryId
    <2>2. entry'[id].response \in Answered(entry[id].dom)'
      BY <1>2, <1>3, <2>1 DEF Answered
    <2> QED
      BY <1>1, <1>2, <1>3, <2>2 DEF Filled, isResolved
  <1>5. ASSUME NEW i \in EntryId, entry'[i].refresh = "spawned"
        PROVE  entry[i].refresh = "spawned" /\ entry[i].next # id
    <2>1. entry[i].refresh = "spawned" /\ id # NoEntry
      BY SMTT(60), <1>2, <1>5 DEF EntryId, NoEntry
    <2> QED
      BY <1>1, <2>1 DEF Content, Private
  <1>7. /\ \A i \in EntryId :
             /\ entry'[i].next = entry[i].next /\ entry'[i].dom = entry[i].dom
             /\ entry[i].refresh = "published" => entry'[i].refresh = "published"
        /\ \A i \in EntryId : i # id =>
             /\ entry'[i].retrieve = entry[i].retrieve /\ entry'[i].answer = entry[i].answer
             /\ entry'[i].response = entry[i].response
    BY <1>2
  <1> QED
    BY <1>1, <1>2, <1>3, <1>4, <1>5, <1>7, FillContent

\* The entry that a refresh fills, and what it says of the refreshed one.
LEMMA NextEntry ==
  ASSUME Content, NEW id \in EntryId, entry[id].refresh # "no"
  PROVE  /\ entry[id].next \in EntryId /\ entry[id].next # NoEntry /\ entry[id].next # id
         /\ entry[id].next \in 1..used
         /\ Private(id, entry[id].next)
  <1>1. entry[id].next # NoEntry /\ entry[id].next # id /\ entry[id].next \in 0..used
    BY DEF Content, TypeInv, Allocated
  <1>2. entry[id].next \in 1..used
    BY SMTT(60), <1>1 DEF NoEntry, Content, TypeInv, TypeOK
  <1> QED
    BY <1>1, <1>2 DEF Content, TypeInv, TypeOK, Entry

\* refreshFunc fires the Once of an entry that only it can reach.
LEMMA RefreshStartContent ==
  ASSUME Content, TypeInv', NEW id \in EntryId, RefreshStart(id)
  PROVE  Content'
  <1>a. entry[id].refresh = "spawned"
    BY DEF RefreshStart
  <1>1. PICK n \in EntryId : n = entry[id].next /\ n # NoEntry /\ n # id /\ n \in 1..used
                             /\ Private(id, n)
    BY <1>a, NextEntry
  <1>2. /\ entry \in [EntryId -> Entry] /\ entry[id] \in Entry /\ entry[n] \in Entry
        /\ now \in Time /\ Filled(n)
        /\ store' = store /\ used' = used /\ client' = client
    BY DEF Content, TypeInv, TypeOK, RefreshStart
  <1>3. PICK e \in Entry : e = [entry[n] EXCEPT !.created = now]
    BY <1>2 DEF Entry
  <1>4. /\ e.retrieve = entry[n].retrieve /\ e.answer = entry[n].answer
        /\ e.response = entry[n].response /\ e.refresh = entry[n].refresh
        /\ e.next = entry[n].next /\ e.dom = entry[n].dom
    BY <1>2, <1>3 DEF Entry
  <1>5. entry' = [entry EXCEPT ![id].refresh = "retrieving", ![n] = StartRetrieve(e)]
    BY <1>1, <1>3 DEF RefreshStart
  <1>6. /\ entry'[n] = StartRetrieve(e)
        /\ entry'[id] = [entry[id] EXCEPT !.refresh = "retrieving"]
        /\ \A i \in EntryId : i # n /\ i # id => entry'[i] = entry[i]
    BY <1>1, <1>2, <1>5
  <1>7. /\ entry'[n].retrieve = "running" /\ entry'[n].answer = entry[n].answer
        /\ entry'[n].response = entry[n].response /\ entry'[n].refresh = entry[n].refresh
        /\ entry'[n].next = entry[n].next /\ entry'[n].dom = entry[n].dom
    BY <1>4, <1>6, StartRetrieveFields
  <1>8. /\ entry'[id].retrieve = entry[id].retrieve /\ entry'[id].answer = entry[id].answer
        /\ entry'[id].response = entry[id].response /\ entry'[id].refresh = "retrieving"
        /\ entry'[id].next = entry[id].next /\ entry'[id].dom = entry[id].dom
    BY <1>2, <1>6 DEF Entry
  <1>9. entry[n].retrieve = "no"
    BY <1>1, <1>a DEF Private
  <1>10. Filled(n)'
    <2>1. ~ (n > used)
      BY SMTT(60), <1>1 DEF Content, TypeInv, TypeOK
    <2>2. entry[n].answer = Nil /\ entry[n].response = Nil
      BY <1>2, <1>9 DEF Filled, isResolved
    <2> QED
      BY <1>2, <1>7, <2>1, <2>2 DEF Filled, isResolved
  <1>11. ASSUME NEW i \in EntryId, entry'[i].refresh = "spawned"
         PROVE  entry[i].refresh = "spawned" /\ entry[i].next # n
    <2>1. i # id
      BY <1>8, <1>11
    <2>2. entry[i].refresh = "spawned"
      BY <1>6, <1>7, <1>11, <2>1
    <2> QED
      BY <1>1, <2>1, <2>2 DEF Private
  <1>12. /\ \A i \in EntryId :
              /\ entry'[i].next = entry[i].next /\ entry'[i].dom = entry[i].dom
              /\ entry[i].refresh = "published" => entry'[i].refresh = "published"
         /\ \A i \in EntryId : i # n =>
              /\ entry'[i].retrieve = entry[i].retrieve /\ entry'[i].answer = entry[i].answer
              /\ entry'[i].response = entry[i].response
    BY <1>a, <1>6, <1>7, <1>8
  <1> QED
    BY <1>2, <1>7, <1>10, <1>11, <1>12, FillContent

\* A kept response is one of the same domain.
LEMMA RefreshDecideContent ==
  ASSUME Content, TypeInv', NEW id \in EntryId, RefreshDecide(id)
  PROVE  Content'
  <1>a. entry[id].refresh = "retrieving"
    BY DEF RefreshDecide
  <1>1. PICK n \in EntryId : n = entry[id].next /\ n # NoEntry /\ n # id /\ n \in 1..used
                             /\ Private(id, n)
    BY <1>a, NextEntry
  <1>2. /\ entry \in [EntryId -> Entry] /\ entry[id] \in Entry /\ entry[n] \in Entry
        /\ Filled(n) /\ Filled(id) /\ entry[n].retrieve = "done"
        /\ store' = store /\ used' = used /\ client' = client
    BY <1>1 DEF Content, TypeInv, TypeOK, RefreshDecide
  <1>3. PICK e : e = KeepOrReplace(entry[id], entry[n])
    OBVIOUS
  <1>4. entry' = [entry EXCEPT ![id].refresh = "decided", ![n] = e]
    BY <1>1, <1>3 DEF RefreshDecide
  <1>5. /\ entry'[n] = e
        /\ entry'[id] = [entry[id] EXCEPT !.refresh = "decided"]
        /\ \A i \in EntryId : i # n /\ i # id => entry'[i] = entry[i]
    BY <1>1, <1>2, <1>4
  <1>6. /\ entry'[n].retrieve = entry[n].retrieve /\ entry'[n].answer = entry[n].answer
        /\ entry'[n].response \in {entry[id].response, entry[n].response}
        /\ entry'[n].refresh = entry[n].refresh
        /\ entry'[n].next = entry[n].next /\ entry'[n].dom = entry[n].dom
    <2>1. /\ e.retrieve = entry[n].retrieve /\ e.answer = entry[n].answer
          /\ e.response \in {entry[id].response, entry[n].response}
          /\ e.refresh = entry[n].refresh
          /\ e.next = entry[n].next /\ e.dom = entry[n].dom
      BY <1>2, <1>3, KeepOrReplaceFields
    <2> QED
      BY <1>5, <2>1
  <1>7. /\ entry'[id].retrieve = entry[id].retrieve /\ entry'[id].answer = entry[id].answer
        /\ entry'[id].response = entry[id].response /\ entry'[id].refresh = "decided"
        /\ entry'[id].next = entry[id].next /\ entry'[id].dom = entry[id].dom
    BY <1>2, <1>5 DEF Entry
  <1>8. PICK d : d = entry[n].dom /\ d = entry[id].dom
    BY <1>1 DEF Private
  <1>9. /\ entry[id].response # Nil /\ entry[id].response \in Answered(d)
        /\ entry[n].response # Nil /\ entry[n].response \in Answered(d)
    BY <1>1, <1>2, <1>8 DEF Filled, Private, isResolved
  <1>10. \A i \in EntryId : entry'[i].dom = entry[i].dom /\ entry'[i].answer = entry[i].answer
    BY <1>5, <1>6, <1>7
  <1>11. Filled(n)'
    <2>1. 1..used \subseteq EntryId
      BY SMTT(60), ConstantsAssumption DEF Content, TypeInv, TypeOK, EntryId
    <2>2. Answered(d) \subseteq Answered(d)'
      BY <1>2, <1>10, <2>1, AnsweredGrows
    <2>3. entry'[n].response # Nil /\ entry'[n].response \in Answered(d)'
      BY <1>6, <1>9, <2>2
    <2> QED
      BY <1>2, <1>6, <1>8, <2>3 DEF Filled, isResolved
  <1>12. ASSUME NEW i \in EntryId, entry'[i].refresh = "spawned"
         PROVE  entry[i].refresh = "spawned" /\ entry[i].next # n
    <2>1. i # id
      BY <1>7, <1>12
    <2>2. entry[i].refresh = "spawned"
      BY <1>5, <1>6, <1>12, <2>1
    <2> QED
      BY <1>1, <2>1, <2>2 DEF Private
  <1>13. /\ \A i \in EntryId :
              /\ entry'[i].next = entry[i].next /\ entry'[i].dom = entry[i].dom
              /\ entry[i].refresh = "published" => entry'[i].refresh = "published"
         /\ \A i \in EntryId : i # n =>
              /\ entry'[i].retrieve = entry[i].retrieve /\ entry'[i].answer = entry[i].answer
              /\ entry'[i].response = entry[i].response
    BY <1>a, <1>5, <1>6, <1>7
  <1>14. entry'[n].response # Nil
    BY <1>6, <1>9
  <1> QED
    BY <1>2, <1>6, <1>11, <1>12, <1>13, <1>14, FillContent

\* Publishing makes the new entry reachable, through the item of its domain.
LEMMA RefreshPublishContent ==
  ASSUME Content, TypeInv', NEW id \in EntryId, RefreshPublish(id)
  PROVE  Content'
  <1>a. entry[id].refresh = "decided"
    BY DEF RefreshPublish
  <1>1. PICK n \in EntryId : n = entry[id].next /\ n # NoEntry /\ n # id /\ n \in 1..used
                             /\ Private(id, n)
    BY <1>a, NextEntry
  <1>2. /\ entry \in [EntryId -> Entry] /\ entry[id] \in Entry
        /\ store \in [Domain -> Item]
        /\ used' = used /\ client' = client
    BY DEF Content, TypeInv, TypeOK, RefreshPublish
  <1>3. PICK d \in Domain : d = entry[id].dom
    BY <1>2 DEF Entry
  <1>4. /\ entry'[id].retrieve = entry[id].retrieve /\ entry'[id].answer = entry[id].answer
        /\ entry'[id].response = entry[id].response /\ entry'[id].refresh = "published"
        /\ entry'[id].next = entry[id].next /\ entry'[id].dom = entry[id].dom
        /\ \A i \in EntryId : i # id => entry'[i] = entry[i]
    BY <1>2 DEF RefreshPublish, Entry
  <1>5. /\ store'[d].entry = n
        /\ \A b \in Domain : b # d => store'[b] = store[b]
    BY <1>1, <1>2, <1>3 DEF RefreshPublish, SetDefault
  <1>6. \A i \in EntryId :
          /\ entry'[i].retrieve = entry[i].retrieve /\ entry'[i].answer = entry[i].answer
          /\ entry'[i].response = entry[i].response
          /\ entry'[i].next = entry[i].next /\ entry'[i].dom = entry[i].dom
    BY <1>4
  <1>7. 1..used \subseteq EntryId
    BY SMTT(60), ConstantsAssumption DEF Content, TypeInv, TypeOK, EntryId
  <1>8. ASSUME NEW i \in EntryId PROVE Filled(i)'
    <2>1. PICK b : b = entry[i].dom
      OBVIOUS
    <2>2. Answered(b) \subseteq Answered(b)'
      BY <1>2, <1>6, <1>7, AnsweredGrows
    <2>3. Filled(i)
      BY DEF Content
    <2> QED
      BY <1>2, <1>6, <2>1, <2>2, <2>3, FilledKept
  <1>9. ASSUME NEW i \in EntryId, entry'[i].next # NoEntry
        PROVE  Private(i, entry[i].next)'
    <2>1. PICK m \in EntryId : m = entry[i].next /\ m = entry'[i].next /\ Private(i, m)
      <3>1. entry[i].next # NoEntry /\ entry'[i].next = entry[i].next
        BY <1>6, <1>9
      <3> QED
        BY <3>1 DEF Content, TypeInv, TypeOK, Entry
    <2>2. /\ isResolved(entry[i])' /\ entry'[m].dom = entry'[i].dom
          /\ \A j \in EntryId : entry'[j].next = m => j = i
      BY <1>6, <2>1 DEF Private, isResolved
    <2>3. entry'[i].refresh = "spawned" => entry'[m].retrieve = "no"
      BY <1>4, <1>6, <2>1 DEF Private
    <2>4. ASSUME entry'[i].refresh # "published" PROVE ~ Reachable(m)'
      <3>1. i # id /\ entry[i].refresh # "published"
        BY <1>4, <2>4
      <3>2. m # n /\ ~ Reachable(m)
        BY <1>1, <2>1, <3>1 DEF Private
      <3> QED
        BY <1>2, <1>5, <3>2 DEF Reachable
    <2> QED
      BY <2>1, <2>2, <2>3, <2>4 DEF Private
  <1>10. OwnDomain'
    <2>1. ASSUME NEW b \in Domain, store'[b].entry # NoEntry
          PROVE  entry'[store'[b].entry].dom = b
      <3>1. CASE b = d
        BY <1>1, <1>3, <1>5, <1>6, <3>1 DEF Private
      <3>2. CASE b # d
        <4>1. store'[b] = store[b] /\ store[b].entry # NoEntry
          BY <1>5, <2>1, <3>2
        <4>2. store[b].entry \in EntryId /\ entry[store[b].entry].dom = b
          BY <1>2, <4>1 DEF Content, OwnDomain, Item
        <4> QED
          BY <1>6, <4>1, <4>2
      <3> QED
        BY <3>1, <3>2
    <2>2. ASSUME NEW c \in Client, client'[c].ent # NoEntry
          PROVE  entry'[client'[c].ent].dom = client'[c].dom
      <3>1. client[c].ent \in EntryId /\ entry[client[c].ent].dom = client[c].dom
        BY <1>2, <2>2 DEF Content, OwnDomain, TypeInv, TypeOK, Call
      <3> QED
        BY <1>2, <1>6, <3>1
    <2> QED
      BY <2>1, <2>2 DEF OwnDomain
  <1> QED
    BY <1>8, <1>9, <1>10 DEF Content

\* A new entry holds nothing, and changes nothing of what the others hold.
LEMMA AllocFilled ==
  ASSUME Content, NEW n \in EntryId, n = used + 1, used' = n,
         \A i \in EntryId : i # n =>
           /\ entry'[i].retrieve = entry[i].retrieve /\ entry'[i].answer = entry[i].answer
           /\ entry'[i].response = entry[i].response /\ entry'[i].dom = entry[i].dom,
         entry'[n].retrieve = "no", entry'[n].answer = Nil, entry'[n].response = Nil
  PROVE  \A i \in EntryId : Filled(i)'
  <1>1. /\ 1..used \subseteq 1..used' /\ 1..used \subseteq EntryId /\ n \notin 1..used
        /\ \A i \in EntryId : i > used' => i > used
    BY SMTT(60), ConstantsAssumption DEF Content, TypeInv, TypeOK, EntryId
  <1>2. \A i \in 1..used : entry'[i].dom = entry[i].dom /\ entry'[i].answer = entry[i].answer
    BY <1>1
  <1>3. ASSUME NEW i \in EntryId PROVE Filled(i)'
    <2>1. CASE i = n
      BY <2>1 DEF Filled, isResolved
    <2>2. CASE i # n
      <3>1. PICK d : d = entry[i].dom
        OBVIOUS
      <3>2. Answered(d) \subseteq Answered(d)'
        BY <1>1, <1>2, AnsweredGrows
      <3>3. Filled(i) /\ (i > used' => i > used)
        BY <1>1 DEF Content
      <3> QED
        BY <2>2, <3>1, <3>2, <3>3, FilledKept
    <2> QED
      BY <2>1, <2>2
  <1> QED
    BY <1>3

\* The next free entry: nothing refers to it.
LEMMA FreeEntry ==
  ASSUME Content, used < MaxEntries
  PROVE  /\ used + 1 \in EntryId /\ used + 1 # NoEntry
         /\ ~ Reachable(used + 1)
         /\ \A i \in EntryId : entry[i].next # used + 1
         /\ entry[used + 1].next = NoEntry
  <1>1. used \in Nat /\ used + 1 \in EntryId /\ used + 1 # NoEntry /\ used + 1 \notin 0..used
        /\ used + 1 > used
    BY SMTT(60), ConstantsAssumption DEF Content, TypeInv, TypeOK, EntryId, NoEntry
  <1>2. PICK n \in EntryId : n = used + 1
    BY <1>1
  <1>3. /\ ~ Reachable(n)
        /\ \A i \in EntryId : entry[i].next # n
        /\ entry[n].next = NoEntry
    BY <1>1, <1>2 DEF Content, TypeInv, Allocated, Reachable
  <1> QED
    BY <1>1, <1>2, <1>3

\* A miss stores a new entry for its own domain.
LEMMA CreateContent ==
  ASSUME Content, TypeInv', NEW c \in Client, Create(c)
  PROVE  Content'
  <1>a. used < MaxEntries
    BY DEF Create
  <1>1. PICK n \in EntryId : /\ n = used + 1 /\ n # NoEntry /\ ~ Reachable(n)
                             /\ \A i \in EntryId : entry[i].next # n
                             /\ entry[n].next = NoEntry
    BY <1>a, FreeEntry
  <1>2. /\ entry \in [EntryId -> Entry] /\ store \in [Domain -> Item]
        /\ client \in [Client -> Call] /\ client[c] \in Call /\ used' = n
    BY <1>1 DEF Content, TypeInv, TypeOK, Create
  <1>3. PICK d \in Domain : d = client[c].dom
    BY <1>2 DEF Call
  <1>4. /\ entry'[n].retrieve = "no" /\ entry'[n].answer = Nil /\ entry'[n].response = Nil
        /\ entry'[n].next = NoEntry /\ entry'[n].dom = d
        /\ \A i \in EntryId : i # n => entry'[i] = entry[i]
    BY <1>1, <1>2, <1>3 DEF Create, newCacheEntry
  <1>5. /\ store'[d].entry = n
        /\ \A b \in Domain : b # d => store'[b] = store[b]
    BY <1>1, <1>2, <1>3 DEF Create, SetDefault
  <1>6. /\ client'[c].ent = n /\ client'[c].dom = d
        /\ \A b \in Client : b # c => client'[b] = client[b]
    BY <1>1, <1>2, <1>3 DEF Create, Call
  <1>7. \A i \in EntryId : Filled(i)'
    BY <1>1, <1>2, <1>4, AllocFilled
  <1>8. ASSUME NEW i \in EntryId, entry'[i].next # NoEntry
        PROVE  Private(i, entry[i].next)'
    <2>1. i # n /\ entry'[i] = entry[i]
      BY <1>4, <1>8
    <2>2. PICK m \in EntryId : m = entry[i].next /\ m = entry'[i].next /\ Private(i, m)
      BY <1>8, <2>1 DEF Content, TypeInv, TypeOK, Entry
    <2>3. m # n /\ entry'[m] = entry[m]
      BY <1>1, <1>4, <2>2
    <2>4. ASSUME entry'[i].refresh # "published" PROVE ~ Reachable(m)'
      <3>1. ~ Reachable(m)
        BY <2>1, <2>2, <2>4 DEF Private
      <3> QED
        BY <1>5, <1>6, <2>3, <3>1 DEF Reachable
    <2>5. \A j \in EntryId : entry'[j].next = m => j = i
      <3>1. m # NoEntry
        BY <1>8, <2>2
      <3> QED
        BY <1>4, <2>2, <3>1 DEF Private
    <2> QED
      BY <2>1, <2>2, <2>3, <2>4, <2>5 DEF Private, isResolved
  <1>9. OwnDomain'
    <2>1. ASSUME NEW b \in Domain, store'[b].entry # NoEntry
          PROVE  entry'[store'[b].entry].dom = b
      <3>1. CASE b = d
        BY <1>4, <1>5, <3>1
      <3>2. CASE b # d
        <4>1. store'[b] = store[b] /\ store[b].entry # NoEntry
          BY <1>5, <2>1, <3>2
        <4>2. /\ store[b].entry \in EntryId /\ entry[store[b].entry].dom = b
              /\ store[b].entry # n
          BY <1>1, <1>2, <4>1 DEF Content, OwnDomain, Item, Reachable
        <4> QED
          BY <1>4, <4>1, <4>2
      <3> QED
        BY <3>1, <3>2
    <2>2. ASSUME NEW b \in Client, client'[b].ent # NoEntry
          PROVE  entry'[client'[b].ent].dom = client'[b].dom
      <3>1. CASE b = c
        BY <1>4, <1>6, <3>1
      <3>2. CASE b # c
        <4>1. client'[b] = client[b] /\ client[b].ent # NoEntry
          BY <1>6, <2>2, <3>2
        <4>2. /\ client[b].ent \in EntryId /\ entry[client[b].ent].dom = client[b].dom
              /\ client[b].ent # n
          BY <1>1, <1>2, <4>1 DEF Content, OwnDomain, Call, Reachable
        <4> QED
          BY <1>4, <4>1, <4>2
      <3> QED
        BY <3>1, <3>2
    <2> QED
      BY <2>1, <2>2 DEF OwnDomain
  <1> QED
    BY <1>7, <1>8, <1>9 DEF Content

\* The refresh Once gives the refresh an entry of its own.
LEMMA ServeStaleContent ==
  ASSUME Content, TypeInv', NEW c \in Client, ServeStale(c)
  PROVE  Content'
  <1>1. PICK id \in EntryId : id = client[c].ent /\ id \in 1..used
    BY HeldEntryType DEF Content, ServeStale
  <1>2. /\ entry \in [EntryId -> Entry] /\ entry[id] \in Entry /\ entry[id].response # Nil
        /\ client \in [Client -> Call] /\ store' = store
        /\ Return(c, entry[id].response)
    BY <1>1 DEF Content, TypeInv, TypeOK, ServeStale, isResolved
  <1>3. CASE entry[id].refresh # "no"
    <2>1. entry' = entry /\ used' = used
      BY <1>1, <1>3 DEF ServeStale
    <2> QED
      BY <1>2, <2>1, ReturnContent
  <1>4. CASE entry[id].refresh = "no"
    <2>a. used < MaxEntries
      BY <1>1, <1>4 DEF ServeStale
    <2>1. PICK n \in EntryId : /\ n = used + 1 /\ n # NoEntry /\ ~ Reachable(n)
                               /\ \A i \in EntryId : entry[i].next # n
                               /\ entry[n].next = NoEntry
      BY <2>a, FreeEntry
    <2>2. PICK d \in Domain : d = entry[id].dom
      BY <1>2 DEF Entry
    <2>3. n # id /\ used' = n
          /\ entry' = [entry EXCEPT ![id].refresh = "spawned", ![id].next = n,
                                    ![n] = newCacheEntry(d, Never)]
      <3>1. n # id
        BY <1>1, <2>1 DEF Reachable
      <3> QED
        BY <1>1, <1>4, <2>1, <2>2, <3>1 DEF ServeStale
    <2>4. /\ entry'[n] = newCacheEntry(d, Never)
          /\ entry'[id] = [entry[id] EXCEPT !.refresh = "spawned", !.next = n]
          /\ \A i \in EntryId : i # n /\ i # id => entry'[i] = entry[i]
      BY <1>2, <2>3
    <2>5. /\ entry'[n].retrieve = "no" /\ entry'[n].answer = Nil /\ entry'[n].response = Nil
          /\ entry'[n].next = NoEntry /\ entry'[n].dom = d
      BY SMTT(60), <2>4 DEF newCacheEntry
    <2>6. /\ entry'[id].retrieve = entry[id].retrieve /\ entry'[id].answer = entry[id].answer
          /\ entry'[id].response = entry[id].response /\ entry'[id].refresh = "spawned"
          /\ entry'[id].next = n /\ entry'[id].dom = entry[id].dom
      BY <1>2, <2>4 DEF Entry
    <2>7. \A i \in EntryId : i # n =>
            /\ entry'[i].retrieve = entry[i].retrieve /\ entry'[i].answer = entry[i].answer
            /\ entry'[i].response = entry[i].response /\ entry'[i].dom = entry[i].dom
      BY <2>4, <2>6
    <2>8. \A i \in EntryId : Filled(i)'
      BY <2>1, <2>3, <2>5, <2>7, AllocFilled
    <2>9. /\ client'[c].ent = NoEntry
          /\ \A b \in Client : b # c => client'[b] = client[b]
      BY <1>2 DEF Return, Call
    <2>10. ASSUME NEW i \in EntryId, Reachable(i)' PROVE Reachable(i)
      <3>1. i # NoEntry
        BY SMTT(60) DEF EntryId, NoEntry
      <3> QED
        BY <1>2, <2>9, <2>10, <3>1 DEF Reachable
    <2>11. ASSUME NEW i \in EntryId, entry'[i].next # NoEntry
           PROVE  Private(i, entry[i].next)'
      <3>1. i # n
        BY <2>5, <2>11
      <3>2. CASE i = id
        <4>1. \A j \in EntryId : entry'[j].next = n => j = id
          BY <2>1, <2>4, <2>5
        <4>2. ~ Reachable(n)'
          BY <2>1, <2>10
        <4>3. isResolved(entry[id])'
          BY <1>2, <2>6 DEF isResolved
        <4> QED
          BY <2>2, <2>5, <2>6, <3>2, <4>1, <4>2, <4>3 DEF Private
      <3>3. CASE i # id
        <4>1. entry'[i] = entry[i]
          BY <2>4, <3>1, <3>3
        <4>2. PICK m \in EntryId : m = entry[i].next /\ m = entry'[i].next /\ Private(i, m)
          BY <2>11, <4>1 DEF Content, TypeInv, TypeOK, Entry
        <4>3. m # n /\ m # NoEntry
          BY <2>1, <2>11, <4>2
        <4>4. entry'[m].retrieve = entry[m].retrieve /\ entry'[m].dom = entry[m].dom
          BY <2>7, <4>3
        <4>5. \A j \in EntryId : entry'[j].next = m => j = i
          BY <2>4, <2>5, <2>6, <4>2, <4>3 DEF Private
        <4>6. entry'[i].refresh # "published" => ~ Reachable(m)'
          BY <2>10, <4>1, <4>2 DEF Private
        <4> QED
          BY <4>1, <4>2, <4>4, <4>5, <4>6 DEF Private, isResolved
      <3> QED
        BY <3>2, <3>3
    <2>12. OwnDomain'
      <3>1. ASSUME NEW b \in Domain, store'[b].entry # NoEntry
            PROVE  entry'[store'[b].entry].dom = b
        <4>1. store[b].entry \in EntryId /\ entry[store[b].entry].dom = b /\ store[b].entry # n
          BY <1>2, <2>1, <3>1 DEF Content, OwnDomain, TypeInv, TypeOK, Item, Reachable
        <4> QED
          BY <1>2, <2>7, <4>1
      <3>2. ASSUME NEW b \in Client, client'[b].ent # NoEntry
            PROVE  entry'[client'[b].ent].dom = client'[b].dom
        <4>1. client'[b] = client[b] /\ client[b].ent # NoEntry
          BY <2>9, <3>2
        <4>2. /\ client[b].ent \in EntryId /\ entry[client[b].ent].dom = client[b].dom
              /\ client[b].ent # n
          BY <1>2, <2>1, <4>1 DEF Content, OwnDomain, Call, Reachable
        <4> QED
          BY <2>7, <4>1, <4>2
      <3> QED
        BY <3>1, <3>2 DEF OwnDomain
    <2> QED
      BY <2>8, <2>11, <2>12 DEF Content
  <1> QED
    BY <1>3, <1>4

\* The empty cache holds nothing.
LEMMA InitContent == Init => Content
  <1> SUFFICES ASSUME Init PROVE Content
    OBVIOUS
  <1>1. TypeInv
    BY InitType
  <1>2. \A id \in EntryId : /\ entry[id].retrieve = "no" /\ entry[id].answer = Nil
                            /\ entry[id].response = Nil /\ entry[id].next = NoEntry
    BY SMTT(60) DEF Init, newCacheEntry
  <1>3. \A id \in EntryId : Filled(id)
    BY <1>2 DEF Filled, isResolved
  <1>4. OwnDomain
    BY DEF OwnDomain, Init, Absent
  <1> QED
    BY <1>1, <1>2, <1>3, <1>4 DEF Content

\* Every step preserves it.
LEMMA NextContent == Content /\ [Next]_vars => Content'
  <1> SUFFICES ASSUME Content, [Next]_vars PROVE Content'
    OBVIOUS
  <1>1. TypeInv'
    BY NextType DEF Content
  <1>2. ASSUME NEW c \in Client, ClientStep(c) PROVE Content'
    <2>1. CASE Create(c)
      BY <1>1, <2>1, CreateContent
    <2>2. CASE ServeStale(c)
      BY <1>1, <2>2, ServeStaleContent
    <2>3. CASE Wait(c)
      BY <1>1, <2>3, WaitContent
    <2> QED
      BY <1>1, <1>2, <2>1, <2>2, <2>3, ReadContent DEF ClientStep
  <1>3. ASSUME NEW id \in EntryId, RetrieveStep(id) PROVE Content'
    BY <1>1, <1>3, AnswerContent, setResponseContent DEF RetrieveStep
  <1>4. ASSUME NEW id \in EntryId, RefreshStep(id) PROVE Content'
    BY <1>1, <1>4, RefreshStartContent, RefreshDecideContent, RefreshPublishContent
       DEF RefreshStep
  <1>5. ASSUME NEW d \in Domain, DeleteExpired(d) PROVE Content'
    BY <1>1, <1>5, DeleteContent
  <1>6. CASE Tick \/ UNCHANGED vars
    BY <1>1, <1>6, TimeContent
  <1> QED
    BY <1>2, <1>3, <1>4, <1>5, <1>6 DEF Next

\* What the entries hold, in every reachable state.
THEOREM ContentHolds == Spec => []Content
  BY InitContent, NextContent, PTL DEF Spec

-----------------------------------------------------------------------------
(* The unlocked writes of refreshFunc.                                     *)

\* A step rewrites the response or the timestamp of an entry only while it
\* is not resolved, or while nobody but its refresh can reach it.
LEMMA StableStep ==
  ASSUME Content, [Next]_vars, NEW i \in EntryId, Reachable(i), isResolved(entry[i])
  PROVE  /\ entry'[i].response = entry[i].response
         /\ entry'[i].orig = entry[i].orig
  <1> DEFINE Same == /\ entry'[i].response = entry[i].response
                     /\ entry'[i].orig = entry[i].orig
  <1> SUFFICES Same
    OBVIOUS
  <1>1. entry \in [EntryId -> Entry] /\ entry[i] \in Entry /\ entry[i].response # Nil
    BY DEF Content, TypeInv, TypeOK, isResolved
  <1>2. entry[i].retrieve = "done"
    BY DEF Content, Filled
  <1>3. CASE entry' = entry
    BY <1>3
  <1>4. ASSUME NEW c \in Client, Create(c) PROVE Same
    <2>1. i # used + 1
      BY <1>4, FreeEntry DEF Create
    <2> QED
      BY <1>1, <1>4, <2>1 DEF Create
  <1>5. ASSUME NEW c \in Client, ServeStale(c) PROVE Same
    <2>1. CASE used < MaxEntries
      <3>1. i # used + 1
        BY <2>1, FreeEntry
      <3> QED
        <4>1. entry'[i] \in {entry[i],
                             [entry[i] EXCEPT !.refresh = "spawned", !.next = used + 1]}
          BY <1>1, <1>5, <3>1 DEF ServeStale
        <4> QED
          BY <1>1, <4>1 DEF Entry
    <2>2. CASE ~(used < MaxEntries)
      BY <1>5, <2>2 DEF ServeStale
    <2> QED
      BY <2>1, <2>2
  <1>6. ASSUME NEW c \in Client, Wait(c) PROVE Same
    <2>1. CASE i = client[c].ent
      BY <1>1, <1>2, <1>6, <2>1 DEF Wait
    <2>2. CASE i # client[c].ent
      BY <1>1, <1>6, <2>2 DEF Wait
    <2> QED
      BY <2>1, <2>2
  <1>7. ASSUME NEW id \in EntryId, NEW kind \in {"ok", "gone", "err"}, Answer(id, kind)
        PROVE  Same
    <2>1. i # id
      BY <1>2, <1>7 DEF Answer
    <2> QED
      BY <1>1, <1>7, <2>1 DEF Answer
  <1>8. ASSUME NEW id \in EntryId, setResponse(id) PROVE Same
    <2>1. i # id
      BY <1>2, <1>8 DEF setResponse
    <2> QED
      BY <1>1, <1>8, <2>1 DEF setResponse
  <1>9. ASSUME NEW id \in EntryId, RefreshStart(id) \/ RefreshDecide(id) PROVE Same
    <2>1. entry[id].refresh \in {"spawned", "retrieving"}
      BY <1>9 DEF RefreshStart, RefreshDecide
    <2>2. i # entry[id].next
      BY <2>1, NextEntry DEF Private
    <2>3. entry'[i] \in {entry[i], [entry[i] EXCEPT !.refresh = "retrieving"],
                         [entry[i] EXCEPT !.refresh = "decided"]}
      <3>1. CASE RefreshStart(id)
        BY <1>1, <2>2, <3>1 DEF RefreshStart
      <3>2. CASE RefreshDecide(id)
        BY <1>1, <2>2, <3>2 DEF RefreshDecide
      <3> QED
        BY <1>9, <3>1, <3>2
    <2> QED
      BY <1>1, <2>3 DEF Entry
  <1>10. ASSUME NEW id \in EntryId, RefreshPublish(id) PROVE Same
    BY <1>1, <1>10 DEF RefreshPublish, Entry
  <1>11. CASE UNCHANGED vars
    BY <1>3, <1>11 DEF vars
  <1>12. ASSUME NEW c \in Client, ClientStep(c) PROVE Same
    <2>1. CASE \/ \E d \in Domain : LoadHit(c, d) \/ LoadMiss(c, d)
               \/ LoadRecheck(c) \/ ServeFresh(c) \/ Retrieved(c) \/ ContextDone(c)
      BY <1>3, <2>1 DEF LoadHit, LoadMiss, LoadRecheck, ServeFresh, Retrieved, ContextDone
    <2> QED
      BY <1>4, <1>5, <1>6, <1>12, <2>1 DEF ClientStep
  <1>13. CASE Tick \/ \E d \in Domain : DeleteExpired(d)
    BY <1>3, <1>13 DEF Tick, DeleteExpired
  <1> HIDE DEF Same
  <1> QED
    BY <1>7, <1>8, <1>9, <1>10, <1>11, <1>12, <1>13 DEF Next, RetrieveStep, RefreshStep

(***************************************************************************)
(* refreshFunc writes response and refreshedOriginalTimestamp of the new   *)
(* entry without its lock (cache.go, refreshFunc).  No request reads what  *)
(* it writes: an entry that is resolved and reachable never changes, for   *)
(* any number of requests, refreshes and domains.                          *)
(***************************************************************************)
THEOREM ReachableIsStable == Spec => ReachableResponseStable
  <1>1. Content /\ [Next]_vars =>
          [\A id \in EntryId : Reachable(id) /\ isResolved(entry[id]) =>
             /\ entry'[id].response = entry[id].response
             /\ entry'[id].orig = entry[id].orig]_vars
    BY StableStep
  <1> QED
    BY <1>1, ContentHolds, PTL DEF Spec, ReachableResponseStable

-----------------------------------------------------------------------------
(* The cache implements LookupSource.                                      *)

\* The variables of LookupSource, in terms of the cache.
AnsweredMap == [d \in Domain |-> Answered(d)]
CallMap ==
  [c \in Client |->
    [busy |-> client[c].pc # "idle", dom |-> client[c].dom, got |-> client[c].got]]

\* A step that answers nothing and lets the calls be is a stutter.
LEMMA SourceStutter ==
  ASSUME \A d \in Domain : Answered(d)' = Answered(d),
         \A c \in Client :
           /\ client'[c].pc = "idle" <=> client[c].pc = "idle"
           /\ client'[c].dom = client[c].dom /\ client'[c].got = client[c].got
  PROVE  AnsweredMap' = AnsweredMap /\ CallMap' = CallMap
  <1>1. AnsweredMap' = AnsweredMap
    BY DEF AnsweredMap
  <1>2. \A c \in Client : (client'[c].pc # "idle") = (client[c].pc # "idle")
    OBVIOUS
  <1>3. CallMap' = CallMap
    BY <1>2 DEF CallMap
  <1> QED
    BY <1>1, <1>3

\* A call that loads or misses an entry has begun,
LEMMA SourceBegin ==
  ASSUME Content, NEW c \in Client, NEW d \in Domain, LoadHit(c, d) \/ LoadMiss(c, d)
  PROVE  Source!Begin(c, d)
  <1>1. /\ client[c].pc = "idle" /\ entry' = entry /\ used' = used
        /\ client \in [Client -> Call]
    BY DEF LoadHit, LoadMiss, Content, TypeInv, TypeOK
  <1>2. /\ client'[c].pc # "idle" /\ client'[c].dom = d /\ client'[c].got = Nil
        /\ \A b \in Client : b # c => client'[b] = client[b]
    <2>1. CASE LoadHit(c, d)
      BY <1>1, <2>1 DEF LoadHit
    <2>2. CASE LoadMiss(c, d)
      BY <1>1, <2>2 DEF LoadMiss
    <2> QED
      BY <2>1, <2>2
  <1>3. AnsweredMap' = AnsweredMap
    BY <1>1 DEF AnsweredMap, Answered
  <1>4. CallMap' = [CallMap EXCEPT ![c] = [busy |-> TRUE, dom |-> d, got |-> Nil]]
    <2>1. (client'[c].pc # "idle") = TRUE
      BY <1>2
    <2> QED
      BY <1>2, <2>1 DEF CallMap
  <1>5. ~ CallMap[c].busy
    BY <1>1 DEF CallMap
  <1> QED
    BY <1>3, <1>4, <1>5 DEF Source!Begin, AnsweredMap, CallMap

\* and one that returns has finished, with an answer for its domain or an error.
LEMMA SourceFinish ==
  ASSUME Content, NEW c \in Client, client[c].pc # "idle",
         NEW l, Return(c, l), l \in Answered(client[c].dom) \/ l.kind = "err",
         \A d \in Domain : Answered(d)' = Answered(d)
  PROVE  Source!Finish(c, l)
  <1>1. client \in [Client -> Call] /\ client[c] \in Call /\ client[c].dom \in Domain
    BY DEF Content, TypeInv, TypeOK, Call
  <1>2. /\ client'[c].pc = "idle" /\ client'[c].dom = client[c].dom /\ client'[c].got = l
        /\ \A b \in Client : b # c => client'[b] = client[b]
    BY <1>1 DEF Return, Call
  <1>3. AnsweredMap' = AnsweredMap
    BY DEF AnsweredMap
  <1>4. CallMap[c].busy /\ CallMap[c].dom = client[c].dom
    BY DEF CallMap
  <1>5. CallMap' = [CallMap EXCEPT ![c] = [busy |-> FALSE, dom |-> CallMap[c].dom, got |-> l]]
    <2>1. (client'[c].pc # "idle") = FALSE
      BY <1>2
    <2> QED
      BY <1>2, <1>4, <2>1 DEF CallMap
  <1>6. l \in AnsweredMap[CallMap[c].dom] \/ l.kind = "err"
    BY <1>1, <1>4 DEF AnsweredMap
  <1> QED
    BY <1>3, <1>4, <1>5, <1>6 DEF Source!Finish, AnsweredMap, CallMap

\* What a resolved entry gives a call is a lookup of the call's domain.
LEMMA ServedLookup ==
  ASSUME Content, NEW c \in Client, client[c].pc \in {"loaded", "wait"},
         isResolved(entry[client[c].ent])
  PROVE  /\ entry[client[c].ent].response \in Lookup
         /\ entry[client[c].ent].response \in Answered(client[c].dom)
  <1>1. PICK id \in EntryId : id = client[c].ent /\ entry[id].response \in Lookup \cup {Nil}
    BY HeldEntryType DEF Content
  <1>2. id # NoEntry
    BY SMTT(60) DEF EntryId, NoEntry
  <1>3. Filled(id) /\ entry[id].dom = client[c].dom
    BY <1>1, <1>2 DEF Content, OwnDomain
  <1> QED
    BY <1>1, <1>3 DEF Filled, isResolved

\* Steps that fill or refresh entries, other than Answer, answer nothing.
LEMMA SameAnswers ==
  ASSUME Content,
         \/ \E c \in Client : Wait(c)
         \/ \E id \in EntryId : setResponse(id) \/ RefreshStep(id)
  PROVE  \A i \in EntryId : entry'[i].dom = entry[i].dom /\ entry'[i].answer = entry[i].answer
  <1> DEFINE Same(i) == entry'[i].dom = entry[i].dom /\ entry'[i].answer = entry[i].answer
  <1>1. entry \in [EntryId -> Entry] /\ now \in Time
    BY DEF Content, TypeInv, TypeOK
  <1>2. ASSUME NEW c \in Client, Wait(c), NEW i \in EntryId PROVE Same(i)
    <2>1. entry'[i] \in {entry[i], StartRetrieve(entry[i])}
      BY <1>1, <1>2 DEF Wait
    <2> QED
      BY <1>1, <2>1, StartRetrieveFields
  <1>3. ASSUME NEW id \in EntryId, setResponse(id), NEW i \in EntryId PROVE Same(i)
    BY <1>1, <1>3 DEF setResponse, Entry
  <1>4. ASSUME NEW id \in EntryId, RefreshStart(id), NEW i \in EntryId PROVE Same(i)
    <2>1. entry[id].refresh = "spawned"
      BY <1>4 DEF RefreshStart
    <2>2. PICK n \in EntryId : n = entry[id].next /\ n # id
      BY <2>1, NextEntry
    <2>3. PICK e \in Entry : e = [entry[n] EXCEPT !.created = now]
      BY <1>1 DEF Entry
    <2>4. e.dom = entry[n].dom /\ e.answer = entry[n].answer
      BY <1>1, <2>3 DEF Entry
    <2>5. entry' = [entry EXCEPT ![id].refresh = "retrieving", ![n] = StartRetrieve(e)]
      BY <1>4, <2>2, <2>3 DEF RefreshStart
    <2>6. CASE i = n
      BY <1>1, <2>2, <2>4, <2>5, <2>6, StartRetrieveFields
    <2>7. CASE i # n
      BY <1>1, <2>5, <2>7 DEF Entry
    <2> QED
      BY <2>6, <2>7
  <1>5. ASSUME NEW id \in EntryId, RefreshDecide(id), NEW i \in EntryId PROVE Same(i)
    <2>1. entry[id].refresh = "retrieving"
      BY <1>5 DEF RefreshDecide
    <2>2. PICK n \in EntryId : n = entry[id].next /\ n # id
      BY <2>1, NextEntry
    <2>3. PICK e : e = KeepOrReplace(entry[id], entry[n])
      OBVIOUS
    <2>4. e.dom = entry[n].dom /\ e.answer = entry[n].answer
      <3>1. entry[id] \in Entry /\ entry[n] \in Entry
        BY <1>1
      <3> QED
        BY <2>3, <3>1, KeepOrReplaceFields
    <2>5. entry' = [entry EXCEPT ![id].refresh = "decided", ![n] = e]
      BY <1>5, <2>2, <2>3 DEF RefreshDecide
    <2>6. CASE i = n
      BY <1>1, <2>2, <2>4, <2>5, <2>6
    <2>7. CASE i # n
      BY <1>1, <2>5, <2>7 DEF Entry
    <2> QED
      BY <2>6, <2>7
  <1>6. ASSUME NEW id \in EntryId, RefreshPublish(id), NEW i \in EntryId PROVE Same(i)
    BY <1>1, <1>6 DEF RefreshPublish, Entry
  <1> HIDE DEF Same
  <1>7. \A i \in EntryId : Same(i)
    BY <1>2, <1>3, <1>4, <1>5, <1>6 DEF RefreshStep
  <1> QED
    BY <1>7 DEF Same

\* Allocating an entry answers nothing either.
LEMMA AllocAnswers ==
  ASSUME Content, NEW c \in Client, Create(c) \/ ServeStale(c), NEW d
  PROVE  Answered(d)' = Answered(d)
  <1>1. /\ entry \in [EntryId -> Entry] /\ 1..used \subseteq EntryId
        /\ 1..used \subseteq 1..(used + 1) /\ used + 1 \notin 1..used
        /\ \A i \in 1..(used + 1) : i \in 1..used \/ i = used + 1
    BY SMTT(60), ConstantsAssumption DEF Content, TypeInv, TypeOK, EntryId
  <1>2. CASE used' = used /\ entry' = entry
    BY <1>2 DEF Answered
  <1>3. CASE ~(used' = used /\ entry' = entry)
    <2>1. used < MaxEntries /\ used' = used + 1
      BY <1>3 DEF Create, ServeStale
    <2>2. PICK n \in EntryId : n = used + 1
      BY <2>1, FreeEntry
    <2>3. /\ \E b \in Domain, t \in {now, Never} : entry'[n] = newCacheEntry(b, t)
          /\ \A i \in EntryId : i # n =>
               entry'[i] \in {entry[i], [entry[i] EXCEPT !.refresh = "spawned", !.next = n]}
      <3>1. CASE Create(c)
        <4>1. client[c].dom \in Domain
          BY DEF Content, TypeInv, TypeOK, Call
        <4> QED
          BY <1>1, <2>2, <3>1, <4>1 DEF Create
      <3>2. CASE ServeStale(c)
        <4>1. PICK id \in EntryId : id = client[c].ent /\ id \in 1..used
          BY <3>2, HeldEntryType DEF Content, ServeStale
        <4>2. entry[id].dom \in Domain /\ id # n
          BY <1>1, <2>2, <4>1 DEF Entry
        <4>3. entry' = [entry EXCEPT ![id].refresh = "spawned", ![id].next = n,
                                     ![n] = newCacheEntry(entry[id].dom, Never)]
          BY <1>3, <2>2, <3>2, <4>1 DEF ServeStale
        <4> QED
          BY <1>1, <4>2, <4>3
      <3> QED
        BY <3>1, <3>2
    <2>4. entry'[n].answer = Nil
      <3>1. PICK b \in Domain, t \in {now, Never} : entry'[n] = newCacheEntry(b, t)
        BY <2>3
      <3> QED
        BY SMTT(60), <3>1 DEF newCacheEntry
    <2>5. ASSUME NEW i \in EntryId, i # n
          PROVE  entry'[i].dom = entry[i].dom /\ entry'[i].answer = entry[i].answer
      <3>1. entry[i] \in Entry
        BY <1>1
      <3>2. entry'[i] \in {entry[i], [entry[i] EXCEPT !.refresh = "spawned", !.next = n]}
        BY <2>3, <2>5
      <3> QED
        BY <3>1, <3>2 DEF Entry
    <2>6. /\ 1..used \subseteq 1..used'
          /\ \A i \in 1..used : entry'[i].dom = entry[i].dom /\ entry'[i].answer = entry[i].answer
          /\ \A i \in 1..used' : i \in 1..used \/ entry'[i].answer = Nil
      BY <1>1, <2>1, <2>2, <2>4, <2>5
    <2> QED
      BY <2>6, AnsweredSame
  <1> QED
    BY <1>2, <1>3

\* An answer of the API, for the domain of the entry that asked.
LEMMA SourceAnswers ==
  ASSUME Content, NEW id \in EntryId, NEW kind \in {"ok", "gone", "err"}, Answer(id, kind)
  PROVE  \E d \in Domain, l \in Lookup : Source!ApiAnswers(d, l)
  <1>1. /\ entry \in [EntryId -> Entry] /\ entry[id] \in Entry /\ Filled(id) /\ now \in Time
        /\ entry[id].retrieve = "running" /\ used' = used /\ client' = client
    BY DEF Content, TypeInv, TypeOK, Answer
  <1>2. PICK d \in Domain : d = entry[id].dom
    BY <1>1 DEF Entry
  <1>3. PICK l \in Lookup : l = [kind |-> kind, at |-> now]
    BY <1>1 DEF Lookup
  <1>4. entry[id].answer = Nil /\ ~(id > used)
    BY <1>1 DEF Filled
  <1>5. id \in 1..used /\ 1..used \subseteq EntryId
    BY SMTT(60), <1>4, ConstantsAssumption DEF Content, TypeInv, TypeOK, EntryId
  <1>6. /\ entry'[id].answer = l /\ entry'[id].dom = d
        /\ \A i \in EntryId : i # id => entry'[i] = entry[i]
    BY <1>1, <1>2, <1>3 DEF Answer, Entry
  <1>7. l # Nil
    <2>1. kind # "nil"
      OBVIOUS
    <2> QED
      BY SMTT(60), <1>3, <2>1 DEF Nil
  <1>8. Answered(d)' = Answered(d) \cup {l}
    <2>1. ASSUME NEW x \in Answered(d)' PROVE x \in Answered(d) \cup {l}
      <3>1. PICK i \in 1..used : entry'[i].dom = d /\ entry'[i].answer # Nil /\ x = entry'[i].answer
        BY <1>1, <2>1 DEF Answered
      <3>2. CASE i = id
        BY <1>6, <3>1, <3>2
      <3>3. CASE i # id
        BY <1>5, <1>6, <3>1, <3>3 DEF Answered
      <3> QED
        BY <3>2, <3>3
    <2>2. ASSUME NEW x \in Answered(d) PROVE x \in Answered(d)'
      <3>1. PICK i \in 1..used : entry[i].dom = d /\ entry[i].answer # Nil /\ x = entry[i].answer
        BY <2>2 DEF Answered
      <3>2. i # id /\ entry'[i] = entry[i]
        BY <1>4, <1>5, <1>6, <3>1
      <3> QED
        BY <1>1, <3>1, <3>2 DEF Answered
    <2>3. l \in Answered(d)'
      BY <1>1, <1>5, <1>6, <1>7 DEF Answered
    <2> QED
      BY <2>1, <2>2, <2>3
  <1>9. ASSUME NEW b \in Domain, b # d PROVE Answered(b)' = Answered(b)
    <2>1. \A i \in 1..used : i # id => entry'[i] = entry[i]
      BY <1>5, <1>6
    <2> QED
      BY <1>1, <1>2, <1>6, <1>9, <2>1, SMTT(60) DEF Answered
  <1>10. AnsweredMap' = [AnsweredMap EXCEPT ![d] = @ \cup {l}]
    BY <1>8, <1>9 DEF AnsweredMap
  <1>11. CallMap' = CallMap
    BY <1>1 DEF CallMap
  <1>12. Source!ApiAnswers(d, l)
    BY <1>10, <1>11 DEF Source!ApiAnswers, AnsweredMap, CallMap
  <1> QED
    BY <1>12

\* Every step of the cache is a step of LookupSource, or none.
LEMMA SourceStep ==
  ASSUME Content, [Next]_vars
  PROVE  Source!Next \/ (AnsweredMap' = AnsweredMap /\ CallMap' = CallMap)
  <1> DEFINE Step == Source!Next \/ (AnsweredMap' = AnsweredMap /\ CallMap' = CallMap)
  <1>1. ASSUME NEW c \in Client, NEW d \in Domain, LoadHit(c, d) \/ LoadMiss(c, d) PROVE Step
    BY <1>1, SourceBegin DEF Source!Next
  <1>2. ASSUME NEW c \in Client, NEW l \in Lookup, Return(c, l), client[c].pc # "idle",
               l \in Answered(client[c].dom) \/ l.kind = "err",
               \A d \in Domain : Answered(d)' = Answered(d)
        PROVE  Step
    BY <1>2, SourceFinish DEF Source!Next
  <1>3. ASSUME entry' = entry, used' = used PROVE \A d \in Domain : Answered(d)' = Answered(d)
    BY <1>3 DEF Answered
  <1>4. ASSUME NEW c \in Client, ServeFresh(c) \/ ServeStale(c) \/ Retrieved(c) PROVE Step
    <2>1. /\ client[c].pc \in {"loaded", "wait"} /\ client[c].pc # "idle"
          /\ Return(c, entry[client[c].ent].response)
      BY <1>4 DEF ServeFresh, ServeStale, Retrieved
    <2>2. isResolved(entry[client[c].ent])
      <3>1. CASE Retrieved(c)
        <4>1. client[c].ent \in EntryId
          BY <2>1, HeldEntryType DEF Content
        <4> QED
          BY <3>1, <4>1 DEF Retrieved, Content, Filled
      <3> QED
        BY <1>4, <3>1 DEF ServeFresh, ServeStale
    <2>3. PICK l \in Lookup : /\ l = entry[client[c].ent].response
                              /\ l \in Answered(client[c].dom)
      BY <2>1, <2>2, ServedLookup
    <2>4. \A d \in Domain : Answered(d)' = Answered(d)
      <3>1. CASE ServeStale(c)
        BY <3>1, AllocAnswers
      <3>2. CASE ServeFresh(c) \/ Retrieved(c)
        BY <1>3, <3>2 DEF ServeFresh, Retrieved
      <3> QED
        BY <1>4, <3>1, <3>2
    <2>5. Return(c, l)
      BY <2>1, <2>3 DEF Return
    <2> QED
      BY <1>2, <2>1, <2>3, <2>4, <2>5
  <1>5. ASSUME NEW c \in Client, ContextDone(c) PROVE Step
    <2>1. PICK l \in Lookup : l = [kind |-> "err", at |-> now]
      BY DEF Content, TypeInv, TypeOK, Lookup
    <2>2. /\ client[c].pc # "idle" /\ Return(c, l) /\ l.kind = "err"
          /\ entry' = entry /\ used' = used
      BY <1>5, <2>1 DEF ContextDone
    <2> QED
      BY <1>2, <1>3, <2>2
  <1>6. ASSUME \A d \in Domain : Answered(d)' = Answered(d),
               \A b \in Client : /\ client'[b].pc = "idle" <=> client[b].pc = "idle"
                                 /\ client'[b].dom = client[b].dom
                                 /\ client'[b].got = client[b].got
        PROVE  Step
    BY <1>6, SourceStutter
  <1>7. ASSUME NEW c \in Client, LoadRecheck(c) \/ Create(c) \/ Wait(c)
        PROVE  \A b \in Client : /\ client'[b].pc = "idle" <=> client[b].pc = "idle"
                                 /\ client'[b].dom = client[b].dom
                                 /\ client'[b].got = client[b].got
    <2>1. client \in [Client -> Call]
      BY DEF Content, TypeInv, TypeOK
    <2>2. CASE LoadRecheck(c)
      BY <2>1, <2>2 DEF LoadRecheck, Call
    <2>3. CASE Create(c)
      BY <2>1, <2>3 DEF Create, Call
    <2>4. CASE Wait(c)
      BY <2>1, <2>4 DEF Wait, Call
    <2> QED
      BY <1>7, <2>2, <2>3, <2>4
  <1>8. ASSUME \/ \E c \in Client : Wait(c)
               \/ \E id \in EntryId : setResponse(id) \/ RefreshStep(id)
        PROVE  \A d \in Domain : Answered(d)' = Answered(d)
    <2>1. used' = used
      BY <1>8 DEF Wait, setResponse, RefreshStep, RefreshStart, RefreshDecide, RefreshPublish
    <2>2. 1..used \subseteq EntryId
      BY SMTT(60), ConstantsAssumption DEF Content, TypeInv, TypeOK, EntryId
    <2>3. \A i \in 1..used : entry'[i].dom = entry[i].dom /\ entry'[i].answer = entry[i].answer
      BY <1>8, <2>2, SameAnswers
    <2> QED
      BY <2>1, <2>3, AnsweredSame
  <1>9. ASSUME NEW c \in Client, LoadRecheck(c) \/ Create(c) \/ Wait(c) PROVE Step
    <2>1. \A d \in Domain : Answered(d)' = Answered(d)
      <3>1. CASE LoadRecheck(c)
        BY <1>3, <3>1 DEF LoadRecheck
      <3>2. CASE Create(c)
        BY <3>2, AllocAnswers
      <3>3. CASE Wait(c)
        BY <1>8, <3>3
      <3> QED
        BY <1>9, <3>1, <3>2, <3>3
    <2> QED
      BY <1>6, <1>7, <1>9, <2>1
  <1>10. ASSUME NEW id \in EntryId, setResponse(id) \/ RefreshStep(id) PROVE Step
    <2>1. client' = client
      BY <1>10 DEF setResponse, RefreshStep, RefreshStart, RefreshDecide, RefreshPublish
    <2> QED
      BY <1>6, <1>8, <1>10, <2>1
  <1>11. ASSUME NEW id \in EntryId, NEW kind \in {"ok", "gone", "err"}, Answer(id, kind) PROVE Step
    BY <1>11, SourceAnswers DEF Source!Next
  <1>12. ASSUME entry' = entry, used' = used, client' = client PROVE Step
    BY <1>3, <1>6, <1>12
  <1> HIDE DEF Step
  <1>13. ASSUME NEW c \in Client, ClientStep(c) PROVE Step
    BY <1>1, <1>4, <1>5, <1>9, <1>13 DEF ClientStep
  <1>14. ASSUME NEW id \in EntryId, RetrieveStep(id) \/ RefreshStep(id) PROVE Step
    BY <1>10, <1>11, <1>14 DEF RetrieveStep
  <1>15. Step
    <2>1. CASE UNCHANGED vars
      BY <1>12, <2>1 DEF vars
    <2>2. CASE Tick
      BY <1>12, <2>2 DEF Tick
    <2>3. ASSUME NEW d \in Domain, DeleteExpired(d) PROVE Step
      BY <1>12, <2>3 DEF DeleteExpired
    <2> QED
      BY <1>13, <1>14, <2>1, <2>2, <2>3 DEF Next
  <1> QED
    BY <1>15 DEF Step

(***************************************************************************)
(* Resolve keeps what LookupSource promises, for any number of requests,   *)
(* domains and timeouts: through expiry, the janitor, refreshes and their  *)
(* errors, a request ends with an error or with a lookup that the API gave *)
(* for that very domain, and never with the nil of an unresolved entry.    *)
(***************************************************************************)
THEOREM CacheImplementsSource == Spec => ImplementsSource
  <1>1. Init => Source!Init
    <2> SUFFICES ASSUME Init PROVE Source!Init
      OBVIOUS
    <2>1. \A d \in Domain : Answered(d) = {}
      <3>1. 1..used = {}
        BY SMTT(60) DEF Init
      <3> QED
        BY <3>1 DEF Answered
    <2>2. AnsweredMap = [d \in Domain |-> {}]
      BY <2>1 DEF AnsweredMap
    <2>3. \A c \in Client : ~ CallMap[c].busy /\ CallMap[c].got = Nil
      BY DEF Init, CallMap
    <2> QED
      BY <2>2, <2>3 DEF Source!Init, AnsweredMap, CallMap
  <1>2. Content /\ [Next]_vars => [Source!Next]_(Source!vars)
    <2> SUFFICES ASSUME Content, [Next]_vars PROVE [Source!Next]_(Source!vars)
      OBVIOUS
    <2>1. Source!vars = <<AnsweredMap, CallMap>> /\ Source!vars' = <<AnsweredMap', CallMap'>>
      BY DEF Source!vars, AnsweredMap, CallMap
    <2> QED
      BY <2>1, SourceStep
  <1> QED
    BY <1>1, <1>2, ContentHolds, PTL DEF Spec, ImplementsSource, Source!Spec
=============================================================================
