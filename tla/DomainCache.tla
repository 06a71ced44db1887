----------------------------- MODULE DomainCache -----------------------------
(***************************************************************************)
(* The cache of domain lookups of the GitLab source                        *)
(* (internal/source/gitlab/cache: cache.go, entry.go, memstore.go).        *)
(*                                                                         *)
(* Clients are HTTP requests that call Cache.Resolve.  They share entries  *)
(* through the store, a go-cache map with an expiry per item.  An entry is *)
(* filled once, by a goroutine that runs Retriever.Retrieve, and refreshed *)
(* once, by a goroutine (refreshFunc) that fills a NEW entry and puts it   *)
(* in the store in place of the old one.                                   *)
(*                                                                         *)
(* Retriever.Retrieve is modelled by what it promises (module Retriever    *)
(* has the detail): it answers once, with a lookup of the API or with an   *)
(* error, no later than RetrievalTimeout after it was called.              *)
(***************************************************************************)
EXTENDS Integers

CONSTANTS
  Client,               \* requests in progress at the same time
  Domain,               \* domain names
  RefreshTimeout,       \* EntryRefreshTimeout
  ExpirationTimeout,    \* CacheExpiry: TTL in the store, and isExpired
  RetrievalTimeout,     \* RetrievalTimeout of the Retriever
  DisableRefreshTemporaryError,  \* FF_DISABLE_REFRESH_TEMPORARY_ERROR
  MaxTime,              \* bound on the clock
  MaxEntries            \* bound on the entries ever allocated

ASSUME ConstantsAssumption ==
  /\ Domain # {}
  /\ RefreshTimeout \in Nat
  /\ ExpirationTimeout \in Nat \ {0}  \* go-cache takes 0 for no expiration
  /\ RetrievalTimeout \in Nat
  /\ DisableRefreshTemporaryError \in BOOLEAN
  /\ MaxTime \in Nat
  /\ MaxEntries \in Nat

VARIABLES
  now,      \* the clock
  used,     \* number of entries allocated so far; their ids are 1..used
  entry,    \* the heap of *Entry
  store,    \* memstore: the go-cache item of every domain
  client    \* the state of every Cache.Resolve call

vars == <<now, used, entry, store, client>>

EntryId == 1..MaxEntries
NoEntry == 0
Time    == 0..MaxTime
Never   == -1          \* the zero time.Time

(***************************************************************************)
(* A lookup is abstracted to its outcome and the time the API gave it:     *)
(* "ok" has a Domain, "gone" is ErrDomainDoesNotExist, "err" any other     *)
(* error (HTTP failure, unauthorized, bad JSON, context done).             *)
(***************************************************************************)
Lookup == [kind : {"ok", "gone", "err"}, at : Time]
Nil    == [kind |-> "nil", at |-> Never]

(***************************************************************************)
(* retrieve: "no" until the sync.Once has fired, then the goroutine waits  *)
(* for the API ("running"), holds its answer ("answered"), and has called  *)
(* setResponse ("done").  refresh: the same for the refresh Once of this   *)
(* entry; next is the entry that refreshFunc fills.                        *)
(***************************************************************************)
Entry ==
  [dom        : Domain,
   created    : Time \cup {Never},
   orig       : Time \cup {Never},       \* refreshedOriginalTimestamp
   retrieve   : {"no", "running", "answered", "done"},
   deadline   : Int,
   answer     : Lookup \cup {Nil},       \* what Retrieve returned
   response   : Lookup \cup {Nil},
   refresh    : {"no", "spawned", "retrieving", "decided", "published"},
   next       : EntryId \cup {NoEntry}]

newCacheEntry(d, t) ==
  [dom |-> d, created |-> t, orig |-> Never, retrieve |-> "no",
   deadline |-> Never, answer |-> Nil, response |-> Nil,
   refresh |-> "no", next |-> NoEntry]

Item   == [entry : EntryId \cup {NoEntry}, expires : Int]
Absent == [entry |-> NoEntry, expires |-> Never]

Call ==
  [pc  : {"idle", "create", "loaded", "wait"},
   dom : Domain,
   ent : EntryId \cup {NoEntry},
   got : Lookup \cup {Nil}]

-----------------------------------------------------------------------------
(* Reading entries and the store.                                          *)

Timestamp(e) == IF e.orig # Never THEN e.orig ELSE e.created

isResolved(e) == e.response # Nil
isOutdated(e) == now - Timestamp(e) > RefreshTimeout
isExpired(e)  == now - Timestamp(e) > ExpirationTimeout

hasTemporaryError(e) ==
  /\ ~DisableRefreshTemporaryError
  /\ e.response.kind = "err"

\* go-cache hides an item whose expiry has passed, janitor or not.
Visible(d) == store[d].entry # NoEntry /\ now <= store[d].expires

SetDefault(id) == [entry |-> id, expires |-> now + ExpirationTimeout]

-----------------------------------------------------------------------------
(* A call of Cache.Resolve.                                                *)

\* LoadOrCreate, the read-locked Get that finds the item.
LoadHit(c, d) ==
  /\ client[c].pc = "idle"
  /\ Visible(d)
  /\ client' = [client EXCEPT ![c] =
       [pc |-> "loaded", dom |-> d, ent |-> store[d].entry, got |-> Nil]]
  /\ UNCHANGED <<now, used, entry, store>>

\* The read-locked Get misses; the write lock is taken in a later step.
LoadMiss(c, d) ==
  /\ client[c].pc = "idle"
  /\ ~Visible(d)
  /\ client' = [client EXCEPT ![c] =
       [pc |-> "create", dom |-> d, ent |-> NoEntry, got |-> Nil]]
  /\ UNCHANGED <<now, used, entry, store>>

\* Under the write lock: somebody else created the item in the meantime ...
LoadRecheck(c) ==
  LET d == client[c].dom IN
  /\ client[c].pc = "create"
  /\ Visible(d)
  /\ client' = [client EXCEPT ![c].pc = "loaded", ![c].ent = store[d].entry]
  /\ UNCHANGED <<now, used, entry, store>>

\* Mutant: does not look again once it holds the write lock.
CreateWithoutRecheck(c) ==
  LET d == client[c].dom IN
  /\ client[c].pc = "create"
  /\ used < MaxEntries
  /\ used' = used + 1
  /\ entry' = [entry EXCEPT ![used + 1] = newCacheEntry(d, now)]
  /\ store' = [store EXCEPT ![d] = SetDefault(used + 1)]
  /\ client' = [client EXCEPT ![c].pc = "loaded", ![c].ent = used + 1]
  /\ UNCHANGED now

\* ... or this call creates it.
Create(c) ==
  LET d == client[c].dom IN
  /\ client[c].pc = "create"
  /\ ~Visible(d)
  /\ used < MaxEntries
  /\ used' = used + 1
  /\ entry' = [entry EXCEPT ![used + 1] = newCacheEntry(d, now)]
  /\ store' = [store EXCEPT ![d] = SetDefault(used + 1)]
  /\ client' = [client EXCEPT ![c].pc = "loaded", ![c].ent = used + 1]
  /\ UNCHANGED now

Return(c, lookup) ==
  client' = [client EXCEPT ![c].pc = "idle", ![c].ent = NoEntry, ![c].got = lookup]

\* IsUpToDate: a cache hit.
ServeFresh(c) ==
  LET e == entry[client[c].ent] IN
  /\ client[c].pc = "loaded"
  /\ isResolved(e) /\ ~isOutdated(e)
  /\ Return(c, e.response)
  /\ UNCHANGED <<now, used, entry, store>>

\* NeedsRefresh: the first caller spawns refreshFunc, all get the old lookup.
ServeStale(c) ==
  LET id == client[c].ent
      e  == entry[id]
  IN
  /\ client[c].pc = "loaded"
  /\ isResolved(e) /\ isOutdated(e)
  /\ \/ /\ e.refresh = "no"
        /\ used < MaxEntries
        /\ used' = used + 1
        /\ entry' = [entry EXCEPT
             ![id].refresh = "spawned",
             ![id].next = used + 1,
             ![used + 1] = newCacheEntry(e.dom, Never)]
     \/ /\ e.refresh # "no"
        /\ UNCHANGED <<used, entry>>
  /\ Return(c, e.response)
  /\ UNCHANGED <<now, store>>

\* The body of the retrieve Once: go setResponse(Retrieve(...)).
StartRetrieve(e) ==
  [e EXCEPT !.retrieve = "running", !.deadline = now + RetrievalTimeout]

\* Neither fresh nor stale: fire the Once, unless it has fired, and wait.
Wait(c) ==
  LET id == client[c].ent IN
  /\ client[c].pc = "loaded"
  /\ ~isResolved(entry[id])
  /\ entry' = [entry EXCEPT ![id] = IF @.retrieve = "no" THEN StartRetrieve(@) ELSE @]
  /\ client' = [client EXCEPT ![c].pc = "wait"]
  /\ UNCHANGED <<now, used, store>>

\* Mutant: the channel is closed before the response is there.
RetrievedTooEarly(c) ==
  LET e == entry[client[c].ent] IN
  /\ client[c].pc = "wait"
  /\ e.retrieve \in {"answered", "done"}
  /\ Return(c, e.response)
  /\ UNCHANGED <<now, used, entry, store>>

\* <-entry.retrieved
Retrieved(c) ==
  LET e == entry[client[c].ent] IN
  /\ client[c].pc = "wait"
  /\ e.retrieve = "done"
  /\ Return(c, e.response)
  /\ UNCHANGED <<now, used, entry, store>>

\* <-ctx.Done(): the HTTP request is cancelled while it waits.
ContextDone(c) ==
  /\ client[c].pc = "wait"
  /\ Return(c, [kind |-> "err", at |-> now])
  /\ UNCHANGED <<now, used, entry, store>>

-----------------------------------------------------------------------------
(* The goroutine that runs Retriever.Retrieve for an entry.                *)

\* The API, or the Retriever's own timeout, determines the answer.
Answer(id, kind) ==
  /\ entry[id].retrieve = "running"
  /\ entry' = [entry EXCEPT
       ![id].retrieve = "answered", ![id].answer = [kind |-> kind, at |-> now]]
  /\ UNCHANGED <<now, used, store, client>>

\* Mutant: does not close the channel.
setResponseWithoutClose(id) ==
  /\ entry[id].retrieve = "answered"
  /\ entry' = [entry EXCEPT ![id].response = entry[id].answer]
  /\ UNCHANGED <<now, used, store, client>>

setResponse(id) ==
  /\ entry[id].retrieve = "answered"
  /\ entry' = [entry EXCEPT
       ![id].retrieve = "done", ![id].response = entry[id].answer]
  /\ UNCHANGED <<now, used, store, client>>

-----------------------------------------------------------------------------
(* The goroutine that runs refreshFunc(e); id is e, n the new entry.       *)

\* Mutant: the new entry goes to the store before it is filled.
RefreshStartPublishes(id) ==
  LET n == entry[id].next IN
  /\ entry[id].refresh = "spawned"
  /\ entry' = [entry EXCEPT
       ![id].refresh = "retrieving",
       ![n] = StartRetrieve([entry[n] EXCEPT !.created = now])]
  /\ store' = [store EXCEPT ![entry[id].dom] = SetDefault(n)]
  /\ UNCHANGED <<now, used, client>>

RefreshStart(id) ==
  LET n == entry[id].next IN
  /\ entry[id].refresh = "spawned"
  /\ entry' = [entry EXCEPT
       ![id].refresh = "retrieving",
       ![n] = StartRetrieve([entry[n] EXCEPT !.created = now])]
  /\ UNCHANGED <<now, used, store, client>>

\* The new entry's response and refreshedOriginalTimestamp, after retrieval.
KeepOrReplace(e, n) ==
  IF ~isExpired(e) /\ hasTemporaryError(n)
  THEN [n EXCEPT !.response = e.response, !.orig = e.created]
  ELSE n

RefreshDecide(id) ==
  LET n == entry[id].next IN
  /\ entry[id].refresh = "retrieving"
  /\ entry[n].retrieve = "done"
  /\ entry' = [entry EXCEPT
       ![id].refresh = "decided",
       ![n] = KeepOrReplace(entry[id], entry[n])]
  /\ UNCHANGED <<now, used, store, client>>

\* Mutant: gives up when the API had an error.
RefreshPublishOnSuccess(id) ==
  LET e == entry[id] IN
  /\ e.refresh = "decided"
  /\ entry[e.next].answer.kind # "err"
  /\ entry' = [entry EXCEPT ![id].refresh = "published"]
  /\ store' = [store EXCEPT ![e.dom] = SetDefault(e.next)]
  /\ UNCHANGED <<now, used, client>>

\* ReplaceOrCreate: Delete and SetDefault under the write lock.
RefreshPublish(id) ==
  LET e == entry[id] IN
  /\ e.refresh = "decided"
  /\ entry' = [entry EXCEPT ![id].refresh = "published"]
  /\ store' = [store EXCEPT ![e.dom] = SetDefault(e.next)]
  /\ UNCHANGED <<now, used, client>>

-----------------------------------------------------------------------------
(* The environment: go-cache's janitor and the clock.                      *)

DeleteExpired(d) ==
  /\ store[d].entry # NoEntry
  /\ ~Visible(d)
  /\ store' = [store EXCEPT ![d] = Absent]
  /\ UNCHANGED <<now, used, entry, client>>

\* Time does not pass the deadline of a retrieval that has not been answered.
Tick ==
  /\ now < MaxTime
  /\ \A id \in EntryId : entry[id].retrieve = "running" => now < entry[id].deadline
  /\ now' = now + 1
  /\ UNCHANGED <<used, entry, store, client>>

-----------------------------------------------------------------------------

SomeDomain == CHOOSE d \in Domain : TRUE   \* of what is not in use yet

Init ==
  /\ now = 0
  /\ used = 0
  /\ entry = [id \in EntryId |-> newCacheEntry(SomeDomain, Never)]
  /\ store = [d \in Domain |-> Absent]
  /\ client = [c \in Client |->
       [pc |-> "idle", dom |-> SomeDomain, ent |-> NoEntry, got |-> Nil]]

ClientStep(c) ==
  \/ \E d \in Domain : LoadHit(c, d) \/ LoadMiss(c, d)
  \/ LoadRecheck(c)
  \/ Create(c)
  \/ ServeFresh(c)
  \/ ServeStale(c)
  \/ Wait(c)
  \/ Retrieved(c)
  \/ ContextDone(c)

RetrieveStep(id) ==
  \/ \E kind \in {"ok", "gone", "err"} : Answer(id, kind)
  \/ setResponse(id)

RefreshStep(id) ==
  \/ RefreshStart(id)
  \/ RefreshDecide(id)
  \/ RefreshPublish(id)

Next ==
  \/ \E c \in Client : ClientStep(c)
  \/ \E id \in EntryId : RetrieveStep(id) \/ RefreshStep(id)
  \/ \E d \in Domain : DeleteExpired(d)
  \/ Tick

Spec == Init /\ [][Next]_vars

(***************************************************************************)
(* The Go scheduler runs every goroutine that can run.  Nothing makes a    *)
(* request start, be cancelled, or the clock reach any particular time.    *)
(***************************************************************************)
Fairness ==
  /\ \A c \in Client : WF_vars(Retrieved(c))
  /\ \A id \in EntryId : WF_vars(RetrieveStep(id)) /\ WF_vars(RefreshStep(id))

FairSpec == Spec /\ Fairness

-----------------------------------------------------------------------------
(* Properties                                                              *)

TypeOK ==
  /\ now \in Time
  /\ used \in 0..MaxEntries
  /\ entry \in [EntryId -> Entry]
  /\ store \in [Domain -> Item]
  /\ client \in [Client -> Call]

\* The entry was made by LoadOrCreate, for a request that missed.
MadeByMiss(id) == id <= used /\ \A e \in EntryId : entry[e].next # id

\* A request, or a later request through the store, can read the entry.
Reachable(id) ==
  \/ \E d \in Domain : store[d].entry = id
  \/ \E c \in Client : client[c].ent = id

(***************************************************************************)
(* A domain is missed at most once per CacheExpiry: of two entries that    *)
(* LoadOrCreate made for the same domain, the later was made after the TTL *)
(* of the earlier, whatever requests race for the lock and whatever        *)
(* refreshes replaced in between.  (Requests arriving together share one   *)
(* entry, hence one retrieval.)                                            *)
(***************************************************************************)
MissOncePerExpiry ==
  \A i, j \in EntryId :
    (MadeByMiss(i) /\ MadeByMiss(j) /\ i < j /\ entry[i].dom = entry[j].dom)
      => entry[j].created - entry[i].created > ExpirationTimeout

(***************************************************************************)
(* refreshFunc writes response and refreshedOriginalTimestamp without the  *)
(* entry's lock.  That is safe because nobody can reach the entry yet:     *)
(* once an entry is resolved and reachable it never changes.               *)
(***************************************************************************)
ReachableResponseStable ==
  [][\A id \in EntryId : Reachable(id) /\ isResolved(entry[id]) =>
       /\ entry'[id].response = entry[id].response
       /\ entry'[id].orig = entry[id].orig]_vars

\* Every request that waits for a retrieval is answered.
WaitersAnswered ==
  \A c \in Client : client[c].pc = "wait" ~> client[c].pc # "wait"

(***************************************************************************)
(* A refresh that was spawned publishes an entry, whatever the API says.   *)
(* An entry is refreshed only once, so a refresh that gave up would leave  *)
(* a stale entry that nothing renews until it leaves the store.            *)
(***************************************************************************)
RefreshPublishes ==
  \A id \in EntryId : entry[id].refresh # "no" ~> entry[id].refresh = "published"

(***************************************************************************)
(* What Resolve promises its callers: they get lookups the API gave for    *)
(* their own domain, or errors (module LookupSource), and never the nil    *)
(* lookup of an entry that is not resolved, which GetDomain would          *)
(* dereference.                                                            *)
(***************************************************************************)
Answered(d) ==
  {entry[id].answer : id \in {i \in 1..used : entry[i].dom = d /\ entry[i].answer # Nil}}

Source == INSTANCE LookupSource WITH
  answered <- [d \in Domain |-> Answered(d)],
  call     <- [c \in Client |->
                [busy |-> client[c].pc # "idle",
                 dom  |-> client[c].dom,
                 got  |-> client[c].got]]

ImplementsSource == Source!Spec

(***************************************************************************)
(* What the comment on Refresh says (cache.go:111-115) and the code does   *)
(* not do.                                                                 *)
(***************************************************************************)

\* "If an existing successful entry exists, it will only be replaced if the
\* new resolved entry is successful too", here for entries that are visible
\* and not expired, and for replacements that are temporary errors.
SuccessNotReplacedByError ==
  [][\A d \in Domain :
       LET e == entry[store[d].entry] IN
       ( /\ Visible(d) /\ store'[d] # store[d]
         /\ e.response.kind = "ok" /\ ~isExpired(e) )
       => entry'[store'[d].entry].response.kind # "err"]_vars

=============================================================================
