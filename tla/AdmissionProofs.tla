-------------------------- MODULE AdmissionProofs --------------------------
(***************************************************************************)
(* Proofs about what lets a client in: module LimitListener, for any       *)
(* number of listeners, connections and slots, and module RateLimiter, for *)
(* any number of requests and keys.                                        *)
(***************************************************************************)
EXTENDS LimitListener, RateLimiter, FiniteSetTheorems, TLAPS

(***************************************************************************)
(* LimitListener                                                           *)
(***************************************************************************)

Holders == held \cup open

(***************************************************************************)
(* The inductive invariant.  That slots are accounted for needs to know    *)
(* that an Accept without a slot cannot return a connection (its listener  *)
(* is done, hence closed), and that a connection in a backlog is not yet   *)
(* open, so that it takes over exactly one slot.                           *)
(***************************************************************************)
AcceptorInv ==
  /\ \A l \in held : acceptor[l] = "accept"
  /\ \A l \in Listener : acceptor[l] = "accept" => l \in held \cup done

ClosedInv == done \cap listening = {}

BacklogInv ==
  /\ \A l \in Listener : backlog[l] \cap (open \cup again) = {}
  /\ \A k, l \in Listener : k # l => backlog[k] \cap backlog[l] = {}

ListenInv == ListenTypeOK /\ AcceptorInv /\ ClosedInv /\ BacklogInv /\ SlotsAccounted

\* The holders of slots are finitely many.
LEMMA HoldersFinite ==
  ASSUME ListenTypeOK
  PROVE  /\ IsFiniteSet(Holders) /\ Cardinality(Holders) \in Nat
         /\ IsFiniteSet(open) /\ Cardinality(open) <= Cardinality(Holders)
         /\ Cardinality(open) \in Nat
         /\ Holders = {} <=> Cardinality(Holders) = 0
  <1>1. IsFiniteSet(Listener \cup Conn)
    BY ZenonT(30), LimiterAssumption, FS_Union
  <1>2. Holders \in SUBSET (Listener \cup Conn) /\ open \in SUBSET Holders
    BY DEF ListenTypeOK, Holders
  <1>3. IsFiniteSet(Holders)
    BY <1>1, <1>2, FS_Subset
  <1> QED
    BY <1>2, <1>3, FS_Subset, FS_CardinalityType, FS_EmptySet

\* No listener has accepted, and no slot is taken, at the start.
LEMMA ListenInitInv == ListenInit => ListenInv
  BY FS_EmptySet, LimiterAssumption
     DEF ListenInit, ListenInv, ListenTypeOK, AcceptorInv, ClosedInv, BacklogInv, SlotsAccounted

\* What the client, Accept and Close do to everything but the slots.
LEMMA FrameStep ==
  ASSUME ListenInv, [ListenNext]_listenVars
  PROVE  ListenTypeOK' /\ AcceptorInv' /\ ClosedInv' /\ BacklogInv'
  <1> USE LimiterAssumption DEF ListenInv, ListenTypeOK, AcceptorInv, ClosedInv, BacklogInv
  <1>1. ASSUME NEW l \in Listener, Acquire(l)
        PROVE  ListenTypeOK' /\ AcceptorInv' /\ ClosedInv' /\ BacklogInv'
    BY <1>1 DEF Acquire
  <1>2. ASSUME NEW l \in Listener, AcquireFails(l)
        PROVE  ListenTypeOK' /\ AcceptorInv' /\ ClosedInv' /\ BacklogInv'
    BY <1>2 DEF AcquireFails
  <1>3. ASSUME NEW l \in Listener, NEW c \in Conn, AcceptConn(l, c)
        PROVE  ListenTypeOK' /\ AcceptorInv' /\ ClosedInv' /\ BacklogInv'
    BY <1>3 DEF AcceptConn
  <1>4. ASSUME NEW l \in Listener, AcceptError(l) \/ AcceptClosed(l)
        PROVE  ListenTypeOK' /\ AcceptorInv' /\ ClosedInv' /\ BacklogInv'
    BY <1>4 DEF AcceptError, AcceptClosed, ReleaseHeld
  <1>5. ASSUME NEW l \in Listener, CloseListener(l) \/ CloseDone(l)
        PROVE  ListenTypeOK' /\ AcceptorInv' /\ ClosedInv' /\ BacklogInv'
    BY <1>5 DEF CloseListener, CloseDone
  <1>6. ASSUME NEW l \in Listener, NEW c \in Conn, Connect(l, c)
        PROVE  ListenTypeOK' /\ AcceptorInv' /\ ClosedInv' /\ BacklogInv'
    BY <1>6 DEF Connect, InUse
  <1>7. ASSUME NEW c \in Conn, CloseConn(c) \/ CloseAgain(c)
        PROVE  ListenTypeOK' /\ AcceptorInv' /\ ClosedInv' /\ BacklogInv'
    BY <1>7 DEF CloseConn, CloseAgain
  <1>8. CASE UNCHANGED listenVars
    BY <1>8 DEF listenVars
  <1> QED
    BY <1>1, <1>2, <1>3, <1>4, <1>5, <1>6, <1>7, <1>8 DEF ListenNext, AcceptStep

\* The slots, and who has them.
LEMMA SlotStep ==
  ASSUME ListenInv, [ListenNext]_listenVars
  PROVE  SlotsAccounted'
  <1> USE LimiterAssumption
  <1> SUFFICES sem' = Cardinality(Holders')
    BY DEF SlotsAccounted, Holders
  <1>a. /\ sem = Cardinality(Holders) /\ sem \in Nat /\ IsFiniteSet(Holders)
        /\ held \cap Conn = {} /\ open \cap Listener = {}
    BY HoldersFinite DEF ListenInv, ListenTypeOK, SlotsAccounted, Holders
  <1>1. ASSUME NEW l \in Listener, Acquire(l) PROVE sem' = Cardinality(Holders')
    <2>1. Holders' = Holders \cup {l} /\ l \notin Holders /\ sem' = sem + 1
      BY <1>1, <1>a DEF Acquire, ListenInv, AcceptorInv, Holders
    <2> QED
      BY ZenonT(30), <1>a, <2>1, FS_AddElement
  <1>2. ASSUME NEW l \in Listener, NEW c \in Conn, AcceptConn(l, c)
        PROVE  sem' = Cardinality(Holders')
    <2>1. l \in held
      BY <1>2 DEF AcceptConn, ListenInv, AcceptorInv, ClosedInv
    <2>2. /\ Holders' = (Holders \ {l}) \cup {c}
          /\ l \in Holders /\ c \notin Holders /\ sem' = sem
      BY <1>2, <1>a, <2>1 DEF AcceptConn, ListenInv, BacklogInv, Holders
    <2>3. IsFiniteSet(Holders \ {l}) /\ Cardinality(Holders \ {l}) = sem - 1
      BY <1>a, <2>2, FS_RemoveElement
    <2>4. Cardinality((Holders \ {l}) \cup {c}) = (sem - 1) + 1
      BY ZenonT(30), <2>2, <2>3, FS_AddElement
    <2> QED
      BY <1>a, <2>2, <2>4
  <1>3. ASSUME NEW l \in Listener, AcceptError(l) \/ AcceptClosed(l)
        PROVE  sem' = Cardinality(Holders')
    <2>1. Holders' = Holders \ {l} /\ (l \in Holders <=> l \in held)
      BY <1>3, <1>a DEF AcceptError, AcceptClosed, ReleaseHeld, Holders
    <2>2. sem' = IF l \in held THEN sem - 1 ELSE sem
      BY <1>3 DEF AcceptError, AcceptClosed, ReleaseHeld
    <2> QED
      BY ZenonT(30), <1>a, <2>1, <2>2, FS_RemoveElement
  <1>4. ASSUME NEW c \in Conn, CloseConn(c) PROVE sem' = Cardinality(Holders')
    <2>1. Holders' = Holders \ {c} /\ c \in Holders /\ sem' = sem - 1
      BY <1>4, <1>a DEF CloseConn, Holders
    <2> QED
      BY ZenonT(30), <1>a, <2>1, FS_RemoveElement
  <1>5. ASSUME UNCHANGED <<sem, held, open>> PROVE sem' = Cardinality(Holders')
    BY <1>5, <1>a DEF Holders
  <1>6. ASSUME NEW l \in Listener,
               AcquireFails(l) \/ CloseListener(l) \/ CloseDone(l) \/ \E c \in Conn : Connect(l, c)
        PROVE  sem' = Cardinality(Holders')
    BY <1>5, <1>6 DEF AcquireFails, CloseListener, CloseDone, Connect
  <1>7. ASSUME NEW c \in Conn, CloseAgain(c) PROVE sem' = Cardinality(Holders')
    BY <1>5, <1>7 DEF CloseAgain
  <1>8. CASE UNCHANGED listenVars
    BY <1>5, <1>8 DEF listenVars
  <1> QED
    BY <1>1, <1>2, <1>3, <1>4, <1>6, <1>7, <1>8 DEF ListenNext, AcceptStep

\* The invariant holds in every reachable state of the listeners.
THEOREM ListenInvariance == ListenSpec => []ListenInv
  <1>1. ListenInv /\ [ListenNext]_listenVars => ListenInv'
    BY FrameStep, SlotStep DEF ListenInv
  <1> QED
    BY <1>1, ListenInitInv, PTL DEF ListenSpec

\* Every slot belongs to a waiting Accept or to an open connection, which
\* have one slot each.
THEOREM SlotsAreAccounted == ListenSpec => []SlotsAccounted
  <1>1. ListenInv => SlotsAccounted
    BY DEF ListenInv
  <1> QED
    BY <1>1, ListenInvariance, PTL

\* The listeners together never have more than MaxConns connections open.
THEOREM LimitIsKept == ListenSpec => []LimitHolds
  <1>1. ListenInv => LimitHolds
    BY HoldersFinite, LimiterAssumption DEF ListenInv, ListenTypeOK, SlotsAccounted, Holders, LimitHolds
  <1> QED
    BY <1>1, ListenInvariance, PTL

\* release always finds a slot to give back.
THEOREM ReleaseDoesNotBlock == ListenSpec => []ReleaseNeverBlocks
  <1>1. ListenInv => ReleaseNeverBlocks
    BY HoldersFinite DEF ListenInv, SlotsAccounted, Holders, ReleaseNeverBlocks
  <1> QED
    BY <1>1, ListenInvariance, PTL

-----------------------------------------------------------------------------
(***************************************************************************)
(* RateLimiter                                                             *)
(***************************************************************************)

USE ZenonT(60)

AnyKey == {None} \cup UNION {Key[s] : s \in Limiter}
Call == [pc : {"idle", "get", "fetch", "allow"}, at : 0..2, key : [Limiter -> AnyKey], bucket : Nat]
Bucket(s) == [key : Key[s], tokens : 0..Burst[s], last : Nat]
Count == [n : Nat, last : Int]

\* m has a value for every key of every limiter.
IsMap(m) == m = [s \in Limiter |-> [k \in Key[s] |-> m[s][k]]]

\* A call at a limiter has a key for every limiter.
Keyed(q) == q.pc # "idle" => q.at \in 1..2 /\ \A s \in Limiter : q.key[s] \in Key[s]

RateTypes ==
  /\ now \in Nat
  /\ IsMap(cache)
  /\ bucket = [s \in Limiter |-> bucket[s]]
  /\ \A s \in Limiter : bucket[s] \in Seq(Bucket(s))
  /\ IsMap(served)
  /\ \A s \in Limiter : \A k \in Key[s] : served[s][k] \in Count
  /\ req \in [Request -> Call]
  /\ \A r \in Request : Keyed(req[r])

(***************************************************************************)
(* Of the buckets made for a key the last one is current: it is the only   *)
(* one a request can still find in the cache.  A request may hold one that *)
(* has been replaced: it is late.                                          *)
(***************************************************************************)
IndicesOf(l, k) == {i \in 1..Len(l) : l[i].key = k}

IsCurrent(l, k, i) == i \in IndicesOf(l, k) /\ \A j \in IndicesOf(l, k) : j <= i

Cached == \A s \in Limiter : \A k \in Key[s] :
            cache[s][k] = None \/ IsCurrent(bucket[s], k, cache[s][k].bucket)

\* The bucket a call is about to ask was made for its key.
Holds(buckets, q) ==
  q.pc = "allow" => q.bucket \in IndicesOf(buckets[Chain[q.at]], q.key[Chain[q.at]])

Held == \A r \in Request : Holds(bucket, req[r])

IsLate(q, s, k, i) == q.pc = "allow" /\ Chain[q.at] = s /\ q.key[s] = k /\ q.bucket # i

Late(calls, s, k, i) == {r \in Request : IsLate(calls[r], s, k, i)}

(***************************************************************************)
(* The account of a key: those that have passed, the tokens of the current *)
(* bucket and the late calls, each of which may still find a token, are    *)
(* together within the bound.                                              *)
(***************************************************************************)
Bound(s, m, t) == Burst[s] * m + t + (m - 1) * (Cardinality(Request) - 1)

TokensAt(s, b, t) ==
  IF b.tokens + (t - b.last) < Burst[s] THEN b.tokens + (t - b.last) ELSE Burst[s]

Accounted(l, calls, n, t, s, k, i) ==
  n + TokensAt(s, l[i], t) + Cardinality(Late(calls, s, k, i))
    <= Bound(s, Cardinality(IndicesOf(l, k)), t)

Account(l, calls, n, t, s, k) ==
  \/ IndicesOf(l, k) = {} /\ n = 0
  \/ \E i \in 1..Len(l) : IsCurrent(l, k, i) /\ Accounted(l, calls, n, t, s, k, i)

Accounts == \A s \in Limiter : \A k \in Key[s] :
              Account(bucket[s], req, served[s][k].n, now, s, k)

\* A token was taken from a bucket that is not full when it was last asked, and
\* the request that took it has passed.
Recent(l, sv, t, s) ==
  \A i \in 1..Len(l) :
    /\ l[i].last <= t
    /\ l[i].tokens < Burst[s] => sv[l[i].key].last >= l[i].last

Passed ==
  /\ \A s \in Limiter : Recent(bucket[s], served[s], now, s)
  /\ \A s \in Limiter : \A k \in Key[s] : served[s][k].last <= now

RateInv == RateTypes /\ Cached /\ Held /\ Accounts /\ Passed

-----------------------------------------------------------------------------
(* Maps and lists                                                          *)

Put(m, s, k, v) == [m EXCEPT ![s][k] = v]

\* w is m with v at key k of limiter s.
Written(w, m, s, k, v) ==
  /\ IsMap(w)
  /\ w[s][k] = v
  /\ \A t \in Limiter : \A j \in Key[t] : t # s \/ j # k => w[t][j] = m[t][j]

\* A map that is written at one key.
LEMMA WrittenMap ==
  ASSUME NEW m, NEW w, NEW s \in Limiter, NEW k \in Key[s], NEW v,
         IsMap(m), w = Put(m, s, k, v)
  PROVE  Written(w, m, s, k, v)
  <1>1. DOMAIN m = Limiter /\ \A t \in Limiter : m[t] = [j \in Key[t] |-> m[t][j]]
    BY DEF IsMap
  <1>2. \A t \in Limiter : w[t] = IF t = s THEN [m[s] EXCEPT ![k] = v] ELSE m[t]
    BY <1>1 DEF Put
  <1>3. w = [t \in Limiter |-> w[t]]
    BY <1>1 DEF Put
  <1>4. ASSUME NEW t \in Limiter
        PROVE  w[t] = [j \in Key[t] |-> w[t][j]]
    BY <1>1, <1>2
  <1>5. w[s] = [m[s] EXCEPT ![k] = v] /\ DOMAIN m[s] = Key[s]
    BY <1>1, <1>2
  <1>6. w[s][k] = v /\ \A j \in Key[s] : j # k => w[s][j] = m[s][j]
    BY <1>5
  <1>7. \A t \in Limiter : \A j \in Key[t] : t # s \/ j # k => w[t][j] = m[t][j]
    BY <1>2, <1>6
  <1>8. IsMap(w)
    BY <1>3, <1>4 DEF IsMap
  <1> QED
    BY <1>6, <1>7, <1>8 DEF Written

\* A list is a function, with as many elements as it is long.
LEMMA Elements ==
  ASSUME NEW S, NEW l \in Seq(S)
  PROVE  /\ Len(l) \in Nat
         /\ DOMAIN l = 1..Len(l)
         /\ l \in [1..Len(l) -> S]
         /\ \A i \in 1..Len(l) : l[i] \in S
  BY SMTT(60)

\* The list of buckets with one more.
LEMMA LongerList ==
  ASSUME NEW S, NEW l \in Seq(S), NEW e \in S
  PROVE  /\ Append(l, e) \in Seq(S)
         /\ Len(Append(l, e)) = Len(l) + 1
         /\ Len(l) \in Nat
         /\ Append(l, e)[Len(l) + 1] = e
         /\ \A i \in 1..Len(l) : Append(l, e)[i] = l[i]
  BY SMTT(60), Elements

\* m is l with e at i.
Changed(m, l, i, e) ==
  /\ Len(m) = Len(l)
  /\ m[i] = e
  /\ \A j \in 1..Len(l) : j # i => m[j] = l[j]

\* The list of buckets with one of them changed.
LEMMA ChangedList ==
  ASSUME NEW S, NEW l \in Seq(S), NEW i \in 1..Len(l), NEW e \in S,
         NEW m, m = [l EXCEPT ![i] = e]
  PROVE  m \in Seq(S) /\ Changed(m, l, i, e)
  <1>1. m \in Seq(S) /\ Len(m) = Len(l)
    BY SMTT(60)
  <1>2. DOMAIN l = 1..Len(l) /\ l \in [1..Len(l) -> S]
    BY Elements
  <1> QED
    BY <1>1, <1>2 DEF Changed

\* The bucket that is made last for its key is the current one of that key, and
\* what is current of another key stays so.
LEMMA LongerIndices ==
  ASSUME NEW s \in Limiter, NEW l \in Seq(Bucket(s)), NEW b \in Bucket(s)
  PROVE  LET m == Append(l, b)
         IN /\ \A k : k # b.key => IndicesOf(m, k) = IndicesOf(l, k)
            /\ IndicesOf(m, b.key) = IndicesOf(l, b.key) \cup {Len(l) + 1}
            /\ Len(l) + 1 \notin IndicesOf(l, b.key)
            /\ IsCurrent(m, b.key, Len(l) + 1)
  <1> DEFINE m == Append(l, b)
             n == Len(l) + 1
  <1>1. Len(m) = n /\ m[n] = b /\ \A i \in 1..Len(l) : m[i] = l[i]
    BY SMTT(60), LongerList
  <1>2. Len(l) \in Nat
    BY Elements
  <1>3. 1..n = (1..Len(l)) \cup {n} /\ n \notin 1..Len(l) /\ \A i \in 1..n : i <= n
    BY SMTT(60), <1>2
  <1>4. \A k : k # b.key => IndicesOf(m, k) = IndicesOf(l, k)
    BY <1>1, <1>3 DEF IndicesOf
  <1>5. IndicesOf(m, b.key) = IndicesOf(l, b.key) \cup {n}
    BY <1>1, <1>3 DEF IndicesOf
  <1>6. n \notin IndicesOf(l, b.key)
    BY <1>3 DEF IndicesOf
  <1>7. IsCurrent(m, b.key, n)
    BY <1>1, <1>3, <1>5 DEF IsCurrent, IndicesOf
  <1> QED
    BY <1>4, <1>5, <1>6, <1>7

\* A bucket that changes keeps its key.
LEMMA SameIndices ==
  ASSUME NEW l, NEW m, Len(m) = Len(l), \A i \in 1..Len(l) : m[i].key = l[i].key
  PROVE  \A k : IndicesOf(m, k) = IndicesOf(l, k)
  BY DEF IndicesOf

\* There are finitely many buckets of a key.
LEMMA IndicesFinite ==
  ASSUME NEW s \in Limiter, NEW l \in Seq(Bucket(s)), NEW k
  PROVE  /\ IsFiniteSet(IndicesOf(l, k)) /\ Cardinality(IndicesOf(l, k)) \in Nat
         /\ IndicesOf(l, k) = {} <=> Cardinality(IndicesOf(l, k)) = 0
  <1>1. Len(l) \in Nat
    BY Elements
  <1>2. IsFiniteSet(1..Len(l))
    BY SMTT(60), <1>1, FS_Interval
  <1>3. IndicesOf(l, k) \in SUBSET (1..Len(l))
    BY DEF IndicesOf
  <1> QED
    BY <1>2, <1>3, FS_Subset, FS_CardinalityType, FS_EmptySet

\* There is one current bucket of a key.
LEMMA CurrentIsUnique ==
  ASSUME NEW s \in Limiter, NEW l \in Seq(Bucket(s)), NEW k,
         NEW i, NEW j, IsCurrent(l, k, i), IsCurrent(l, k, j)
  PROVE  i = j
  <1>1. i <= j /\ j <= i
    BY DEF IsCurrent
  <1>2. i \in 1..Len(l) /\ j \in 1..Len(l) /\ Len(l) \in Nat
    BY Elements DEF IsCurrent, IndicesOf
  <1> QED
    BY SMTT(60), <1>1, <1>2

-----------------------------------------------------------------------------
(* Calls and tokens                                                        *)

\* The two limiters, in the order they are asked.
LEMMA Limiters ==
  /\ Chain[1] = "domain" /\ Chain[2] = "source_ip"
  /\ \A i \in 1..2 : Chain[i] \in Limiter
  BY SMTT(60) DEF Chain, Limiter

\* An idle call is at no limiter.
LEMMA IdleTyped == Idle \in Call /\ Idle.pc = "idle" /\ Keyed(Idle)
  <1>1. 0 \in 0..2 /\ 0 \in Nat
    BY SMTT(60)
  <1>2. Idle.pc = "idle"
    BY DEF Idle
  <1>3. [s \in Limiter |-> None] \in [Limiter -> AnyKey]
    BY DEF AnyKey
  <1> QED
    BY <1>1, <1>2, <1>3 DEF Idle, Call, Keyed

\* The limiters are passed in the order of the chain.
LEMMA NextStageIs ==
  ASSUME NEW i \in 0..2
  PROVE  NextStage(i) \in 1..3
  <1> DEFINE P(j) == Limited[Chain[j]] /\ \A m \in i + 1..j - 1 : ~ Limited[Chain[m]]
  <1>1. CASE \E j \in i + 1..2 : Limited[Chain[j]]
    <2>1. \E j \in i + 1..2 : P(j)
      BY SMTT(60), <1>1
    <2>2. (CHOOSE j \in i + 1..2 : P(j)) \in i + 1..2
      BY <2>1
    <2>3. NextStage(i) \in i + 1..2
      BY <1>1, <2>2 DEF NextStage
    <2> QED
      BY SMTT(60), <2>3
  <1>2. CASE ~ \E j \in i + 1..2 : Limited[Chain[j]]
    <2>1. NextStage(i) = 3
      BY <1>2 DEF NextStage
    <2> QED
      BY SMTT(60), <2>1
  <1> QED
    BY <1>1, <1>2

\* A call that goes on holds no bucket yet.
LEMMA AdvanceIs ==
  ASSUME NEW q \in Call, \A s \in Limiter : q.key[s] \in Key[s], NEW i \in 0..2
  PROVE  /\ Advance(q, i) \in Call
         /\ Keyed(Advance(q, i))
         /\ Advance(q, i).pc # "allow"
  <1> DEFINE j == NextStage(i)
             w == [q EXCEPT !.pc = "get", !.at = j, !.bucket = 0]
  <1>1. CASE j = 3
    <2>1. Advance(q, i) = Idle
      BY <1>1 DEF Advance
    <2> QED
      BY <2>1, IdleTyped
  <1>2. CASE j # 3
    <2>1. j \in 1..2
      BY SMTT(60), <1>2, NextStageIs
    <2>2. j \in 0..2 /\ 0 \in Nat
      BY SMTT(60), <2>1
    <2>3. Advance(q, i) = w
      BY <1>2 DEF Advance
    <2> HIDE DEF j
    <2>4. w \in Call /\ w.pc = "get" /\ w.at = j /\ w.key = q.key
      BY <2>2 DEF Call
    <2> QED
      BY <2>1, <2>3, <2>4 DEF Keyed
  <1> QED
    BY <1>1, <1>2

\* The call that asks has a limiter and a key for it.
LEMMA CallIsAt ==
  ASSUME RateTypes, NEW r \in Request, req[r].pc # "idle"
  PROVE  /\ req[r] \in Call /\ req[r].at \in 1..2 /\ req[r].at \in 0..2
         /\ Stage(r) \in Limiter /\ Stage(r) = Chain[req[r].at]
         /\ KeyOf(r) \in Key[Stage(r)] /\ KeyOf(r) = req[r].key[Chain[req[r].at]]
         /\ \A s \in Limiter : req[r].key[s] \in Key[s]
  <1>1. req[r] \in Call /\ Keyed(req[r])
    BY DEF RateTypes
  <1>2. req[r].at \in 1..2 /\ \A s \in Limiter : req[r].key[s] \in Key[s]
    BY <1>1 DEF Keyed
  <1>3. req[r].at \in 0..2
    BY SMTT(60), <1>2
  <1> QED
    BY <1>1, <1>2, <1>3, Limiters DEF Stage, KeyOf

\* A bucket has no less than no token and no more than a burst.
LEMMA TokensAre ==
  ASSUME NEW t \in Nat, NEW s \in Limiter, NEW b \in Bucket(s), b.last <= t
  PROVE  /\ TokensAt(s, b, t) \in 0..Burst[s]
         /\ b.tokens \in 0..Burst[s] /\ b.last \in Nat /\ b.key \in Key[s]
         /\ Burst[s] \in Nat /\ Burst[s] > 0
  <1>1. b.tokens \in 0..Burst[s] /\ b.last \in Nat /\ b.key \in Key[s]
    BY DEF Bucket
  <1>2. Burst[s] \in Nat \ {0}
    BY RateAssumption
  <1>3. Burst[s] \in Nat /\ Burst[s] > 0 /\ TokensAt(s, b, t) \in 0..Burst[s]
    BY SMTT(60), <1>1, <1>2 DEF TokensAt
  <1> QED
    BY <1>1, <1>3

\* The tokens a request asks for are those of this time.
LEMMA TokensNow ==
  ASSUME NEW s, NEW b
  PROVE  Tokens(s, b) = TokensAt(s, b, now)
  BY DEF Tokens, TokensAt

\* A bucket from which a token is taken.
LEMMA TakeIs ==
  ASSUME now \in Nat, NEW s \in Limiter, NEW b \in Bucket(s), b.last <= now, Enough(s, b)
  PROVE  /\ Take(s, b) \in Bucket(s) /\ Take(s, b).key = b.key
         /\ Take(s, b).tokens = TokensAt(s, b, now) - 1 /\ Take(s, b).last = now
         /\ Take(s, b).tokens < Burst[s]
  <1>1. Tokens(s, b) \in 0..Burst[s] /\ Tokens(s, b) >= 1
    BY TokensAre, TokensNow DEF Enough
  <1>2. Burst[s] \in Nat
    BY RateAssumption
  <1>3. Tokens(s, b) - 1 \in 0..Burst[s] /\ Tokens(s, b) - 1 < Burst[s]
    BY SMTT(60), <1>1, <1>2
  <1> QED
    BY <1>3, TokensNow DEF Take, Bucket

-----------------------------------------------------------------------------
(* The account of a key                                                    *)

\* The late calls are among the calls.
LEMMA LateFinite ==
  ASSUME NEW calls, NEW s, NEW k, NEW i
  PROVE  /\ IsFiniteSet(Late(calls, s, k, i)) /\ Cardinality(Late(calls, s, k, i)) \in Nat
         /\ Cardinality(Late(calls, s, k, i)) <= Cardinality(Request)
         /\ Cardinality(Request) \in Nat
  <1>1. Late(calls, s, k, i) \in SUBSET Request
    BY DEF Late
  <1> QED
    BY <1>1, RateAssumption, FS_Subset, FS_CardinalityType

\* The arithmetic of the bound.
LEMMA Products ==
  ASSUME NEW b \in Int, NEW c \in Int, NEW m \in Int, NEW t \in Int
  PROVE  /\ b * (m + 1) + t + (m + 1 - 1) * c = b * m + t + (m - 1) * c + b + c
         /\ b * 1 + t + (1 - 1) * c = b + t
  <1>1. b * m \in Int /\ (m - 1) * c \in Int
    BY SMTT(60)
  <1>2. b * (m + 1) = b * m + b /\ (m + 1 - 1) * c = (m - 1) * c + c
    BY SMTT(60)
  <1>3. b * 1 = b /\ (1 - 1) * c = 0
    BY SMTT(60)
  <1> QED
    BY SMTT(60), <1>1, <1>2, <1>3

\* What time adds to the bound.
LEMMA BoundOfTime ==
  ASSUME NEW s \in Limiter, NEW m \in Nat, NEW t \in Nat, NEW u \in Nat
  PROVE  Bound(s, m, t) \in Int /\ Bound(s, m, u) = Bound(s, m, t) + (u - t)
  <1>1. Burst[s] \in Nat
    BY RateAssumption
  <1>2. Cardinality(Request) \in Nat
    BY RateAssumption, FS_CardinalityType
  <1> DEFINE b == Burst[s] * m
             c == (m - 1) * (Cardinality(Request) - 1)
  <1>3. b \in Int /\ c \in Int
    BY SMTT(60), <1>1, <1>2
  <1>4. Bound(s, m, t) = b + t + c /\ Bound(s, m, u) = b + u + c
    BY DEF Bound
  <1> HIDE DEF b, c
  <1> QED
    BY SMTT(60), <1>3, <1>4

\* A sum that grows by no more than the time stays within the bound.
LEMMA WithinBound ==
  ASSUME NEW s \in Limiter, NEW m \in Nat, NEW t \in Nat, NEW u \in Nat,
         NEW x \in Int, NEW y \in Int, x <= Bound(s, m, t), y <= x + (u - t)
  PROVE  y <= Bound(s, m, u)
  <1>1. Bound(s, m, t) \in Int /\ Bound(s, m, u) = Bound(s, m, t) + (u - t)
    BY BoundOfTime
  <1> QED
    BY SMTT(60), <1>1

\* What a new bucket adds to the bound.
LEMMA BoundOfMade ==
  ASSUME NEW s \in Limiter, NEW m \in Nat, NEW t \in Nat
  PROVE  /\ Bound(s, m + 1, t) = Bound(s, m, t) + Burst[s] + (Cardinality(Request) - 1)
         /\ Bound(s, 1, t) = Burst[s] + t
  <1>1. Burst[s] \in Nat
    BY RateAssumption
  <1>2. Cardinality(Request) \in Nat
    BY RateAssumption, FS_CardinalityType
  <1> DEFINE b == Burst[s]
             c == Cardinality(Request) - 1
  <1>3. b \in Int /\ c \in Int /\ m \in Int /\ t \in Int
    BY SMTT(60), <1>1, <1>2
  <1>4. \A j : Bound(s, j, t) = b * j + t + (j - 1) * c
    BY DEF Bound
  <1> HIDE DEF b, c
  <1>5. Bound(s, m + 1, t) = Bound(s, m, t) + b + c
    BY SMTT(60), <1>3, <1>4, Products
  <1>6. Bound(s, 1, t) = b + t
    BY SMTT(60), <1>3, <1>4, Products
  <1> QED
    BY <1>5, <1>6 DEF b, c

\* The account of a key is kept when nothing is made for it and those that have
\* passed, its tokens and its late calls do not grow by more than the time.
LEMMA AccountMoves ==
  ASSUME NEW s \in Limiter, NEW k \in Key[s],
         NEW l \in Seq(Bucket(s)), NEW m \in Seq(Bucket(s)), NEW calls, NEW next,
         NEW n \in Nat, NEW o \in Nat, NEW t \in Nat, NEW u \in Nat,
         1..Len(l) \subseteq 1..Len(m), IndicesOf(m, k) = IndicesOf(l, k),
         IndicesOf(l, k) = {} => o = n,
         \A i \in 1..Len(l) : l[i].last <= t /\ m[i].last <= u,
         \A i \in 1..Len(l) : IsCurrent(l, k, i) =>
           o + TokensAt(s, m[i], u) + Cardinality(Late(next, s, k, i))
             <= n + TokensAt(s, l[i], t) + Cardinality(Late(calls, s, k, i)) + (u - t),
         Account(l, calls, n, t, s, k)
  PROVE  Account(m, next, o, u, s, k)
  <1>1. CASE IndicesOf(l, k) = {} /\ n = 0
    BY <1>1 DEF Account
  <1>2. ASSUME NEW i \in 1..Len(l), IsCurrent(l, k, i), Accounted(l, calls, n, t, s, k, i)
        PROVE  Account(m, next, o, u, s, k)
    <2>1. IsCurrent(m, k, i)
      BY <1>2 DEF IsCurrent
    <2>2. l[i] \in Bucket(s) /\ m[i] \in Bucket(s)
      BY Elements
    <2>3. TokensAt(s, l[i], t) \in 0..Burst[s] /\ TokensAt(s, m[i], u) \in 0..Burst[s] /\ Burst[s] \in Nat
      BY <2>2, TokensAre
    <2> DEFINE c == Cardinality(IndicesOf(l, k))
               x == TokensAt(s, l[i], t)
               y == TokensAt(s, m[i], u)
               a == Cardinality(Late(calls, s, k, i))
               b == Cardinality(Late(next, s, k, i))
    <2>4. c \in Nat /\ a \in Nat /\ b \in Nat
      BY IndicesFinite, LateFinite
    <2>6. n + x + a <= Bound(s, c, t)
      BY <1>2 DEF Accounted
    <2>7. o + y + b <= n + x + a + (u - t)
      BY <1>2
    <2> HIDE DEF c, x, y, a, b
    <2>5. n + x + a \in Int /\ o + y + b \in Int
      BY SMTT(60), <2>3, <2>4 DEF x, y
    <2>8. o + y + b <= Bound(s, c, u)
      BY <2>4, <2>5, <2>6, <2>7, WithinBound
    <2>9. Accounted(m, next, o, u, s, k, i)
      BY <2>8 DEF Accounted, c, y, b
    <2> QED
      BY <2>1, <2>9 DEF Account
  <1> QED
    BY <1>1, <1>2 DEF Account

\* The account of a key for which a bucket is made: the new one is full, and the
\* calls that hold another are not the one that made it.
LEMMA AccountOfMade ==
  ASSUME NEW s \in Limiter, NEW k \in Key[s], NEW l \in Seq(Bucket(s)), NEW b \in Bucket(s),
         NEW calls, NEW next, NEW n \in Nat, NEW t \in Nat, NEW r \in Request,
         b.key = k, b.tokens = Burst[s], b.last = t,
         \A i \in 1..Len(l) : l[i].last <= t,
         r \notin Late(next, s, k, Len(l) + 1),
         IndicesOf(l, k) = {} => Late(next, s, k, Len(l) + 1) = {},
         Account(l, calls, n, t, s, k)
  PROVE  Account(Append(l, b), next, n, t, s, k)
  <1> DEFINE m == Append(l, b)
             i == Len(l) + 1
             late == Late(next, s, k, i)
             c == Cardinality(IndicesOf(l, k))
  <1>1. IsCurrent(m, k, i) /\ IndicesOf(m, k) = IndicesOf(l, k) \cup {i} /\ i \notin IndicesOf(l, k)
    BY LongerIndices
  <1>2. Len(m) = i /\ m[i] = b /\ Len(l) \in Nat
    BY SMTT(60), LongerList
  <1>3. i \in 1..Len(m)
    BY SMTT(60), <1>2
  <1>4. IsFiniteSet(IndicesOf(l, k)) /\ c \in Nat
    BY IndicesFinite
  <1>5. Cardinality(IndicesOf(m, k)) = c + 1
    BY <1>1, <1>4, FS_AddElement
  <1>6. Burst[s] \in Nat /\ Burst[s] > 0
    BY RateAssumption, SMTT(60)
  <1>7. TokensAt(s, m[i], t) = Burst[s]
    <2>1. TokensAt(s, b, t) = Burst[s]
      BY SMTT(60), <1>6 DEF TokensAt
    <2> QED
      BY <1>2, <2>1
  <1>8. Cardinality(late) \in Nat /\ Cardinality(Request) \in Nat
    BY LateFinite
  <1>9. Cardinality(late) <= Cardinality(Request) - 1
    <2>1. late \in SUBSET (Request \ {r})
      BY DEF Late
    <2>2. IsFiniteSet(Request)
      BY RateAssumption
    <2>3. IsFiniteSet(Request \ {r}) /\ Cardinality(Request \ {r}) = Cardinality(Request) - 1
      BY <2>2, FS_RemoveElement
    <2> HIDE DEF late
    <2> DEFINE S == Request \ {r}
    <2>4. late \in SUBSET S /\ IsFiniteSet(S) /\ Cardinality(S) = Cardinality(Request) - 1
      BY <2>1, <2>3
    <2> HIDE DEF S
    <2>5. Cardinality(late) <= Cardinality(S)
      BY <2>4, FS_Subset
    <2> QED
      BY <2>4, <2>5
  <1>10. n + Burst[s] + Cardinality(late) <= Bound(s, c + 1, t)
    <2>1. CASE IndicesOf(l, k) = {} /\ n = 0
      <3>1. late = {}
        BY <2>1
      <3>2. Cardinality(late) = 0 /\ c = 0
        BY <2>1, <3>1, FS_EmptySet
      <3> HIDE DEF late, c
      <3>3. Bound(s, 1, t) = Burst[s] + t
        BY BoundOfMade
      <3>4. c + 1 = 1
        BY SMTT(60), <3>2
      <3>5. n + Burst[s] + Cardinality(late) <= Burst[s] + t
        BY SMTT(60), <1>6, <2>1, <3>2
      <3> QED
        BY <3>3, <3>4, <3>5
    <2>2. ASSUME NEW j \in 1..Len(l), IsCurrent(l, k, j), Accounted(l, calls, n, t, s, k, j)
          PROVE  n + Burst[s] + Cardinality(late) <= Bound(s, c + 1, t)
      <3>1. l[j] \in Bucket(s)
        BY Elements
      <3>2. TokensAt(s, l[j], t) \in 0..Burst[s]
        BY <3>1, TokensAre
      <3> DEFINE x == TokensAt(s, l[j], t)
                 a == Cardinality(Late(calls, s, k, j))
      <3>3. a \in Nat
        BY LateFinite
      <3>4. n + x + a <= Bound(s, c, t)
        BY <2>2 DEF Accounted
      <3> HIDE DEF late, c, x, a
      <3>5. Bound(s, c, t) \in Int
        BY <1>4, BoundOfTime
      <3>6. Bound(s, c + 1, t) = Bound(s, c, t) + Burst[s] + (Cardinality(Request) - 1)
        BY <1>4, BoundOfMade
      <3>7. x \in 0..Burst[s]
        BY <3>2 DEF x
      <3> QED
        BY SMTT(60), <1>6, <1>8, <1>9, <3>3, <3>4, <3>5, <3>6, <3>7
    <2> QED
      BY <2>1, <2>2 DEF Account
  <1>11. Accounted(m, next, n, t, s, k, i)
    BY <1>5, <1>7, <1>10 DEF Accounted
  <1> QED
    BY <1>1, <1>3, <1>11 DEF Account

-----------------------------------------------------------------------------
(* The steps                                                               *)

\* The limiters start without a bucket.
LEMMA RateInit == Init => RateInv
  <1> SUFFICES ASSUME Init PROVE RateInv
    OBVIOUS
  <1> USE DEF Init
  <1>1. 0 \in Nat /\ -1 \in Int /\ -1 <= 0 /\ 1..0 = {}
    BY SMTT(60)
  <1>2. IsMap(cache) /\ IsMap(served)
    BY DEF IsMap
  <1>3. \A s \in Limiter : bucket[s] = <<>>
    OBVIOUS
  <1>4. \A s \in Limiter : bucket[s] \in Seq(Bucket(s)) /\ Len(bucket[s]) = 0
    BY SMTT(60), <1>3
  <1>5. \A s \in Limiter : \A k \in Key[s] :
          /\ cache[s][k] = None
          /\ served[s][k] = [n |-> 0, last |-> -1]
    OBVIOUS
  <1>6. \A s \in Limiter : \A k \in Key[s] :
          served[s][k] \in Count /\ served[s][k].n = 0 /\ served[s][k].last = -1
    BY <1>1, <1>5 DEF Count
  <1>7. \A r \in Request : req[r] = Idle
    OBVIOUS
  <1>8. RateTypes
    BY <1>1, <1>2, <1>3, <1>4, <1>6, <1>7, IdleTyped DEF RateTypes
  <1>9. Cached
    BY <1>5 DEF Cached
  <1>10. Held
    BY <1>7, IdleTyped DEF Held, Holds
  <1>11. \A s \in Limiter : \A k : IndicesOf(bucket[s], k) = {}
    BY <1>1, <1>4 DEF IndicesOf
  <1>12. Accounts
    BY <1>6, <1>11 DEF Accounts, Account
  <1>13. Passed
    BY <1>1, <1>4, <1>6 DEF Passed, Recent
  <1> QED
    BY <1>8, <1>9, <1>10, <1>12, <1>13 DEF RateInv

\* What is known of the buckets of a limiter.
LEMMA ListOf ==
  ASSUME RateInv, NEW s \in Limiter
  PROVE  /\ bucket[s] \in Seq(Bucket(s)) /\ now \in Nat
         /\ \A i \in 1..Len(bucket[s]) : bucket[s][i].last <= now /\ bucket[s][i] \in Bucket(s)
         /\ \A k \in Key[s] : served[s][k].n \in Nat /\ served[s][k].last \in Int
  <1>1. bucket[s] \in Seq(Bucket(s)) /\ now \in Nat
    BY DEF RateInv, RateTypes
  <1>2. \A k \in Key[s] : served[s][k] \in Count
    BY DEF RateInv, RateTypes
  <1>3. \A i \in 1..Len(bucket[s]) : bucket[s][i].last <= now
    BY DEF RateInv, Passed, Recent
  <1> QED
    BY <1>1, <1>2, <1>3, Elements DEF Count

\* A call that goes on without a token holds, if any, the current bucket.
LEMMA CallStep ==
  ASSUME RateInv, NEW r \in Request, NEW w \in Call, Keyed(w),
         w.pc = "allow" =>
           IsCurrent(bucket[Chain[w.at]], w.key[Chain[w.at]], w.bucket),
         req' = [req EXCEPT ![r] = w], UNCHANGED <<now, cache, bucket, served>>
  PROVE  RateInv'
  <1>1. req \in [Request -> Call]
    BY DEF RateInv, RateTypes
  <1>2. req' \in [Request -> Call] /\ req'[r] = w /\ \A p \in Request : p # r => req'[p] = req[p]
    BY <1>1
  <1>3. now' = now /\ cache' = cache /\ bucket' = bucket /\ served' = served
    OBVIOUS
  <1>4. \A p \in Request : Keyed(req'[p])
    BY <1>2 DEF RateInv, RateTypes
  <1>5. RateTypes'
    BY <1>2, <1>3, <1>4 DEF RateInv, RateTypes
  <1>6. Cached'
    BY <1>3 DEF RateInv, Cached
  <1>7. Holds(bucket, w)
    BY DEF Holds, IsCurrent
  <1>8. Held'
    BY <1>2, <1>3, <1>7 DEF RateInv, Held
  <1>9. Passed'
    BY <1>3 DEF RateInv, Passed
  <1>10. ASSUME NEW s \in Limiter, NEW k \in Key[s]
         PROVE  Account(bucket[s], req', served[s][k].n, now, s, k)
    <2> DEFINE l == bucket[s]
               n == served[s][k].n
    <2>1. l \in Seq(Bucket(s)) /\ now \in Nat /\ n \in Nat /\ \A i \in 1..Len(l) : l[i].last <= now
                               /\ l[i] \in Bucket(s)
      BY ListOf
    <2>2. Account(l, req, n, now, s, k)
      BY DEF RateInv, Accounts
    <2> HIDE DEF l, n
    <2>3. ASSUME NEW i \in 1..Len(l), IsCurrent(l, k, i)
          PROVE  n + TokensAt(s, l[i], now) + Cardinality(Late(req', s, k, i))
                   <= n + TokensAt(s, l[i], now) + Cardinality(Late(req, s, k, i)) + (now - now)
      <3>1. ~ IsLate(w, s, k, i)
        <4>1. SUFFICES ASSUME IsLate(w, s, k, i) PROVE FALSE
          OBVIOUS
        <4>2. Chain[w.at] = s /\ w.key[s] = k /\ w.pc = "allow" /\ w.bucket # i
          BY <4>1 DEF IsLate
        <4>3. IsCurrent(l, k, w.bucket)
          BY <4>2 DEF l
        <4> QED
          BY <2>1, <2>3, <4>2, <4>3, CurrentIsUnique
      <3>2. Late(req', s, k, i) \in SUBSET Late(req, s, k, i)
        BY <1>2, <3>1 DEF Late
      <3> DEFINE a == Cardinality(Late(req', s, k, i))
                 b == Cardinality(Late(req, s, k, i))
                 x == TokensAt(s, l[i], now)
      <3>3. a <= b /\ a \in Nat /\ b \in Nat
        BY <3>2, LateFinite, FS_Subset
      <3>4. x \in 0..Burst[s]
        BY <2>1, TokensAre
      <3> HIDE DEF a, b, x
      <3>5. n + x + a <= n + x + b + (now - now)
        BY SMTT(60), <2>1, <3>3, <3>4
      <3> QED
        BY <3>5 DEF a, b, x
    <2>4. Account(l, req', n, now, s, k)
      BY <2>1, <2>2, <2>3, AccountMoves
    <2> QED
      BY <2>4 DEF l, n
  <1>11. Accounts'
    BY <1>3, <1>10 DEF Accounts
  <1> QED
    BY <1>5, <1>6, <1>8, <1>9, <1>11 DEF RateInv

\* Arrive, Hit, Miss and Blocked.
LEMMA CallSteps ==
  ASSUME RateInv, NEW r \in Request,
         \/ \E d \in Key["domain"], i \in Key["source_ip"] :
              Arrive(r, [s \in Limiter |-> IF s = "domain" THEN d ELSE i])
         \/ Hit(r) \/ Miss(r) \/ Blocked(r)
  PROVE  RateInv'
  <1>0. RateTypes /\ req[r] \in Call /\ Keyed(req[r])
    BY DEF RateInv, RateTypes
  <1>1. ASSUME NEW d \in Key["domain"], NEW i \in Key["source_ip"],
               Arrive(r, [s \in Limiter |-> IF s = "domain" THEN d ELSE i])
        PROVE  RateInv'
    <2> DEFINE key == [s \in Limiter |-> IF s = "domain" THEN d ELSE i]
               q == [Idle EXCEPT !.key = key]
               w == Advance(q, 0)
    <2>1. \A s \in Limiter : key[s] \in Key[s]
      BY DEF Limiter
    <2>2. key \in [Limiter -> AnyKey]
      BY <2>1 DEF AnyKey
    <2>3. Arrive(r, key)
      BY <1>1
    <2> HIDE DEF key
    <2>4. q \in Call /\ q.key = key
      BY <2>2, IdleTyped DEF Call
    <2>5. 0 \in 0..2
      BY SMTT(60)
    <2>6. req' = [req EXCEPT ![r] = w] /\ UNCHANGED <<now, cache, bucket, served>>
      BY <2>3 DEF Arrive
    <2> HIDE DEF q
    <2>7. w \in Call /\ Keyed(w) /\ w.pc # "allow"
      BY <2>1, <2>4, <2>5, AdvanceIs
    <2> HIDE DEF w
    <2> QED
      BY <2>6, <2>7, CallStep
  <1>2. CASE Hit(r)
    <2> DEFINE s == Stage(r)
               k == KeyOf(r)
               c == cache[s][k].bucket
               w == [req[r] EXCEPT !.pc = "allow", !.bucket = c]
    <2>1. req[r].pc = "get" /\ cache[s][k] # None
      BY <1>2 DEF Hit, Fresh
    <2>2. /\ s \in Limiter /\ s = Chain[req[r].at] /\ k \in Key[s] /\ k = req[r].key[s]
          /\ req[r].at \in 1..2 /\ \A t \in Limiter : req[r].key[t] \in Key[t]
      BY <1>0, <2>1, CallIsAt
    <2>3. req' = [req EXCEPT ![r] = w] /\ UNCHANGED <<now, cache, bucket, served>>
      BY <1>2 DEF Hit
    <2>4. IsCurrent(bucket[s], k, c)
      BY <2>1, <2>2 DEF RateInv, Cached
    <2>5. Len(bucket[s]) \in Nat /\ c \in 1..Len(bucket[s])
      BY <2>2, <2>4, ListOf, Elements DEF IsCurrent, IndicesOf
    <2> HIDE DEF s, k, c
    <2>6. c \in Nat
      BY SMTT(60), <2>5
    <2>7. w \in Call /\ w.pc = "allow" /\ w.at = req[r].at /\ w.key = req[r].key /\ w.bucket = c
      BY <1>0, <2>6 DEF Call
    <2> HIDE DEF w
    <2>8. Keyed(w)
      BY <2>2, <2>7 DEF Keyed
    <2>9. IsCurrent(bucket[Chain[w.at]], w.key[Chain[w.at]], w.bucket)
      BY <2>2, <2>4, <2>7
    <2> QED
      BY <2>3, <2>7, <2>8, <2>9, CallStep
  <1>3. CASE Miss(r)
    <2> DEFINE w == [req[r] EXCEPT !.pc = "fetch"]
    <2>1. req' = [req EXCEPT ![r] = w] /\ UNCHANGED <<now, cache, bucket, served>> /\ req[r].pc = "get"
      BY <1>3 DEF Miss
    <2>2. w \in Call /\ w.pc = "fetch" /\ w.at = req[r].at /\ w.key = req[r].key
      BY <1>0 DEF Call
    <2> HIDE DEF w
    <2>3. Keyed(w)
      BY <1>0, <2>1, <2>2 DEF Keyed
    <2> QED
      BY <2>1, <2>2, <2>3, CallStep
  <1>4. CASE Blocked(r)
    <2> DEFINE w == IF Enforce[Stage(r)] THEN Idle ELSE Advance(req[r], req[r].at)
    <2>1. req' = [req EXCEPT ![r] = w] /\ UNCHANGED <<now, cache, bucket, served>> /\ req[r].pc = "allow"
      BY <1>4 DEF Blocked
    <2>2. req[r].at \in 0..2 /\ \A t \in Limiter : req[r].key[t] \in Key[t]
      BY <1>0, <2>1, CallIsAt
    <2>3. w \in Call /\ Keyed(w) /\ w.pc # "allow"
      BY <1>0, <2>2, IdleTyped, AdvanceIs
    <2> HIDE DEF w
    <2> QED
      BY <2>1, <2>3, CallStep
  <1> QED
    BY <1>1, <1>2, <1>3, <1>4

\* The cache drops a bucket: calls that hold it keep it.
LEMMA EvictStep ==
  ASSUME RateInv, NEW s \in Limiter, NEW k \in Key[s], Evict(s, k)
  PROVE  RateInv'
  <1>1. now' = now /\ bucket' = bucket /\ req' = req /\ served' = served
    BY DEF Evict
  <1>2. cache' = Put(cache, s, k, None)
    BY DEF Evict, Put
  <1>3. IsMap(cache)
    BY DEF RateInv, RateTypes
  <1>8. Written(cache', cache, s, k, None)
    BY <1>2, <1>3, WrittenMap
  <1>4. /\ IsMap(cache') /\ cache'[s][k] = None
        /\ \A t \in Limiter : \A j \in Key[t] : t # s \/ j # k => cache'[t][j] = cache[t][j]
    BY <1>8 DEF Written
  <1>5. RateTypes'
    BY <1>1, <1>4 DEF RateInv, RateTypes
  <1>6. Cached'
    <2>1. ASSUME NEW t \in Limiter, NEW j \in Key[t]
          PROVE  cache'[t][j] = None \/ IsCurrent(bucket[t], j, cache'[t][j].bucket)
      <3>1. CASE t = s /\ j = k
        BY <1>4, <3>1
      <3>2. CASE t # s \/ j # k
        <4>1. cache'[t][j] = cache[t][j]
          BY <1>4, <3>2
        <4> QED
          BY <4>1 DEF RateInv, Cached
      <3> QED
        BY <3>1, <3>2
    <2> QED
      BY <1>1, <2>1 DEF Cached
  <1>7. Held' /\ Accounts' /\ Passed'
    BY <1>1 DEF RateInv, Held, Accounts, Passed
  <1> QED
    BY <1>5, <1>6, <1>7 DEF RateInv

\* A unit of time adds one token to a bucket at most.
LEMMA TokensGrow ==
  ASSUME NEW s \in Limiter, NEW b \in Bucket(s), NEW t \in Nat, b.last <= t
  PROVE  TokensAt(s, b, t + 1) <= TokensAt(s, b, t) + 1 /\ b.last <= t + 1
  <1>1. b.tokens \in 0..Burst[s] /\ b.last \in Nat /\ Burst[s] \in Nat
    BY TokensAre
  <1> QED
    BY SMTT(60), <1>1 DEF TokensAt

\* Time passes.
LEMMA TickStep ==
  ASSUME RateInv, Tick
  PROVE  RateInv'
  <1>1. now' = now + 1 /\ bucket' = bucket /\ req' = req /\ served' = served /\ cache' = cache
    BY DEF Tick
  <1>2. now \in Nat
    BY DEF RateInv, RateTypes
  <1>3. now + 1 \in Nat /\ \A i \in Int : i <= now => i <= now + 1
    BY SMTT(60), <1>2
  <1>4. RateTypes' /\ Cached' /\ Held'
    BY <1>1, <1>3 DEF RateInv, RateTypes, Cached, Held
  <1>5. ASSUME NEW s \in Limiter PROVE Recent(bucket[s], served[s], now + 1, s)
    <2>1. ASSUME NEW i \in 1..Len(bucket[s])
          PROVE  bucket[s][i].last <= now + 1
      <3>1. bucket[s][i].last <= now /\ bucket[s][i] \in Bucket(s)
        BY ListOf
      <3> QED
        BY <1>2, <3>1, TokensGrow
    <2> QED
      BY <2>1 DEF RateInv, Passed, Recent
  <1>6. \A s \in Limiter : \A k \in Key[s] : served[s][k].last <= now + 1
    BY <1>3, ListOf DEF RateInv, Passed
  <1>7. Passed'
    BY <1>1, <1>5, <1>6 DEF Passed
  <1>8. ASSUME NEW s \in Limiter, NEW k \in Key[s]
        PROVE  Account(bucket[s], req, served[s][k].n, now + 1, s, k)
    <2> DEFINE l == bucket[s]
               n == served[s][k].n
    <2>1. l \in Seq(Bucket(s)) /\ n \in Nat /\ \A i \in 1..Len(l) : l[i].last <= now /\ l[i] \in Bucket(s)
      BY ListOf
    <2>2. Account(l, req, n, now, s, k)
      BY DEF RateInv, Accounts
    <2> HIDE DEF l, n
    <2>3. \A i \in 1..Len(l) : l[i].last <= now + 1
      BY <1>2, <2>1, TokensGrow
    <2>4. ASSUME NEW i \in 1..Len(l), IsCurrent(l, k, i)
          PROVE  n + TokensAt(s, l[i], now + 1) + Cardinality(Late(req, s, k, i))
                   <= n + TokensAt(s, l[i], now) + Cardinality(Late(req, s, k, i)) + ((now + 1) - now)
      <3> DEFINE a == Cardinality(Late(req, s, k, i))
                 x == TokensAt(s, l[i], now)
                 y == TokensAt(s, l[i], now + 1)
      <3>1. a \in Nat
        BY LateFinite
      <3>2. x \in 0..Burst[s] /\ y \in 0..Burst[s] /\ y <= x + 1
        BY <1>2, <1>3, <2>1, <2>3, TokensAre, TokensGrow
      <3> HIDE DEF a, x, y
      <3>3. n + y + a <= n + x + a + ((now + 1) - now)
        BY SMTT(60), <1>2, <2>1, <3>1, <3>2
      <3> QED
        BY <3>3 DEF a, x, y
    <2>5. Account(l, req, n, now + 1, s, k)
      BY <1>2, <1>3, <2>1, <2>2, <2>3, <2>4, AccountMoves
    <2> QED
      BY <2>5 DEF l, n
  <1>9. Accounts'
    BY <1>1, <1>8 DEF Accounts
  <1> QED
    BY <1>4, <1>7, <1>9 DEF RateInv

\* Call r makes the bucket b for its key k and goes on as w.
Fetched(r, s, k, b, w) ==
  /\ s = Chain[req[r].at] /\ k = req[r].key[s] /\ req[r].pc = "fetch"
  /\ b.key = k /\ b.tokens = Burst[s] /\ b.last = now
  /\ Keyed(w) /\ w.pc = "allow" /\ w.at = req[r].at /\ w.key = req[r].key
  /\ w.bucket = Len(bucket[s]) + 1
  /\ bucket' = [bucket EXCEPT ![s] = Append(bucket[s], b)]
  /\ cache' = Put(cache, s, k, [bucket |-> Len(bucket[s]) + 1, expires |-> now + Duration])
  /\ req' = [req EXCEPT ![r] = w]
  /\ now' = now /\ served' = served

\* The bucket of a call that misses.
LEMMA FetchIs ==
  ASSUME RateInv, NEW r \in Request, Fetch(r)
  PROVE  \E s \in Limiter : \E k \in Key[s] : \E b \in Bucket(s), w \in Call : Fetched(r, s, k, b, w)
  <1> DEFINE s == Stage(r)
             k == KeyOf(r)
             n == Len(bucket[s]) + 1
             b == [key |-> k, tokens |-> Burst[s], last |-> now]
             w == [req[r] EXCEPT !.pc = "allow", !.bucket = n]
  <1>1. req[r].pc = "fetch"
    BY DEF Fetch
  <1>2. /\ req[r] \in Call /\ s \in Limiter /\ s = Chain[req[r].at] /\ k \in Key[s] /\ k = req[r].key[s]
        /\ req[r].at \in 1..2 /\ \A t \in Limiter : req[r].key[t] \in Key[t]
    BY <1>1, CallIsAt DEF RateInv
  <1>3. /\ bucket' = [bucket EXCEPT ![s] = Append(bucket[s], b)]
        /\ cache' = [cache EXCEPT ![s][k] = [bucket |-> n, expires |-> now + Duration]]
        /\ req' = [req EXCEPT ![r] = w]
        /\ now' = now /\ served' = served
    BY DEF Fetch
  <1>4. bucket[s] \in Seq(Bucket(s)) /\ now \in Nat
    BY <1>2, ListOf
  <1>5. Len(bucket[s]) \in Nat
    BY <1>4, Elements
  <1>6. n \in Nat
    BY SMTT(60), <1>5
  <1>7. Burst[s] \in Nat
    BY <1>2, RateAssumption
  <1>8. Burst[s] \in 0..Burst[s]
    BY SMTT(60), <1>7
  <1> HIDE DEF s, k, n
  <1>9. b \in Bucket(s) /\ b.key = k /\ b.tokens = Burst[s] /\ b.last = now
    BY <1>2, <1>4, <1>8 DEF Bucket
  <1>10. w \in Call /\ w.pc = "allow" /\ w.at = req[r].at /\ w.key = req[r].key /\ w.bucket = n
    BY <1>2, <1>6 DEF Call
  <1>11. cache' = Put(cache, s, k, [bucket |-> n, expires |-> now + Duration])
    BY <1>3 DEF Put
  <1> HIDE DEF b, w
  <1>12. Keyed(w)
    BY <1>2, <1>10 DEF Keyed
  <1> QED
    BY <1>1, <1>2, <1>3, <1>9, <1>10, <1>11, <1>12 DEF n, Fetched

\* A call makes a bucket and puts it in the cache.
LEMMA FetchStep ==
  ASSUME RateInv, NEW r \in Request, Fetch(r)
  PROVE  RateInv'
  <1>1. PICK s \in Limiter : \E k \in Key[s] : \E b \in Bucket(s), w \in Call : Fetched(r, s, k, b, w)
    BY FetchIs
  <1>a. PICK k \in Key[s], b \in Bucket(s), w \in Call : Fetched(r, s, k, b, w)
    BY <1>1
  <1>2. /\ s = Chain[req[r].at] /\ k = req[r].key[s] /\ req[r].pc = "fetch"
        /\ b.key = k /\ b.tokens = Burst[s] /\ b.last = now
        /\ Keyed(w) /\ w.pc = "allow" /\ w.at = req[r].at /\ w.key = req[r].key
        /\ w.bucket = Len(bucket[s]) + 1
    BY <1>a DEF Fetched
  <1>b. /\ bucket' = [bucket EXCEPT ![s] = Append(bucket[s], b)]
        /\ cache' = Put(cache, s, k, [bucket |-> Len(bucket[s]) + 1, expires |-> now + Duration])
        /\ req' = [req EXCEPT ![r] = w]
    BY <1>a DEF Fetched
  <1> DEFINE l == bucket[s]
             n == Len(l) + 1
             m == Append(l, b)
             item == [bucket |-> n, expires |-> now + Duration]
  <1>3. /\ l \in Seq(Bucket(s)) /\ now \in Nat
        /\ \A i \in 1..Len(l) : l[i].last <= now /\ l[i] \in Bucket(s)
    BY ListOf
  <1>4. m \in Seq(Bucket(s)) /\ Len(m) = n /\ m[n] = b /\ \A i \in 1..Len(l) : m[i] = l[i]
    BY SMTT(60), <1>3, LongerList
  <1>5. 1..Len(m) = (1..Len(l)) \cup {n}
    <2>1. Len(l) \in Nat
      BY <1>3, Elements
    <2> QED
      BY SMTT(60), <1>4, <2>1
  <1>6. /\ \A j : j # k => IndicesOf(m, j) = IndicesOf(l, j)
        /\ IndicesOf(m, k) = IndicesOf(l, k) \cup {n}
        /\ IsCurrent(m, k, n)
    <2>1. IndicesOf(m, b.key) = IndicesOf(l, b.key) \cup {n} /\ IsCurrent(m, b.key, n)
      BY <1>3, LongerIndices
    <2>2. ASSUME NEW j, j # b.key PROVE IndicesOf(m, j) = IndicesOf(l, j)
      BY <1>4, <1>5, <2>2 DEF IndicesOf
    <2> QED
      BY <1>2, <2>1, <2>2
  <1>7. bucket = [t \in Limiter |-> bucket[t]]
    BY DEF RateInv, RateTypes
  <1>8. bucket' = [t \in Limiter |-> bucket'[t]] /\ bucket'[s] = m
          /\ \A t \in Limiter : t # s => bucket'[t] = bucket[t]
    BY <1>b, <1>7
  <1>9. req \in [Request -> Call]
    BY DEF RateInv, RateTypes
  <1>10. req' \in [Request -> Call] /\ req'[r] = w /\ \A p \in Request : p # r => req'[p] = req[p]
    BY <1>b, <1>9
  <1>11. Written(cache', cache, s, k, item)
    BY <1>b, WrittenMap DEF RateInv, RateTypes
  <1>12. item.bucket = n
    OBVIOUS
  <1>13. IsMap(cache') /\ cache'[s][k].bucket = n
         /\ \A t \in Limiter : \A j \in Key[t] : t # s \/ j # k => cache'[t][j] = cache[t][j]
    BY <1>11, <1>12 DEF Written
  <1>14. now' = now /\ served' = served
    BY <1>a DEF Fetched
  <1> HIDE DEF m, n, l, item
  <1>15. RateTypes'
    <2>1. \A t \in Limiter : bucket'[t] \in Seq(Bucket(t))
      BY <1>4, <1>8 DEF RateInv, RateTypes
    <2>2. \A p \in Request : Keyed(req'[p])
      BY <1>2, <1>10 DEF RateInv, RateTypes
    <2> QED
      BY <1>8, <1>10, <1>13, <1>14, <2>1, <2>2 DEF RateInv, RateTypes
  <1>16. \A t \in Limiter : \A j \in Key[t] : t # s \/ j # k => IndicesOf(bucket'[t], j) = IndicesOf(bucket[t], j)
    BY <1>6, <1>8 DEF l
  <1>17. Cached'
    <2>1. ASSUME NEW t \in Limiter, NEW j \in Key[t]
          PROVE  cache'[t][j] = None \/ IsCurrent(bucket'[t], j, cache'[t][j].bucket)
      <3>1. CASE t = s /\ j = k
        BY <1>6, <1>8, <1>13, <3>1
      <3>2. CASE t # s \/ j # k
        <4>1. cache'[t][j] = cache[t][j] /\ IndicesOf(bucket'[t], j) = IndicesOf(bucket[t], j)
          BY <1>13, <1>16, <3>2
        <4> QED
          BY <4>1 DEF RateInv, Cached, IsCurrent
      <3> QED
        BY <3>1, <3>2
    <2> QED
      BY <2>1 DEF Cached
  <1>18. \A t \in Limiter : \A j : IndicesOf(bucket[t], j) \subseteq IndicesOf(bucket'[t], j)
    BY <1>6, <1>8 DEF l
  <1>19. Held'
    <2>1. Holds(bucket', w)
      BY <1>2, <1>6, <1>8 DEF Holds, IsCurrent, n, l
    <2>2. ASSUME NEW p \in Request PROVE Holds(bucket', req[p])
      <3>1. CASE req[p].pc # "allow"
        BY <3>1 DEF Holds
      <3>2. CASE req[p].pc = "allow"
        <4>1. Chain[req[p].at] \in Limiter
          BY <3>2, CallIsAt DEF RateInv
        <4>2. Holds(bucket, req[p])
          BY DEF RateInv, Held
        <4> QED
          BY <1>18, <4>1, <4>2 DEF Holds
      <3> QED
        BY <3>1, <3>2
    <2> QED
      BY <1>10, <2>1, <2>2 DEF Held
  <1>20. Passed'
    <2>1. b.last <= now /\ ~ b.tokens < Burst[s]
      <3>1. Burst[s] \in Nat /\ b.last = now /\ b.tokens = Burst[s]
        BY <1>2, RateAssumption
      <3>2. now <= now /\ ~ Burst[s] < Burst[s]
        BY SMTT(60), <1>3, <3>1
      <3> QED
        BY <3>1, <3>2
    <2>2. Recent(m, served[s], now, s)
      BY <1>4, <1>5, <2>1 DEF RateInv, Passed, Recent, l
    <2> QED
      BY <1>8, <1>14, <2>2 DEF RateInv, Passed
  <1>21. ASSUME NEW t \in Limiter, NEW j \in Key[t], t # s \/ j # k
         PROVE  Account(bucket'[t], req', served[t][j].n, now, t, j)
    <2> DEFINE h == bucket[t]
               g == bucket'[t]
               o == served[t][j].n
    <2>1. h \in Seq(Bucket(t)) /\ g \in Seq(Bucket(t)) /\ now \in Nat /\ o \in Nat
          /\ \A i \in 1..Len(h) : h[i].last <= now
      BY <1>15, ListOf DEF RateTypes
    <2>2. Account(h, req, o, now, t, j)
      BY DEF RateInv, Accounts
    <2>3. IndicesOf(g, j) = IndicesOf(h, j)
      BY <1>16, <1>21
    <2>4. 1..Len(h) \subseteq 1..Len(g) /\ \A i \in 1..Len(h) : g[i] = h[i]
      BY <1>4, <1>5, <1>8 DEF l
    <2>5. ~ IsLate(w, t, j, 0) /\ ~ IsLate(req[r], t, j, 0) /\ \A i : ~ IsLate(w, t, j, i) /\ ~ IsLate(req[r], t, j, i)
      BY <1>2, <1>21 DEF IsLate
    <2>6. \A i : Late(req', t, j, i) = Late(req, t, j, i)
      BY <1>10, <2>5 DEF Late
    <2> HIDE DEF h, g, o
    <2>7. ASSUME NEW i \in 1..Len(h)
          PROVE  o + TokensAt(t, g[i], now) + Cardinality(Late(req', t, j, i))
                   <= o + TokensAt(t, h[i], now) + Cardinality(Late(req, t, j, i)) + (now - now)
      <3> DEFINE a == Cardinality(Late(req, t, j, i))
                 x == TokensAt(t, h[i], now)
      <3>1. a \in Nat /\ h[i] \in Bucket(t)
        BY <2>1, LateFinite, Elements
      <3>2. x \in 0..Burst[t]
        BY <2>1, <3>1, TokensAre
      <3>3. TokensAt(t, g[i], now) = x /\ Cardinality(Late(req', t, j, i)) = a
        BY <2>4, <2>6
      <3> HIDE DEF a, x
      <3>4. o + x + a <= o + x + a + (now - now)
        BY SMTT(60), <2>1, <3>1, <3>2
      <3> QED
        BY <3>3, <3>4 DEF a, x
    <2>8. \A i \in 1..Len(h) : h[i].last <= now /\ g[i].last <= now
      BY <2>1, <2>4
    <2>9. Account(g, req', o, now, t, j)
      BY <2>1, <2>2, <2>3, <2>4, <2>7, <2>8, AccountMoves
    <2> QED
      BY <2>9 DEF g, o
  <1>22. Account(m, req', served[s][k].n, now, s, k)
    <2>1. Account(l, req, served[s][k].n, now, s, k) /\ served[s][k].n \in Nat
      BY ListOf DEF RateInv, Accounts, l
    <2>2. r \notin Late(req', s, k, n)
      BY <1>2, <1>10 DEF Late, IsLate, n, l
    <2>3. IndicesOf(l, k) = {} => Late(req', s, k, n) = {}
      <3>1. SUFFICES ASSUME NEW p \in Late(req', s, k, n) PROVE IndicesOf(l, k) # {}
        OBVIOUS
      <3>2. p \in Request /\ IsLate(req'[p], s, k, n)
        BY DEF Late
      <3>3. req'[p] = req[p]
        BY <1>10, <2>2, <3>1, <3>2
      <3>4. IsLate(req[p], s, k, n) /\ Holds(bucket, req[p])
        BY <3>2, <3>3 DEF RateInv, Held
      <3> QED
        BY <3>4 DEF IsLate, Holds, l
    <2>4. Account(Append(l, b), req', served[s][k].n, now, s, k)
      BY <1>2, <1>3, <2>1, <2>2, <2>3, AccountOfMade DEF n
    <2> QED
      BY <2>4 DEF m
  <1>23. Accounts'
    <2>1. ASSUME NEW t \in Limiter, NEW j \in Key[t]
          PROVE  Account(bucket'[t], req', served[t][j].n, now, t, j)
      BY <1>8, <1>21, <1>22
    <2> QED
      BY <1>14, <2>1 DEF Accounts
  <1> QED
    BY <1>15, <1>17, <1>19, <1>20, <1>23 DEF RateInv

\* Call r takes a token of bucket i, which is the bucket c afterwards, and goes on as w.
Took(r, s, k, i, c, w) ==
  /\ s = Chain[req[r].at] /\ k = req[r].key[s] /\ i = req[r].bucket /\ req[r].pc = "allow"
  /\ i \in IndicesOf(bucket[s], k)
  /\ c.key = k /\ c.tokens = TokensAt(s, bucket[s][i], now) - 1 /\ c.last = now
  /\ TokensAt(s, bucket[s][i], now) >= 1
  /\ Keyed(w) /\ w.pc # "allow"
  /\ bucket' = Put(bucket, s, i, c)
  /\ served' = Put(served, s, k, [n |-> served[s][k].n + 1, last |-> now])
  /\ req' = [req EXCEPT ![r] = w]
  /\ now' = now /\ cache' = cache

\* The bucket of a call that is admitted.
LEMMA AllowedIs ==
  ASSUME RateInv, NEW r \in Request, Allowed(r)
  PROVE  \E s \in Limiter : \E k \in Key[s], c \in Bucket(s), w \in Call :
           Took(r, s, k, req[r].bucket, c, w)
  <1> DEFINE s == Stage(r)
             k == KeyOf(r)
             i == req[r].bucket
             b == bucket[s][i]
             c == Take(s, b)
             w == Advance(req[r], req[r].at)
  <1>1. req[r].pc = "allow" /\ Enough(s, b)
    BY DEF Allowed
  <1>2. /\ req[r] \in Call /\ s \in Limiter /\ s = Chain[req[r].at] /\ k \in Key[s] /\ k = req[r].key[s]
        /\ req[r].at \in 0..2 /\ \A t \in Limiter : req[r].key[t] \in Key[t]
    BY <1>1, CallIsAt DEF RateInv
  <1>3. i \in IndicesOf(bucket[s], k)
    BY <1>1, <1>2 DEF RateInv, Held, Holds
  <1>4. now \in Nat /\ b \in Bucket(s) /\ b.last <= now /\ b.key = k
    BY <1>2, <1>3, ListOf DEF IndicesOf
  <1>5. /\ bucket' = [bucket EXCEPT ![s][i] = c]
        /\ served' = [served EXCEPT ![s][k] = [n |-> served[s][k].n + 1, last |-> now]]
        /\ req' = [req EXCEPT ![r] = w]
        /\ now' = now /\ cache' = cache
    BY DEF Allowed
  <1>6. TokensAt(s, b, now) >= 1
    BY <1>1, TokensNow DEF Enough
  <1> HIDE DEF s, k, i, b
  <1>7. c \in Bucket(s) /\ c.key = k /\ c.tokens = TokensAt(s, b, now) - 1 /\ c.last = now
    BY <1>1, <1>2, <1>4, TakeIs
  <1>8. w \in Call /\ Keyed(w) /\ w.pc # "allow"
    BY <1>2, AdvanceIs
  <1> HIDE DEF c, w
  <1>9. bucket' = Put(bucket, s, i, c)
    BY <1>5 DEF Put
  <1>10. served' = Put(served, s, k, [n |-> served[s][k].n + 1, last |-> now])
    BY <1>5 DEF Put
  <1>11. Took(r, s, k, i, c, w)
    BY <1>1, <1>2, <1>3, <1>5, <1>6, <1>7, <1>8, <1>9, <1>10 DEF Took, i, b
  <1> QED
    BY <1>2, <1>7, <1>8, <1>11 DEF i

\* A call that is admitted takes a token, of the current bucket or of the one
\* that it has held since before that was made.
LEMMA AllowedStep ==
  ASSUME RateInv, NEW r \in Request, Allowed(r)
  PROVE  RateInv'
  <1> DEFINE i == req[r].bucket
  <1>1. PICK s \in Limiter : \E k \in Key[s], c \in Bucket(s), w \in Call : Took(r, s, k, i, c, w)
    BY AllowedIs
  <1>2. PICK k \in Key[s], c \in Bucket(s), w \in Call : Took(r, s, k, i, c, w)
    BY <1>1
  <1> DEFINE l == bucket[s]
             x == TokensAt(s, l[i], now)
             m == [l EXCEPT ![i] = c]
             count == [n |-> served[s][k].n + 1, last |-> now]
  <1>3. /\ s = Chain[req[r].at] /\ k = req[r].key[s] /\ req[r].pc = "allow"
        /\ i \in IndicesOf(l, k)
        /\ c.key = k /\ c.tokens = x - 1 /\ c.last = now /\ x >= 1
        /\ Keyed(w) /\ w.pc # "allow" /\ now' = now /\ cache' = cache
    BY <1>2 DEF Took
  <1>4. i \in 1..Len(l) /\ l[i].key = k
    BY <1>3 DEF IndicesOf
  <1>5. /\ l \in Seq(Bucket(s)) /\ now \in Nat
        /\ \A j \in 1..Len(l) : l[j].last <= now /\ l[j] \in Bucket(s)
    BY ListOf
  <1>6. m \in Seq(Bucket(s)) /\ Len(m) = Len(l) /\ m[i] = c
          /\ \A j \in 1..Len(l) : j # i => m[j] = l[j]
    <2>1. m \in Seq(Bucket(s)) /\ Changed(m, l, i, c)
      <3> HIDE DEF l, i
      <3> QED
        BY <1>4, <1>5, ChangedList
    <2> HIDE DEF l, i, m
    <2> QED
      BY <2>1 DEF Changed
  <1>7. bucket = [t \in Limiter |-> bucket[t]]
    BY DEF RateInv, RateTypes
  <1>8. bucket' = [t \in Limiter |-> bucket'[t]] /\ bucket'[s] = m
          /\ \A t \in Limiter : t # s => bucket'[t] = bucket[t]
    <2>1. bucket' = [bucket EXCEPT ![s] = m]
      BY <1>2 DEF Took, Put
    <2> HIDE DEF m
    <2> QED
      BY <1>7, <2>1
  <1>9. req \in [Request -> Call]
    BY DEF RateInv, RateTypes
  <1>10. req' \in [Request -> Call] /\ req'[r] = w /\ \A p \in Request : p # r => req'[p] = req[p]
    <2>1. req' = [req EXCEPT ![r] = w]
      BY <1>2 DEF Took
    <2> QED
      BY <1>9, <2>1
  <1>11. served[s][k] \in Count
    BY DEF RateInv, RateTypes
  <1>12. served[s][k].n \in Nat
    BY <1>11 DEF Count
  <1>13. served[s][k].n + 1 \in Nat /\ now \in Int /\ now <= now
    BY SMTT(60), <1>5, <1>12
  <1>14. count \in Count /\ count.n = served[s][k].n + 1 /\ count.last = now
    BY <1>13 DEF Count
  <1>15. Written(served', served, s, k, count)
    <2>1. served' = Put(served, s, k, count)
      BY <1>2 DEF Took
    <2>2. IsMap(served)
      BY DEF RateInv, RateTypes
    <2> QED
      BY <2>1, <2>2, WrittenMap
  <1> HIDE DEF i, l, x, m, count
  <1>16. IsMap(served') /\ served'[s][k] = count
         /\ \A t \in Limiter : \A j \in Key[t] : t # s \/ j # k => served'[t][j] = served[t][j]
    BY <1>15 DEF Written
  <1>17. RateTypes'
    <2>1. \A t \in Limiter : bucket'[t] \in Seq(Bucket(t))
      BY <1>6, <1>8 DEF RateInv, RateTypes
    <2>2. \A p \in Request : Keyed(req'[p])
      BY <1>3, <1>10 DEF RateInv, RateTypes
    <2>3. \A t \in Limiter : \A j \in Key[t] : served'[t][j] \in Count
      BY <1>14, <1>16 DEF RateInv, RateTypes
    <2> QED
      BY <1>3, <1>8, <1>10, <1>16, <2>1, <2>2, <2>3 DEF RateInv, RateTypes
  <1>18. \A t \in Limiter : \A j : IndicesOf(bucket'[t], j) = IndicesOf(bucket[t], j)
    <2>1. \A j \in 1..Len(l) : m[j].key = l[j].key
      BY <1>3, <1>4, <1>6
    <2>2. \A j : IndicesOf(m, j) = IndicesOf(l, j)
      BY <1>6, <2>1, SameIndices
    <2> QED
      BY <1>8, <2>2 DEF l
  <1>19. Cached'
    BY <1>3, <1>18 DEF RateInv, Cached, IsCurrent
  <1>20. Held'
    <2>1. ASSUME NEW p \in Request PROVE Holds(bucket', req'[p])
      <3>1. CASE req'[p].pc # "allow"
        BY <3>1 DEF Holds
      <3>2. CASE req'[p].pc = "allow"
        <4>1. req'[p] = req[p]
          BY <1>3, <1>10, <3>2
        <4>2. Chain[req[p].at] \in Limiter
          BY <3>2, <4>1, CallIsAt DEF RateInv
        <4>3. Holds(bucket, req[p])
          BY DEF RateInv, Held
        <4> QED
          BY <1>18, <4>1, <4>2, <4>3 DEF Holds
      <3> QED
        BY <3>1, <3>2
    <2> QED
      BY <2>1 DEF Held
  <1>21. Passed'
    <2>1. \A j \in Key[s] : served'[s][j].last >= served[s][j].last /\ served'[s][j].last <= now
      <3>1. \A j \in Key[s] : served[s][j].last <= now /\ served[s][j].last \in Int
        BY ListOf DEF RateInv, Passed
      <3>2. \A j \in Key[s] : served'[s][j].last = now \/ served'[s][j].last = served[s][j].last
        BY <1>14, <1>16
      <3>3. ASSUME NEW a \in Int, NEW b, a <= now, b = now \/ b = a PROVE b >= a /\ b <= now
        BY SMTT(60), <1>5, <3>3
      <3> QED
        BY <3>1, <3>2, <3>3
    <2>2. ASSUME NEW j \in 1..Len(m)
          PROVE  m[j].last <= now /\ (m[j].tokens < Burst[s] => served'[s][m[j].key].last >= m[j].last)
      <3>1. CASE j = i
        <4>1. m[j].last = now /\ m[j].key = k /\ served'[s][k].last = now
          BY <1>3, <1>6, <1>14, <1>16, <3>1
        <4>2. now >= now
          BY SMTT(60), <1>5
        <4> QED
          BY <1>13, <4>1, <4>2
      <3>2. CASE j # i
        <4>1. j \in 1..Len(l) /\ m[j] = l[j]
          BY <1>6, <3>2
        <4>2. l[j].last <= now /\ l[j].key \in Key[s] /\ l[j].last \in Nat
          BY <1>5, <4>1 DEF Bucket
        <4>3. l[j].tokens < Burst[s] => served[s][l[j].key].last >= l[j].last
          BY <4>1 DEF RateInv, Passed, Recent, l
        <4>4. served[s][l[j].key].last \in Int /\ served'[s][l[j].key].last \in Int
          BY <1>17, <4>2, ListOf DEF RateTypes, Count
        <4>5. served'[s][l[j].key].last >= served[s][l[j].key].last
          BY <2>1, <4>2
        <4> DEFINE u == served'[s][l[j].key].last
                   v == served[s][l[j].key].last
                   y == l[j].last
        <4>6. u \in Int /\ v \in Int /\ y \in Nat /\ u >= v
          BY <4>2, <4>4, <4>5
        <4> HIDE DEF u, v, y
        <4>7. v >= y => u >= y
          BY SMTT(60), <4>6
        <4> QED
          BY <4>1, <4>2, <4>3, <4>7 DEF u, v, y
      <3> QED
        BY <3>1, <3>2
    <2>3. Recent(m, served'[s], now, s)
      BY <2>2 DEF Recent
    <2>4. ASSUME NEW t \in Limiter, t # s PROVE Recent(bucket'[t], served'[t], now, t)
      <3>1. bucket'[t] = bucket[t] /\ Recent(bucket[t], served[t], now, t)
        BY <1>8, <2>4 DEF RateInv, Passed
      <3>2. \A j \in 1..Len(bucket[t]) : bucket[t][j].key \in Key[t]
        BY ListOf DEF Bucket
      <3>3. \A j \in Key[t] : served'[t][j] = served[t][j]
        BY <1>16, <2>4
      <3> QED
        BY <3>1, <3>2, <3>3 DEF Recent
    <2>5. \A t \in Limiter : \A j \in Key[t] : served'[t][j].last <= now
      BY <1>16, <2>1 DEF RateInv, Passed
    <2> QED
      BY <1>3, <1>8, <2>3, <2>4, <2>5 DEF Passed
  <1>22. \A t, j, h : Late(req', t, j, h) = Late(req, t, j, h) \ {r}
    BY <1>3, <1>10 DEF Late, IsLate
  <1>23. ASSUME NEW t \in Limiter, NEW j \in Key[t]
         PROVE  Account(bucket'[t], req', served'[t][j].n, now, t, j)
    <2> DEFINE e == bucket[t]
               g == bucket'[t]
               n == served[t][j].n
               o == served'[t][j].n
    <2>1. /\ e \in Seq(Bucket(t)) /\ g \in Seq(Bucket(t)) /\ n \in Nat /\ o \in Nat
          /\ \A h \in 1..Len(e) : e[h].last <= now
      BY <1>17, ListOf DEF RateTypes, Count
    <2>2. Account(e, req, n, now, t, j)
      BY DEF RateInv, Accounts
    <2>3. IndicesOf(g, j) = IndicesOf(e, j)
      BY <1>18
    <2>4. 1..Len(e) \subseteq 1..Len(g) /\ \A h \in 1..Len(e) : t # s \/ h # i => g[h] = e[h]
      BY <1>6, <1>8 DEF l
    <2>5. t = s /\ j = k => o = n + 1
      BY <1>14, <1>16
    <2>6. t # s \/ j # k => o = n
      BY <1>16
    <2>7. t = s => e = l /\ g = m
      BY <1>8 DEF l
    <2>8. \A h \in 1..Len(e) : g[h].last <= now
      <3>1. t = s => g[i].last = now
        BY <1>3, <1>6, <2>7
      <3> QED
        BY <1>13, <2>1, <2>4, <3>1
    <2>9. IndicesOf(e, j) = {} => o = n
      BY <1>3, <2>6, <2>7
    <2> HIDE DEF e, g, n, o
    <2>10. ASSUME NEW h \in 1..Len(e), IsCurrent(e, j, h)
           PROVE  o + TokensAt(t, g[h], now) + Cardinality(Late(req', t, j, h))
                   <= n + TokensAt(t, e[h], now) + Cardinality(Late(req, t, j, h)) + (now - now)
      <3> DEFINE a == Cardinality(Late(req, t, j, h))
                 b == Cardinality(Late(req', t, j, h))
                 y == TokensAt(t, e[h], now)
                 z == TokensAt(t, g[h], now)
      <3>1. a \in Nat /\ b \in Nat /\ e[h] \in Bucket(t) /\ g[h] \in Bucket(t)
        BY <2>1, <2>4, LateFinite, Elements
      <3>2. y \in 0..Burst[t] /\ z \in 0..Burst[t] /\ Burst[t] \in Nat
        BY <1>5, <2>1, <2>8, <3>1, TokensAre
      <3>3. b = IF r \in Late(req, t, j, h) THEN a - 1 ELSE a
        <4> DEFINE late == Late(req, t, j, h)
        <4>1. IsFiniteSet(late)
          BY LateFinite
        <4>2. Late(req', t, j, h) = late \ {r}
          BY <1>22
        <4> HIDE DEF late
        <4>3. Cardinality(late \ {r}) = IF r \in late THEN Cardinality(late) - 1 ELSE Cardinality(late)
          BY <4>1, FS_RemoveElement
        <4> QED
          BY <4>2, <4>3 DEF late
      <3>4. t = s /\ h = i => z = y - 1
        <4>1. SUFFICES ASSUME t = s, h = i PROVE z = y - 1
          OBVIOUS
        <4>2. g[h] = c /\ y = x
          BY <1>6, <2>7, <4>1 DEF x
        <4>3. c.tokens = x - 1 /\ c.last = now /\ Burst[t] \in Nat /\ x \in 0..Burst[t]
          BY <1>3, <3>2, <4>2
        <4>4. TokensAt(t, c, now) = x - 1
          BY SMTT(60), <1>5, <4>3 DEF TokensAt
        <4> QED
          BY <4>2, <4>4
      <3>5. t # s \/ h # i => z = y
        BY <2>4
      <3>6. t = s /\ h = i => j = k
        <4>1. e[h].key = j
          BY <2>10 DEF IsCurrent, IndicesOf
        <4> QED
          BY <1>4, <2>7, <4>1
      <3>7. t = s /\ j = k /\ h # i => r \in Late(req, t, j, h)
        BY <1>3 DEF Late, IsLate, i
      <3> HIDE DEF a, b, y, z
      <3>8. o + z + b <= n + y + a + (now - now)
        <4>1. CASE t = s /\ j = k /\ h = i
          <5>1. o = n + 1 /\ z = y - 1 /\ (b = a \/ b = a - 1)
            BY <2>5, <3>3, <3>4, <4>1
          <5> QED
            BY SMTT(60), <1>5, <2>1, <3>1, <3>2, <5>1
        <4>2. CASE t = s /\ j = k /\ h # i
          <5>1. o = n + 1 /\ z = y /\ b = a - 1
            BY <2>5, <3>3, <3>5, <3>7, <4>2
          <5> QED
            BY SMTT(60), <1>5, <2>1, <3>1, <3>2, <5>1
        <4>3. CASE t # s \/ j # k
          <5>1. o = n /\ z = y /\ (b = a \/ b = a - 1)
            BY <2>6, <3>3, <3>5, <3>6, <4>3
          <5> QED
            BY SMTT(60), <1>5, <2>1, <3>1, <3>2, <5>1
        <4> QED
          BY <4>1, <4>2, <4>3
      <3> QED
        BY <3>8 DEF a, b, y, z
    <2>11. Account(g, req', o, now, t, j)
      BY <1>5, <2>1, <2>2, <2>3, <2>4, <2>8, <2>9, <2>10, AccountMoves
    <2> QED
      BY <2>11 DEF g, o
  <1>24. Accounts'
    BY <1>3, <1>23 DEF Accounts
  <1> QED
    BY <1>17, <1>19, <1>20, <1>21, <1>24 DEF RateInv

-----------------------------------------------------------------------------
(* Theorems                                                                *)

\* Every step keeps the invariant.
LEMMA RateStep == RateInv /\ [Next]_vars => RateInv'
  <1> SUFFICES ASSUME RateInv, [Next]_vars PROVE RateInv'
    OBVIOUS
  <1>1. CASE Tick
    BY <1>1, TickStep
  <1>2. CASE \E s \in Limiter : \E k \in Key[s] : Evict(s, k)
    BY <1>2, EvictStep
  <1>3. ASSUME NEW r \in Request,
               \/ \E d \in Key["domain"], i \in Key["source_ip"] :
                    Arrive(r, [s \in Limiter |-> IF s = "domain" THEN d ELSE i])
               \/ Hit(r) \/ Miss(r) \/ Blocked(r)
        PROVE  RateInv'
    BY <1>3, CallSteps
  <1>4. ASSUME NEW r \in Request, Fetch(r) PROVE RateInv'
    BY <1>4, FetchStep
  <1>5. ASSUME NEW r \in Request, Allowed(r) PROVE RateInv'
    BY <1>5, AllowedStep
  <1>6. CASE UNCHANGED vars
    BY <1>6 DEF vars, RateInv, RateTypes, Cached, Held, Accounts, Passed
  <1> QED
    BY <1>1, <1>2, <1>3, <1>4, <1>5, <1>6 DEF Next

\* What the accounts of the keys amount to.
LEMMA AccountIsBound ==
  ASSUME RateInv
  PROVE  AdmitBound
  <1> SUFFICES ASSUME NEW s \in Limiter, NEW k \in Key[s]
               PROVE  served[s][k].n <= Burst[s] * Made(s, k) + now
                        + (IF Made(s, k) = 0 THEN 0 ELSE (Made(s, k) - 1) * (Cardinality(Request) - 1))
    BY DEF AdmitBound
  <1> DEFINE l == bucket[s]
             n == served[s][k].n
             c == Cardinality(IndicesOf(l, k))
  <1>1. l \in Seq(Bucket(s)) /\ now \in Nat /\ n \in Nat
        /\ \A i \in 1..Len(l) : l[i].last <= now /\ l[i] \in Bucket(s)
    BY ListOf
  <1>2. Made(s, k) = c
    BY DEF Made, IndicesOf
  <1>3. c \in Nat /\ (IndicesOf(l, k) = {} <=> c = 0)
    BY <1>1, IndicesFinite
  <1>4. Burst[s] \in Nat
    BY RateAssumption
  <1>5. Account(l, req, n, now, s, k)
    BY DEF RateInv, Accounts
  <1>6. CASE c = 0
    <2>1. n = 0
      BY <1>3, <1>5, <1>6 DEF Account, IsCurrent
    <2> HIDE DEF l, n, c
    <2>2. Burst[s] * 0 = 0
      BY SMTT(60), <1>4
    <2>3. n <= 0 + now + 0
      BY SMTT(60), <1>1, <2>1
    <2> QED
      BY <1>2, <1>6, <2>2, <2>3 DEF n
  <1>7. CASE c # 0
    <2>1. PICK i \in 1..Len(l) : IsCurrent(l, k, i) /\ Accounted(l, req, n, now, s, k, i)
      BY <1>3, <1>5, <1>7 DEF Account
    <2> DEFINE x == TokensAt(s, l[i], now)
               a == Cardinality(Late(req, s, k, i))
    <2>2. x \in 0..Burst[s] /\ a \in Nat
      BY <1>1, TokensAre, LateFinite
    <2>3. n + x + a <= Bound(s, c, now)
      BY <2>1 DEF Accounted
    <2> HIDE DEF l, n, c, x, a
    <2>4. Bound(s, c, now) \in Int
      BY <1>1, <1>3, BoundOfTime
    <2>5. n <= Bound(s, c, now)
      BY SMTT(60), <1>1, <1>4, <2>2, <2>3, <2>4
    <2> QED
      BY <1>2, <1>7, <2>5 DEF Bound, n
  <1> QED
    BY <1>6, <1>7

(***************************************************************************)
(* However requests interleave in FindOrFetch, what passes a limiter for a *)
(* key is within one burst for each bucket made, one token per unit of     *)
(* time, and the requests that hold a bucket when it is replaced.          *)
(***************************************************************************)
THEOREM AdmissionIsBounded == Spec => []AdmitBound
  <1>1. RateInv => AdmitBound
    BY AccountIsBound
  <1> QED
    BY RateInit, RateStep, <1>1, PTL DEF Spec

\* A bucket without a token has given one in this unit of time.
LEMMA EmptyIsRecent ==
  ASSUME RateInv, NEW r \in Request, Blocked(r)
  PROVE  served[Stage(r)][KeyOf(r)].last = now
  <1> DEFINE s == Stage(r)
             k == KeyOf(r)
             b == bucket[s][req[r].bucket]
  <1>1. req[r].pc = "allow" /\ ~ Enough(s, b)
    BY DEF Blocked
  <1>2. s \in Limiter /\ s = Chain[req[r].at] /\ k \in Key[s] /\ k = req[r].key[s]
    BY <1>1, CallIsAt DEF RateInv
  <1>3. req[r].bucket \in IndicesOf(bucket[s], k)
    BY <1>1, <1>2 DEF RateInv, Held, Holds
  <1>4. now \in Nat /\ b \in Bucket(s) /\ b.last <= now /\ b.key = k /\ served[s][k].last \in Int
    BY <1>2, <1>3, ListOf DEF IndicesOf
  <1>5. ~ TokensAt(s, b, now) >= 1
    BY <1>1, TokensNow DEF Enough
  <1>6. b.tokens < Burst[s] => served[s][k].last >= b.last
    BY <1>2, <1>3, <1>4 DEF RateInv, Passed, Recent, IndicesOf
  <1>7. served[s][k].last <= now
    BY <1>2 DEF RateInv, Passed
  <1> HIDE DEF s, k, b
  <1>8. b.tokens \in 0..Burst[s] /\ b.last \in Nat /\ Burst[s] \in Nat /\ Burst[s] > 0
    BY <1>2, <1>4, TokensAre
  <1>9. b.tokens < Burst[s] /\ b.last = now
    <2> DEFINE x == b.tokens
               y == b.last
               e == Burst[s]
    <2>1. ~ (IF x + (now - y) < e THEN x + (now - y) ELSE e) >= 1
      BY <1>5 DEF TokensAt
    <2>2. x \in 0..e /\ y \in Nat /\ e \in Nat /\ e > 0 /\ y <= now /\ now \in Nat
      BY <1>4, <1>8
    <2> HIDE DEF x, y, e
    <2>3. x < e /\ y = now
      BY SMTT(60), <2>1, <2>2
    <2> QED
      BY <2>3 DEF x, y, e
  <1> DEFINE u == served[s][k].last
  <1>10. u >= now /\ u <= now /\ u \in Int
    BY <1>4, <1>6, <1>7, <1>9
  <1> HIDE DEF u
  <1>11. u = now
    BY SMTT(60), <1>4, <1>10
  <1> QED
    BY <1>11 DEF u, s, k

(***************************************************************************)
(* A key that stays within the rate is not turned away: when a request is  *)
(* over the limit, another of its key has passed in this unit of time,     *)
(* whatever buckets have been replaced meanwhile.                          *)
(***************************************************************************)
THEOREM WaitingIsAdmitted == Spec => WaitedIsAdmitted
  <1>1. RateInv /\ [Next]_vars =>
          [\A r \in Request : Blocked(r) => served[Stage(r)][KeyOf(r)].last = now]_vars
    BY EmptyIsRecent
  <1> QED
    BY RateInit, RateStep, <1>1, PTL DEF Spec, WaitedIsAdmitted

=============================================================================
