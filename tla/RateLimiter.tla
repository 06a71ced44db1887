----------------------------- MODULE RateLimiter -----------------------------
(***************************************************************************)
(* The rate limiters (internal/handlers/ratelimiter.go,                    *)
(* internal/ratelimiter) and the LRU cache that holds their token buckets  *)
(* (internal/lru).                                                         *)
(*                                                                         *)
(* A request passes the domain limiter and then the source-IP limiter.     *)
(* FindOrFetch is not atomic: requests that miss at the same time all make *)
(* a bucket, and the last one stored is the one that is found afterwards.  *)
(* The time unit is the time in which a bucket gets one token.             *)
(***************************************************************************)
EXTENDS Integers, FiniteSets, Sequences

CONSTANTS
  Request,     \* requests in progress at the same time
  Key,         \* Key[s]: the keys of limiter s: hosts, source IPs
  Burst,       \* Burst[s]: burstSize
  Limited,     \* Limited[s]: limitPerSecond > 0
  Enforce,     \* Enforce[s]: rejects, or only reports
  Duration,    \* duration of a cache item
  MaxSize,     \* maxSize of a cache
  MaxTime,     \* bound on the clock
  MaxBuckets,  \* MaxBuckets[s]: bound on the buckets limiter s makes
  None         \* no value

Chain == <<"domain", "source_ip">>   \* outermost first
Limiter == {"domain", "source_ip"}

ASSUME RateAssumption ==
  /\ \A s \in Limiter : Burst[s] \in Nat \ {0}
  /\ \A s \in Limiter : Limited[s] \in BOOLEAN /\ Enforce[s] \in BOOLEAN
  /\ Duration \in Nat \ {0}
  /\ MaxSize \in Nat \ {0}
  /\ MaxTime \in Nat
  /\ IsFiniteSet(Request)
  /\ \A s \in Limiter : MaxBuckets[s] \in Nat

VARIABLES
  now,
  cache,    \* cache[s][k]: [bucket, expires] or None
  bucket,   \* bucket[s]: the rate.Limiters made, in order
  req,      \* the requests
  served    \* served[s][k]: how many requests of key k had a token of limiter s,
            \* and when the last of them had (history)

vars == <<now, cache, bucket, req, served>>

Idle == [pc |-> "idle", at |-> 0, key |-> [s \in Limiter |-> None], bucket |-> 0]

Init ==
  /\ now = 0
  /\ cache = [s \in Limiter |-> [k \in Key[s] |-> None]]
  /\ bucket = [s \in Limiter |-> <<>>]
  /\ req = [r \in Request |-> Idle]
  /\ served = [s \in Limiter |-> [k \in Key[s] |-> [n |-> 0, last |-> -1]]]

Stage(r) == Chain[req[r].at]
KeyOf(r) == req[r].key[Stage(r)]

\* Middleware: a limiter without a limit is not there.  After the last one the
\* request is handled, which is none of the limiters' business.
NextStage(i) ==
  IF \E j \in i + 1..2 : Limited[Chain[j]]
  THEN CHOOSE j \in i + 1..2 : Limited[Chain[j]] /\ \A m \in i + 1..j - 1 : ~ Limited[Chain[m]]
  ELSE 3

Advance(q, i) ==
  LET j == NextStage(i)
  IN IF j = 3 THEN Idle ELSE [q EXCEPT !.pc = "get", !.at = j, !.bucket = 0]

Arrive(r, key) ==
  /\ req[r].pc = "idle"
  /\ req' = [req EXCEPT ![r] = Advance([Idle EXCEPT !.key = key], 0)]
  /\ UNCHANGED <<now, cache, bucket, served>>

-----------------------------------------------------------------------------
(* limiter: FindOrFetch                                                    *)

Fresh(s, k) == cache[s][k] # None /\ now <= cache[s][k].expires

Hit(r) ==
  /\ req[r].pc = "get"
  /\ Fresh(Stage(r), KeyOf(r))
  /\ req' = [req EXCEPT ![r] = [req[r] EXCEPT !.pc = "allow",
                                             !.bucket = cache[Stage(r)][KeyOf(r)].bucket]]
  /\ UNCHANGED <<now, cache, bucket, served>>

Miss(r) ==
  /\ req[r].pc = "get"
  /\ ~ Fresh(Stage(r), KeyOf(r))
  /\ req' = [req EXCEPT ![r].pc = "fetch"]
  /\ UNCHANGED <<now, cache, bucket, served>>

\* fetchFn makes a full bucket; Set replaces whatever is cached by now.
Fetch(r) ==
  LET s == Stage(r)
      n == Len(bucket[s]) + 1
  IN
  /\ req[r].pc = "fetch"
  /\ n <= MaxBuckets[s]
  /\ bucket' = [bucket EXCEPT ![s] = Append(@, [key |-> KeyOf(r), tokens |-> Burst[s], last |-> now])]
  /\ cache' = [cache EXCEPT ![s][KeyOf(r)] = [bucket |-> n, expires |-> now + Duration]]
  /\ req' = [req EXCEPT ![r] = [req[r] EXCEPT !.pc = "allow", !.bucket = n]]
  /\ UNCHANGED <<now, served>>

\* ccache drops items, some time after there are too many.
Evict(s, k) ==
  /\ cache[s][k] # None
  /\ Cardinality({j \in Key[s] : cache[s][j] # None}) > MaxSize
  /\ cache' = [cache EXCEPT ![s][k] = None]
  /\ UNCHANGED <<now, bucket, req, served>>

-----------------------------------------------------------------------------
(* requestAllowed, Middleware                                              *)

\* Tokens of a bucket at this time.
Tokens(s, b) ==
  LET t == b.tokens + (now - b.last) IN IF t < Burst[s] THEN t ELSE Burst[s]

\* Mutant: the request takes no token.
TakeNothing(s, b) == [b EXCEPT !.tokens = Tokens(s, b), !.last = now]
\* Mutant: two tokens are asked for.
EnoughForTwo(s, b) == Tokens(s, b) >= 2

\* AllowN(now, 1)
Enough(s, b) == Tokens(s, b) >= 1
Take(s, b) == [b EXCEPT !.tokens = Tokens(s, b) - 1, !.last = now]

Allowed(r) ==
  LET s == Stage(r)
      k == KeyOf(r)
      i == req[r].bucket
  IN
  /\ req[r].pc = "allow"
  /\ Enough(s, bucket[s][i])
  /\ bucket' = [bucket EXCEPT ![s][i] = Take(s, bucket[s][i])]
  /\ served' = [served EXCEPT ![s][k] = [n |-> served[s][k].n + 1, last |-> now]]
  /\ req' = [req EXCEPT ![r] = Advance(req[r], req[r].at)]
  /\ UNCHANGED <<now, cache>>

\* The request is over the limit: 429, or, when only reporting, on it goes.
Blocked(r) ==
  LET s == Stage(r) IN
  /\ req[r].pc = "allow"
  /\ ~ Enough(s, bucket[s][req[r].bucket])
  /\ req' = [req EXCEPT ![r] = IF Enforce[s] THEN Idle ELSE Advance(req[r], req[r].at)]
  /\ UNCHANGED <<now, cache, bucket, served>>

Tick ==
  /\ now < MaxTime
  /\ now' = now + 1
  /\ UNCHANGED <<cache, bucket, req, served>>

Next ==
  \/ Tick
  \/ \E s \in Limiter : \E k \in Key[s] : Evict(s, k)
  \/ \E r \in Request :
       \/ \E d \in Key["domain"], i \in Key["source_ip"] :
            Arrive(r, [s \in Limiter |-> IF s = "domain" THEN d ELSE i])
       \/ Hit(r) \/ Miss(r) \/ Fetch(r) \/ Allowed(r) \/ Blocked(r)

Spec == Init /\ [][Next]_vars

-----------------------------------------------------------------------------
(* Properties                                                              *)

TypeOK ==
  /\ now \in 0..MaxTime
  /\ \A s \in Limiter :
       /\ cache[s] \in [Key[s] -> [bucket : 1..MaxBuckets[s], expires : 0..MaxTime + Duration] \cup {None}]
       /\ bucket[s] \in Seq([key : Key[s], tokens : 0..Burst[s], last : 0..MaxTime])
       /\ served[s] \in [Key[s] -> [n : Nat, last : -1..MaxTime]]
  /\ \A r \in Request :
       /\ req[r].pc \in {"idle", "get", "fetch", "allow"}
       /\ req[r].pc \in {"get", "fetch", "allow"} => req[r].at \in 1..2 /\ KeyOf(r) \in Key[Stage(r)]

\* How many buckets limiter s has made for key k.
Made(s, k) == Cardinality({i \in 1..Len(bucket[s]) : bucket[s][i].key = k})

\* However requests interleave, what passes a limiter for one key is bounded by
\* one burst for every bucket made for the key and one token per unit of time.
\* A bucket that is replaced lets pass at most the requests that hold it then.
AdmitBound ==
  \A s \in Limiter : \A k \in Key[s] :
    served[s][k].n <= Burst[s] * Made(s, k) + now
                        + (IF Made(s, k) = 0 THEN 0 ELSE (Made(s, k) - 1) * (Cardinality(Request) - 1))

\* A key that stays within the rate is never turned away: a request is blocked
\* only when another of the same key has passed in the same unit of time.
WaitedIsAdmitted ==
  [][\A r \in Request : Blocked(r) => served[Stage(r)][KeyOf(r)].last = now]_vars

=============================================================================
