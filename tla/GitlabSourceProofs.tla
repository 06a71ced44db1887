------------------------- MODULE GitlabSourceProofs -------------------------
(***************************************************************************)
(* Proofs about the GitLab source: Retriever, for every timeout, interval  *)
(* and number of retries, and GitlabResolve, for any lookup paths and URLs *)
(* and any number of requests.                                             *)
(***************************************************************************)
EXTENDS Retriever, GitlabResolve, SequenceTheorems, TLAPS

(***************************************************************************)
(* Retriever                                                               *)
(***************************************************************************)

(***************************************************************************)
(* The inductive invariant.  FailureJustified alone is not inductive: it   *)
(* needs to know why the worker is at its send (a definite answer, or no   *)
(* attempt left), and that it has a lookup once it has tried.              *)
(***************************************************************************)
Begun == caller = "idle" <=> worker = "none"

Returned == result = "none" <=> caller # "returned"

Answered ==
  /\ lookup \in Definite => worker \in {"send", "exit"}
  /\ worker \in {"send", "exit"} => lookup \in Definite \/ attempt = MaxRetrievalRetries
  /\ lookup = "zero" => attempt = 0 \/ worker = "get"

RetrieveInv == RetrieveTypeOK /\ Begun /\ Returned /\ Answered /\ FailureJustified

\* Retrieve, its worker and the clock start in the invariant.
LEMMA RetrieveInitInv == RetrieveInit => RetrieveInv
  <1> SUFFICES ASSUME RetrieveInit PROVE RetrieveInv
    OBVIOUS
  <1>1. dead \in BOOLEAN
    BY Zenon DEF RetrieveInit
  <1>2. now \in 0..MaxTime /\ attempt \in 0..MaxRetrievalRetries /\ wake \in Nat
    BY RetrieverAssumption DEF RetrieveInit
  <1> QED
    BY <1>1, <1>2 DEF RetrieveInit, RetrieveInv, RetrieveTypeOK, Begun, Returned, Answered, FailureJustified, Definite, Outcome

\* Every step of Retrieve and of resolveWithBackoff preserves it.
LEMMA RetrieveStepInv == RetrieveInv /\ [RetrieveNext]_retrieveVars => RetrieveInv'
  <1> SUFFICES ASSUME RetrieveInv, [RetrieveNext]_retrieveVars PROVE RetrieveInv'
    OBVIOUS
  <1> USE RetrieverAssumption
      DEF RetrieveInv, RetrieveTypeOK, Begun, Returned, Answered, FailureJustified, Definite, Outcome
  <1>1. CASE Retrieve
    BY <1>1 DEF Retrieve
  <1>2. CASE ContextDone
    BY <1>2 DEF ContextDone
  <1>3. CASE Receive
    BY <1>3 DEF Receive
  <1>4. CASE Loop
    <2>1. dead' \in BOOLEAN
      BY <1>4, Zenon DEF Loop, CtxDone
    <2> QED
      BY <1>4, <2>1 DEF Loop
  <1>5. ASSUME NEW o \in Outcome, GetLookup(o) PROVE RetrieveInv'
    BY <1>5 DEF GetLookup
  <1>6. CASE Wake
    BY <1>6 DEF Wake
  <1>7. CASE Tick
    BY <1>7 DEF Tick
  <1>8. CASE UNCHANGED retrieveVars
    BY <1>8 DEF retrieveVars
  <1> QED
    BY <1>1, <1>2, <1>3, <1>4, <1>5, <1>6, <1>7, <1>8 DEF RetrieveNext, Worker

\* The invariant holds in every reachable state of a Retrieve call.
THEOREM RetrieveInvariance == RetrieveSpec => []RetrieveInv
  BY RetrieveInitInv, RetrieveStepInv, PTL DEF RetrieveSpec

\* A failure that Retrieve reports has its reason, and with at least one
\* attempt configured Retrieve never returns the zero lookup.
THEOREM FailureIsJustified == RetrieveSpec => []FailureJustified
  <1>1. RetrieveInv => FailureJustified
    BY DEF RetrieveInv
  <1> QED
    BY <1>1, RetrieveInvariance, PTL

\* A definite answer of the API is not retried and is what the caller gets.
THEOREM DefiniteIsFinal == RetrieveSpec => DefiniteAnswerIsFinal
  <1>1. ASSUME RetrieveInv, [RetrieveNext]_retrieveVars, lookup \in Definite
        PROVE  /\ attempt' = attempt /\ lookup' = lookup
               /\ (result = "none" /\ result' # "none") => result' \in {lookup, "timeout"}
    BY <1>1 DEF RetrieveInv, RetrieveTypeOK, Returned, Answered, RetrieveNext, Worker, Retrieve, ContextDone, Receive,
                Loop, GetLookup, Wake, Tick, retrieveVars, Definite, Outcome
  <1> QED
    BY <1>1, RetrieveInvariance, PTL DEF RetrieveSpec, DefiniteAnswerIsFinal

-----------------------------------------------------------------------------
\* A step of the Retriever is a step of the promise, or none.
LEMMA PromiseStep ==
  ASSUME MaxRetrievalRetries > 0, RetrieveInv, [RetrieveNext]_retrieveVars
  PROVE  [Promise!Next]_<<now, Running, LookupKind(result)>>
  <1> USE RetrieverAssumption
      DEF RetrieveInv, RetrieveTypeOK, Returned, Answered, Running, LookupKind, Outcome, Definite
  <1>1. CASE Retrieve
    <2>1. Promise!Call
      BY <1>1 DEF Retrieve, Promise!Call
    <2> QED
      BY <2>1 DEF Promise!Next
  <1>2. CASE ContextDone
    <2>1. Promise!Answer
      BY <1>2 DEF ContextDone, Promise!Answer, Promise!Kind
    <2> QED
      BY <2>1 DEF Promise!Next
  <1>3. CASE Receive
    <2>1. Promise!Answer
      BY <1>3 DEF Receive, Promise!Answer, Promise!Kind
    <2> QED
      BY <2>1 DEF Promise!Next
  <1>4. CASE Tick
    <2>1. Promise!Tick
      BY <1>4 DEF Tick, Promise!Tick
    <2> QED
      BY <2>1 DEF Promise!Next
  <1>5. CASE Loop
    BY <1>5 DEF Loop
  <1>6. ASSUME NEW o \in Outcome, GetLookup(o)
        PROVE  UNCHANGED <<now, Running, LookupKind(result)>>
    BY <1>6 DEF GetLookup
  <1>7. CASE Wake
    BY <1>7 DEF Wake
  <1>8. CASE UNCHANGED retrieveVars
    BY <1>8 DEF retrieveVars
  <1> QED
    BY <1>1, <1>2, <1>3, <1>4, <1>5, <1>6, <1>7, <1>8 DEF RetrieveNext, Worker

\* With at least one attempt configured, Retrieve keeps the promise that the
\* cache builds on: one lookup, with a domain or an error, in time.
THEOREM RetrieverKeepsPromise ==
  ASSUME MaxRetrievalRetries > 0
  PROVE  RetrieveSpec => KeepsPromise
  <1>1. RetrieveInit => Promise!Init
    BY DEF RetrieveInit, Promise!Init, Running, LookupKind
  <1>2. RetrieveInv /\ [RetrieveNext]_retrieveVars => [Promise!Next]_<<now, Running, LookupKind(result)>>
    BY PromiseStep
  <1> QED
    BY <1>1, <1>2, RetrieveInvariance, PTL DEF RetrieveSpec, KeepsPromise, Promise!Spec

-----------------------------------------------------------------------------
(***************************************************************************)
(* GitlabResolve                                                           *)
(***************************************************************************)

\* The prover of a leaf that names none.
USE ZenonT(60)

-----------------------------------------------------------------------------
(* Prefixes of a URL.                                                      *)

\* isSubPath or isRootPath: the URL is below the prefix or is the prefix.
LEMMA MatchIsPrefix ==
  ASSUME NEW p \in Seq(Segment), NEW u \in Seq(Segment)
  PROVE  IsSubPath(p, u) \/ IsRootPath(p, u) <=> HasPrefix(u, p)
  <1>1. u = p => HasPrefix(u, p)
    <2>1. Len(u) \in Nat /\ Len(u) <= Len(u)
      BY SMTT(60), LenProperties
    <2> QED
      BY <2>1, SubSeqFull DEF HasPrefix
  <1>2. p = <<>> => HasPrefix(u, p)
    <2>1. Len(<<>>) = 0 /\ Len(u) \in Nat
      BY SMTT(60), LenProperties
    <2>2. SubSeq(u, 1, 0) = <<>>
      BY SMTT(60), SubSeqEmpty
    <2>3. SubSeq(u, 1, Len(<<>>)) = <<>> /\ Len(<<>>) <= Len(u)
      BY SMTT(60), <2>1, <2>2
    <2> QED
      BY <2>3 DEF HasPrefix
  <1> QED
    BY <1>1, <1>2 DEF IsSubPath, IsRootPath

\* Two prefixes of a URL that are equally long are the same.
LEMMA SamePrefix ==
  ASSUME NEW p \in Seq(Segment), NEW q \in Seq(Segment), NEW u \in Seq(Segment),
         HasPrefix(u, p), HasPrefix(u, q), Len(p) = Len(q)
  PROVE  p = q
  BY DEF HasPrefix

\* What is longest among prefixes of one URL is unique.
LEMMA LongestIs ==
  ASSUME NEW u \in Seq(Segment), NEW S \in SUBSET Seq(Segment),
         \A q \in S : HasPrefix(u, q),
         NEW p \in S, \A q \in S : Len(q) <= Len(p)
  PROVE  Longest(S) = p
  <1>1. \E q \in S : \A o \in S : Len(o) <= Len(q)
    OBVIOUS
  <1>2. Longest(S) \in S /\ \A q \in S : Len(q) <= Len(Longest(S))
    BY <1>1 DEF Longest
  <1>3. Len(Longest(S)) = Len(p)
    <2>1. Len(Longest(S)) \in Nat /\ Len(p) \in Nat
      BY <1>2, LenProperties
    <2>2. Len(Longest(S)) <= Len(p) /\ Len(p) <= Len(Longest(S))
      BY <1>2
    <2> QED
      BY SMTT(60), <2>1, <2>2
  <1> QED
    BY <1>2, <1>3, SamePrefix

\* getSubPath is the rest of the URL.
LEMMA SubPathIsRest ==
  ASSUME NEW p \in Seq(Segment), NEW u \in Seq(Segment), HasPrefix(u, p)
  PROVE  SubPath(p, u) \in Seq(Segment) /\ u = p \o SubPath(p, u)
  <1>1. /\ Len(p) \in Nat /\ Len(u) \in Nat /\ Len(p) <= Len(u)
        /\ p = SubSeq(u, 1, Len(p))
    BY LenProperties DEF HasPrefix
  <1>2. CASE IsSubPath(p, u)
    <2>1. SubPath(p, u) = SubSeq(u, Len(p) + 1, Len(u))
      BY <1>2 DEF SubPath
    <2>2. 1 \in 1..(Len(u) + 1) /\ Len(p) \in (1 - 1)..Len(u) /\ Len(u) \in Len(p)..Len(u)
      BY SMTT(60), <1>1
    <2>3. SubSeq(u, 1, Len(p)) \o SubSeq(u, Len(p) + 1, Len(u)) = SubSeq(u, 1, Len(u))
      BY <2>2, ConcatAdjacentSubSeq
    <2>4. SubSeq(u, Len(p) + 1, Len(u)) \in Seq(Segment)
      <3>1. \A k \in (Len(p) + 1)..Len(u) : u[k] \in Segment
        BY SMTT(60), <1>1
      <3>2. Len(p) + 1 \in Int /\ Len(u) \in Int
        BY SMTT(60), <1>1
      <3> QED
        BY <3>1, <3>2, SubSeqProperties
    <2> QED
      BY <1>1, <2>1, <2>3, <2>4, SubSeqFull
  <1>3. CASE ~ IsSubPath(p, u)
    <2>1. u = p
      BY <1>3 DEF IsSubPath
    <2>2. SubPath(p, u) = <<>>
      BY <1>3 DEF SubPath
    <2>3. <<>> \in Seq(Segment)
      BY SMTT(60)
    <2> QED
      BY <2>1, <2>2, <2>3, ConcatEmptySeq
  <1> QED
    BY <1>2, <1>3


-----------------------------------------------------------------------------
(* What a call has to work with, whatever the other calls do.              *)

Got == [is : {"request", "error", "none"}, prefix : Seq(Segment), sub : Seq(Segment)]

Resolving ==
  [pc  : {"idle", "less", "save", "move", "restore", "scan", "done"},
   url : Seq(Segment), i : Nat, j : Nat, tmp : Seq(Segment), got : Got]

Swapping == {"save", "move", "restore"}

\* The indexes of the insertion sort stay within the list, and what is copied
\* to tmp is a path of the list.
InRange(q) ==
  /\ q.pc \in {"less"} \cup Swapping => q.i >= 2 /\ q.j >= 1 /\ q.j <= q.i
  /\ q.pc \in Swapping => q.j >= 2 /\ q.i <= Len(api)
  /\ q.pc \in {"move", "restore"} => q.tmp \in Range(api)
  /\ q.pc = "scan" => q.i >= 1

TypeInv ==
  /\ api \in Orders
  /\ lookups \in Seq(Range(api)) /\ Len(lookups) = Len(api)
  /\ req \in [Request -> Resolving]
  /\ \A r \in Request : InRange(req[r])

Descending(s) == \A k \in 1..(Len(s) - 1) : Len(s[k]) >= Len(s[k + 1])

\* Of a list that is sorted no two neighbours are ever exchanged.
Unswapped(q) == q.pc \notin Swapping /\ (q.pc = "less" => q.j = q.i)

OnlyRead ==
  Descending(api) => lookups = api /\ \A r \in Request : Unswapped(req[r])

-----------------------------------------------------------------------------
(* What the sort and the loop have achieved.                               *)

\* The first m paths of l are sorted, but for the j-th.
InOrder(l, m, j) ==
  \A k, o \in 1..Len(l) : k < o /\ o <= m /\ k # j /\ o # j => Len(l[k]) >= Len(l[o])

\* p is no shorter than the paths behind the j-th, up to the m-th.
Passed(l, m, j, p) == \A o \in 1..Len(l) : j < o /\ o <= m => Len(p) >= Len(l[o])

(***************************************************************************)
(* In the middle of the insertion sort of a call q: the first q.i paths    *)
(* are sorted, but for the one that is on its way down, which is at q.j or *)
(* in tmp, and is no shorter than those it has passed.                     *)
(***************************************************************************)
Moving(l, q) == IF q.pc = "restore" THEN q.tmp ELSE l[q.j]

Sorting(l, q) ==
  /\ q.i > Len(l) => q.j = q.i
  /\ InOrder(l, q.i, q.j)
  /\ Passed(l, q.i, q.j, Moving(l, q))
  /\ q.pc \in Swapping => Len(Moving(l, q)) > Len(l[q.j - 1])
  /\ q.pc = "move" => q.tmp = l[q.j]
  /\ q.pc = "restore" => l[q.j] = l[q.j - 1]

\* In the loop over the sorted paths: none before q.i is a prefix of the URL.
Scanning(l, q) ==
  /\ \A k, o \in 1..Len(l) : k < o => Len(l[k]) >= Len(l[o])
  /\ \A k \in 1..Len(l) : k < q.i => ~ HasPrefix(q.url, l[k])

\* What a call returns (the body of ServedFromLongestPrefix).
Right(a, q) ==
  LET S == {p \in Range(a) : HasPrefix(q.url, p)} IN
  IF S = {} THEN q.got = NotFound
  ELSE IF Longest(S) \in Broken THEN q.got = Failed(Longest(S))
  ELSE /\ q.got.is = "request"
       /\ q.got.prefix = Longest(S)
       /\ q.url = Longest(S) \o q.got.sub

CallOK(a, l, q) ==
  /\ q.pc \in {"less"} \cup Swapping => Sorting(l, q)
  /\ q.pc = "scan" => Scanning(l, q)
  /\ q.pc \in {"less", "scan"} \cup Swapping => q.got = NotFound
  /\ q.pc = "done" => Right(a, q)

\* No path is lost: it is in the list, or on its way back to it.
Complete ==
  \A p \in Range(api) :
    \/ \E k \in 1..Len(api) : lookups[k] = p
    \/ \E r \in Request : req[r].pc = "restore" /\ req[r].tmp = p

Inv == TypeInv /\ OnlyRead /\ Complete /\ \A r \in Request : CallOK(api, lookups, req[r])

\* Nobody else sorts the list, or there is nothing to sort.
Undisturbed ==
  (\A r, s \in Request : r = s) \/ (\A s \in Orders : Descending(s))

-----------------------------------------------------------------------------
(* The insertion sort, step by step.                                       *)

\* The length of every path of a list is a number.
LEMMA LengthsAreNumbers ==
  ASSUME NEW l \in Seq(Seq(Segment))
  PROVE  Len(l) \in Nat /\ \A k \in 1..Len(l) : l[k] \in Seq(Segment) /\ Len(l[k]) \in Nat
  BY LenProperties, ElementOfSeq

\* less says no: the path that was on its way down is in its place.
LEMMA InsertedIsInOrder ==
  ASSUME NEW l \in Seq(Seq(Segment)), NEW i \in Nat, NEW j \in 1..i, i <= Len(l),
         InOrder(l, i, j), Passed(l, i, j, l[j]),
         j > 1 => Len(l[j - 1]) >= Len(l[j])
  PROVE  InOrder(l, i + 1, i + 1) /\ Passed(l, i + 1, i + 1, l[i + 1])
  <1>1. Len(l) \in Nat /\ \A k \in 1..Len(l) : Len(l[k]) \in Nat
    BY LengthsAreNumbers
  <1>2. ASSUME NEW k \in 1..Len(l), NEW o \in 1..Len(l), k < o, o <= i
        PROVE  Len(l[k]) >= Len(l[o])
    <2>1. CASE k # j /\ o # j
      BY SMTT(60), <1>2, <2>1 DEF InOrder
    <2>2. CASE k = j
      BY SMTT(60), <1>2, <2>2 DEF Passed
    <2>3. CASE o = j
      <3>1. j - 1 \in 1..Len(l) /\ j > 1 /\ j - 1 < j /\ k <= j - 1
        BY SMTT(60), <1>1, <1>2, <2>3
      <3>2. Len(l[k]) >= Len(l[j - 1])
        BY SMTT(60), <1>1, <1>2, <2>3, <3>1 DEF InOrder
      <3> QED
        BY SMTT(60), <1>1, <2>3, <3>1, <3>2
    <2> QED
      BY <2>1, <2>2, <2>3
  <1>3. InOrder(l, i + 1, i + 1)
    BY SMTT(60), <1>1, <1>2 DEF InOrder
  <1>4. Passed(l, i + 1, i + 1, l[i + 1])
    BY SMTT(60), <1>1 DEF Passed
  <1> QED
    BY <1>3, <1>4

\* The first copy of an exchange changes a place that the order leaves out.
LEMMA MoveKeepsOrder ==
  ASSUME NEW l \in Seq(Seq(Segment)), NEW m \in Seq(Seq(Segment)), Len(m) = Len(l),
         NEW i \in Nat, NEW j \in 2..i, i <= Len(l), NEW p,
         \A k \in 1..Len(l) : m[k] = IF k = j THEN l[j - 1] ELSE l[k],
         InOrder(l, i, j), Passed(l, i, j, p)
  PROVE  InOrder(m, i, j) /\ Passed(m, i, j, p) /\ m[j] = m[j - 1] /\ m[j - 1] = l[j - 1]
  <1>1. Len(l) \in Nat
    BY LengthsAreNumbers
  <1>2. InOrder(m, i, j)
    BY SMTT(60), <1>1 DEF InOrder
  <1>3. Passed(m, i, j, p)
    BY SMTT(60), <1>1 DEF Passed
  <1>4. m[j] = m[j - 1] /\ m[j - 1] = l[j - 1]
    <2>1. j - 1 \in 1..Len(l) /\ j \in 1..Len(l) /\ j - 1 # j
      BY SMTT(60), <1>1
    <2> QED
      BY <2>1
  <1> QED
    BY <1>2, <1>3, <1>4

\* After the second copy the path is one place further down, and the one it
\* has passed is in order.
LEMMA RestoreKeepsOrder ==
  ASSUME NEW l \in Seq(Seq(Segment)), NEW m \in Seq(Seq(Segment)), Len(m) = Len(l),
         NEW i \in Nat, NEW j \in 2..i, i <= Len(l), NEW p \in Seq(Segment),
         \A k \in 1..Len(l) : m[k] = IF k = j - 1 THEN p ELSE l[k],
         InOrder(l, i, j), Passed(l, i, j, p),
         l[j] = l[j - 1], Len(p) > Len(l[j - 1])
  PROVE  InOrder(m, i, j - 1) /\ Passed(m, i, j - 1, m[j - 1])
  <1>1. /\ Len(l) \in Nat /\ Len(p) \in Nat
        /\ j - 1 \in 1..Len(l) /\ j \in 1..Len(l) /\ j - 1 # j
        /\ \A k \in 1..Len(l) : Len(l[k]) \in Nat
    <2>1. Len(p) \in Nat
      BY LenProperties
    <2>2. Len(l) \in Nat /\ \A k \in 1..Len(l) : Len(l[k]) \in Nat
      BY LengthsAreNumbers
    <2>3. j - 1 \in 1..Len(l) /\ j \in 1..Len(l) /\ j - 1 # j
      BY SMTT(60), <2>2
    <2> QED
      BY <2>1, <2>2, <2>3
  <1>2. m[j] = l[j - 1] /\ m[j - 1] = p
    BY <1>1
  <1>3. ASSUME NEW k \in 1..Len(l), NEW o \in 1..Len(l), k < o, o <= i, k # j - 1, o # j - 1
        PROVE  Len(m[k]) >= Len(m[o])
    <2>1. m[k] = l[k] /\ m[o] = l[o]
      BY <1>3
    <2>2. CASE k # j /\ o # j
      BY SMTT(60), <1>1, <1>3, <2>1, <2>2 DEF InOrder
    <2>3. CASE k = j
      <3>1. j - 1 < o /\ j - 1 # j /\ o # j
        BY SMTT(60), <1>1, <1>3, <2>3
      <3>2. Len(l[j - 1]) >= Len(l[o])
        BY <1>1, <1>3, <3>1 DEF InOrder
      <3> QED
        BY <2>1, <2>3, <3>2
    <2>4. CASE o = j
      <3>1. k < j - 1 /\ j - 1 # j /\ k # j /\ j - 1 <= i
        BY SMTT(60), <1>1, <1>3, <2>4
      <3>2. Len(l[k]) >= Len(l[j - 1])
        BY <1>1, <1>3, <3>1 DEF InOrder
      <3> QED
        BY <2>1, <2>4, <3>2
    <2> QED
      BY <2>2, <2>3, <2>4
  <1>4. ASSUME NEW o \in 1..Len(l), j - 1 < o, o <= i
        PROVE  Len(p) >= Len(m[o])
    <2>1. CASE o = j
      BY SMTT(60), <1>1, <1>2, <2>1
    <2>2. CASE o # j
      <3>1. j < o /\ o # j - 1
        BY SMTT(60), <1>1, <1>4, <2>2
      <3>2. m[o] = l[o]
        BY <3>1
      <3> QED
        BY <1>4, <3>1, <3>2 DEF Passed
    <2> QED
      BY <2>1, <2>2
  <1> QED
    BY <1>2, <1>3, <1>4 DEF InOrder, Passed

\* A list that is in order up to its end is sorted.
LEMMA InOrderIsSorted ==
  ASSUME NEW l \in Seq(Seq(Segment)), NEW i \in Nat, i > Len(l), InOrder(l, i, i)
  PROVE  \A k, o \in 1..Len(l) : k < o => Len(l[k]) >= Len(l[o])
  <1>1. Len(l) \in Nat
    BY LengthsAreNumbers
  <1> QED
    BY SMTT(60), <1>1 DEF InOrder

-----------------------------------------------------------------------------
(* The invariant that needs nobody's cooperation.                          *)

\* The paths of the list are paths.
LEMMA PathsArePaths ==
  ASSUME TypeInv
  PROVE  /\ api \in Seq(Seq(Segment)) /\ lookups \in Seq(Seq(Segment))
         /\ Range(api) \subseteq Seq(Segment)
         /\ Len(api) \in Nat /\ Len(lookups) = Len(api)
         /\ \A k \in 1..Len(api) : api[k] \in Range(api) /\ lookups[k] \in Range(api)
  <1>1. api \in Seq(Seq(Segment)) /\ Len(lookups) = Len(api) /\ lookups \in Seq(Range(api))
    BY PathAssumption DEF TypeInv
  <1>2. Len(api) \in Nat /\ DOMAIN api = 1..Len(api)
    BY <1>1, LenProperties
  <1>3. Range(api) \subseteq Seq(Segment)
    BY <1>1, <1>2, ElementOfSeq DEF Range
  <1>4. lookups \in Seq(Seq(Segment))
    BY <1>1, <1>3, SeqMonotonic
  <1>5. \A k \in 1..Len(api) : api[k] \in Range(api) /\ lookups[k] \in Range(api)
    BY <1>1, <1>2, ElementOfSeq DEF Range
  <1> QED
    BY <1>1, <1>2, <1>3, <1>4, <1>5

\* A step of one call keeps the types if the new state of the call has them.
LEMMA TypesOfOneCall ==
  ASSUME TypeInv, NEW r \in Request, NEW q \in Resolving, InRange(q),
         req' = [req EXCEPT ![r] = q], api' = api,
         lookups' \in Seq(Range(api)), Len(lookups') = Len(api)
  PROVE  TypeInv'
  <1>1. req' \in [Request -> Resolving]
    BY DEF TypeInv
  <1>2. \A s \in Request : req'[s] = IF s = r THEN q ELSE req[s]
    BY DEF TypeInv
  <1>3. ASSUME NEW s \in Request PROVE InRange(req[s])'
    <2>1. CASE s = r
      BY <1>2, <2>1 DEF InRange
    <2>2. CASE s # r
      BY <1>2, <2>2 DEF InRange, TypeInv
    <2> QED
      BY <2>1, <2>2
  <1> QED
    BY <1>1, <1>3 DEF TypeInv

\* The fields of the state of a call.
LEMMA FieldsOfCall ==
  ASSUME TypeInv, NEW r \in Request
  PROVE  /\ req[r] \in Resolving
         /\ req[r].url \in Seq(Segment) /\ req[r].i \in Nat /\ req[r].j \in Nat
         /\ req[r].tmp \in Seq(Segment) /\ req[r].got \in Got
         /\ req[r].pc \in {"idle", "less", "save", "move", "restore", "scan", "done"}
         /\ InRange(req[r])
  BY DEF TypeInv, Resolving

\* What a call may hold in its result.
LEMMA GotTypes ==
  /\ NotFound \in Got
  /\ \A p \in Seq(Segment), s \in Seq(Segment) : Found(p, s) \in Got /\ Failed(p) \in Got
  <1>1. <<>> \in Seq(Segment)
    BY EmptySeq
  <1> QED
    BY <1>1 DEF NotFound, Found, Failed, Got

\* A step of one call leaves a sorted list alone if the call exchanges nothing.
LEMMA OnlyReadOfOneCall ==
  ASSUME TypeInv, OnlyRead, NEW r \in Request, NEW q,
         req' = [req EXCEPT ![r] = q], api' = api,
         Descending(api) => lookups' = lookups /\ Unswapped(q)
  PROVE  OnlyRead'
  <1>1. \A s \in Request : req'[s] = IF s = r THEN q ELSE req[s]
    BY DEF TypeInv
  <1>2. ASSUME Descending(api), NEW s \in Request PROVE Unswapped(req'[s])
    <2>1. CASE s = r
      BY <1>1, <1>2, <2>1
    <2>2. CASE s # r
      BY <1>1, <1>2, <2>2 DEF OnlyRead
    <2> QED
      BY <2>1, <2>2
  <1>3. Descending(api) => lookups' = api
    BY DEF OnlyRead
  <1>4. Descending(api') <=> Descending(api)
    OBVIOUS
  <1>5. Descending(api') => lookups' = api' /\ \A s \in Request : Unswapped(req'[s])
    BY <1>2, <1>3, <1>4
  <1> QED
    BY <1>5 DEF OnlyRead, Descending, Unswapped

\* What a step of call r does: its new state is q, the others are as they were.
Becomes(r, q) ==
  /\ q \in Resolving
  /\ req' = [req EXCEPT ![r] = q] /\ api' = api
  /\ req'[r] = q
  /\ \A s \in Request : s # r => req'[s] = req[s]
  /\ TypeInv' /\ OnlyRead'

\* A step that only one call takes and that does not write the list.
LEMMA ReadStep ==
  ASSUME TypeInv, OnlyRead, NEW r \in Request, NEW q \in Resolving,
         InRange(q), Descending(api) => Unswapped(q),
         req' = [req EXCEPT ![r] = q], api' = api, lookups' = lookups
  PROVE  Becomes(r, q)
  <1>1. TypeInv'
    BY TypesOfOneCall DEF TypeInv
  <1>2. OnlyRead'
    BY OnlyReadOfOneCall
  <1>3. req'[r] = q /\ \A s \in Request : s # r => req'[s] = req[s]
    BY DEF TypeInv
  <1> QED
    BY <1>1, <1>2, <1>3 DEF Becomes

\* Every path is in the list.
Everything == \A p \in Range(api) : \E k \in 1..Len(api) : lookups[k] = p

\* A step of call r that goes right if the call has gone right so far.
Advances(r) ==
  \E q : /\ Becomes(r, q)
         /\ Everything /\ CallOK(api, lookups, req[r]) => CallOK(api, lookups', q)

\* Resolve begins: the first path is sorted.
LEMMA BeginStep ==
  ASSUME TypeInv, OnlyRead, NEW r \in Request, NEW u \in Url, Begin(r, u)
  PROVE  Advances(r) /\ lookups' = lookups
  <1> DEFINE q == [pc |-> "less", url |-> u, i |-> 2, j |-> 2, tmp |-> <<>>, got |-> NotFound]
  <1>1. u \in Seq(Segment) /\ <<>> \in Seq(Segment) /\ NotFound \in Got /\ 2 \in Nat
    BY PathAssumption, EmptySeq, GotTypes
  <1>2. q \in Resolving
    BY <1>1 DEF Resolving
  <1>3. q.pc = "less" /\ q.i = 2 /\ q.j = 2 /\ q.got = NotFound /\ 2 >= 2 /\ 2 >= 1 /\ 2 <= 2
    BY SMTT(60)
  <1>4. InRange(q) /\ Unswapped(q)
    BY <1>3 DEF InRange, Unswapped, Swapping
  <1>5. req' = [req EXCEPT ![r] = q] /\ api' = api /\ lookups' = lookups
    BY DEF Begin
  <1> HIDE DEF q
  <1>6. Becomes(r, q)
    BY <1>2, <1>4, <1>5, ReadStep
  <1>7. InOrder(lookups, 2, 2) /\ Passed(lookups, 2, 2, lookups[2])
    <2>1. Len(lookups) \in Nat
      BY PathsArePaths
    <2>2. \A k, o \in 1..Len(lookups) : ~ (k < o /\ o <= 2 /\ k # 2 /\ o # 2)
      BY SMTT(60), <2>1
    <2>3. \A o \in 1..Len(lookups) : ~ (2 < o /\ o <= 2)
      BY SMTT(60), <2>1
    <2> QED
      BY <2>2, <2>3 DEF InOrder, Passed
  <1>8. CallOK(api, lookups, q)
    BY <1>3, <1>7 DEF CallOK, Sorting, Moving, Swapping
  <1> QED
    BY <1>5, <1>6, <1>8 DEF Advances

\* less says yes: an exchange begins.  It says no: the next path is inserted.
LEMMA CompareStep ==
  ASSUME TypeInv, OnlyRead, NEW r \in Request, SortCompare(r)
  PROVE  Advances(r) /\ lookups' = lookups
  <1> DEFINE q == req[r]
             s == [q EXCEPT !.pc = "save"]
             n == [q EXCEPT !.i = q.i + 1, !.j = q.i + 1]
  <1>1. /\ q \in Resolving /\ q.i \in Nat /\ q.j \in Nat /\ InRange(q)
        /\ q.pc = "less" /\ q.i <= Len(lookups)
        /\ api' = api /\ lookups' = lookups
    BY FieldsOfCall DEF SortCompare
  <1>2. /\ q.i >= 2 /\ q.j >= 1 /\ q.j <= q.i /\ q.j \in 1..q.i
        /\ Len(lookups) \in Nat /\ Len(lookups) = Len(api)
    <2>1. q.i >= 2 /\ q.j >= 1 /\ q.j <= q.i
      BY <1>1 DEF InRange
    <2>2. Len(lookups) \in Nat /\ Len(lookups) = Len(api)
      BY PathsArePaths
    <2> QED
      BY SMTT(60), <1>1, <2>1, <2>2
  <1>3. ASSUME q.j > 1, Len(lookups[q.j]) > Len(lookups[q.j - 1])
        PROVE  Advances(r)
    <2>1. req' = [req EXCEPT ![r] = s]
      BY <1>3 DEF SortCompare, less
    <2>2. /\ s \in Resolving /\ s.pc = "save" /\ s.i = q.i /\ s.j = q.j
          /\ s.got = q.got
      BY <1>1 DEF Resolving
    <2>3. s.j >= 2 /\ s.i <= Len(api)
      BY SMTT(60), <1>1, <1>2, <1>3, <2>2
    <2>4. InRange(s)
      BY <1>2, <2>2, <2>3 DEF InRange, Swapping
    <2>5. ~ Descending(api)
      <3>1. SUFFICES ASSUME Descending(api) PROVE FALSE
        OBVIOUS
      <3>2. lookups = api
        BY <3>1 DEF OnlyRead
      <3>3. q.j - 1 \in 1..(Len(api) - 1) /\ (q.j - 1) + 1 = q.j
        BY SMTT(60), <1>1, <1>2, <1>3
      <3>4. Len(lookups[q.j - 1]) >= Len(lookups[q.j])
        BY <3>1, <3>2, <3>3 DEF Descending
      <3>5. Len(lookups[q.j - 1]) \in Nat /\ Len(lookups[q.j]) \in Nat
        <4>1. q.j - 1 \in 1..Len(lookups) /\ q.j \in 1..Len(lookups)
          BY SMTT(60), <1>1, <1>2, <1>3
        <4> QED
          BY <4>1, PathsArePaths, LengthsAreNumbers
      <3> QED
        BY SMTT(60), <1>3, <3>4, <3>5
    <2> HIDE DEF s
    <2>6. Becomes(r, s)
      BY <1>1, <2>1, <2>2, <2>4, <2>5, ReadStep
    <2>7. CallOK(api, lookups, q) => CallOK(api, lookups, s)
      BY <1>1, <1>3, <2>2 DEF CallOK, Sorting, Moving, Swapping
    <2> QED
      BY <1>1, <2>6, <2>7 DEF Advances
  <1>4. ASSUME ~ (q.j > 1 /\ Len(lookups[q.j]) > Len(lookups[q.j - 1]))
        PROVE  Advances(r)
    <2>1. req' = [req EXCEPT ![r] = n]
      BY <1>4 DEF SortCompare, less
    <2>2. q.i + 1 \in Nat /\ q.i + 1 >= 2 /\ q.i + 1 >= 1 /\ q.i + 1 <= q.i + 1
      BY SMTT(60), <1>1, <1>2
    <2>3. /\ n \in Resolving /\ n.pc = "less" /\ n.i = q.i + 1 /\ n.j = q.i + 1
          /\ n.got = q.got
      BY <1>1, <2>2 DEF Resolving
    <2>4. InRange(n) /\ Unswapped(n)
      BY <2>2, <2>3 DEF InRange, Unswapped, Swapping
    <2> HIDE DEF n
    <2>5. Becomes(r, n)
      BY <1>1, <2>1, <2>3, <2>4, ReadStep
    <2>6. ASSUME CallOK(api, lookups, q) PROVE CallOK(api, lookups, n)
      <3>1. InOrder(lookups, q.i, q.j) /\ Passed(lookups, q.i, q.j, lookups[q.j]) /\ q.got = NotFound
        BY <1>1, <2>6 DEF CallOK, Sorting, Moving, Swapping
      <3>2. lookups \in Seq(Seq(Segment))
        BY PathsArePaths
      <3>3. q.j > 1 => Len(lookups[q.j - 1]) >= Len(lookups[q.j])
        <4>1. SUFFICES ASSUME q.j > 1 PROVE Len(lookups[q.j - 1]) >= Len(lookups[q.j])
          OBVIOUS
        <4>2. q.j - 1 \in 1..Len(lookups) /\ q.j \in 1..Len(lookups)
          BY SMTT(60), <1>1, <1>2, <4>1
        <4>3. Len(lookups[q.j - 1]) \in Nat /\ Len(lookups[q.j]) \in Nat
          BY <3>2, <4>2, LengthsAreNumbers
        <4>4. ~ (Len(lookups[q.j]) > Len(lookups[q.j - 1]))
          BY <1>4, <4>1
        <4> QED
          BY SMTT(60), <4>3, <4>4
      <3>4. InOrder(lookups, q.i + 1, q.i + 1) /\ Passed(lookups, q.i + 1, q.i + 1, lookups[q.i + 1])
        BY <1>1, <1>2, <3>1, <3>2, <3>3, InsertedIsInOrder
      <3> QED
        BY <2>3, <3>1, <3>4 DEF CallOK, Sorting, Moving, Swapping
    <2> QED
      BY <1>1, <2>5, <2>6 DEF Advances
  <1> QED
    BY <1>1, <1>3, <1>4

\* Only a list that is not sorted is written to.
LEMMA SwappingIsUnsorted ==
  ASSUME TypeInv, OnlyRead, NEW r \in Request, req[r].pc \in Swapping
  PROVE  /\ ~ Descending(api)
         /\ req[r].j \in 2..req[r].i /\ req[r].i <= Len(lookups)
         /\ req[r].j \in 1..Len(lookups) /\ req[r].j - 1 \in 1..Len(lookups)
  <1>1. ~ Descending(api)
    BY DEF OnlyRead, Unswapped
  <1>2. req[r].j <= req[r].i /\ req[r].j >= 2 /\ req[r].i <= Len(api)
    BY DEF TypeInv, InRange
  <1>3. req[r].i \in Nat /\ req[r].j \in Nat /\ Len(api) \in Nat /\ Len(lookups) = Len(api)
    BY FieldsOfCall, PathsArePaths
  <1>4. /\ req[r].j \in 2..req[r].i /\ req[r].i <= Len(lookups)
        /\ req[r].j \in 1..Len(lookups) /\ req[r].j - 1 \in 1..Len(lookups)
    BY SMTT(60), <1>2, <1>3
  <1> QED
    BY <1>1, <1>4

\* tmp := lookups[j]
LEMMA SaveStep ==
  ASSUME TypeInv, OnlyRead, NEW r \in Request, SwapSave(r)
  PROVE  Advances(r) /\ lookups' = lookups
  <1> DEFINE q == req[r]
             n == [q EXCEPT !.pc = "move", !.tmp = lookups[q.j]]
  <1>1. /\ q \in Resolving /\ InRange(q) /\ q.pc = "save" /\ q.pc \in Swapping
        /\ req' = [req EXCEPT ![r] = n] /\ api' = api /\ lookups' = lookups
    BY FieldsOfCall DEF SwapSave, Swapping
  <1>2. q.j \in 1..Len(lookups) /\ ~ Descending(api)
    BY <1>1, SwappingIsUnsorted
  <1>3. lookups[q.j] \in Range(api) /\ lookups[q.j] \in Seq(Segment)
    BY <1>2, PathsArePaths
  <1>4. /\ n \in Resolving /\ n.pc = "move" /\ n.i = q.i /\ n.j = q.j
        /\ n.tmp = lookups[q.j] /\ n.got = q.got
    BY <1>1, <1>3 DEF Resolving
  <1>5. InRange(n)
    BY <1>1, <1>3, <1>4 DEF InRange, Swapping
  <1> HIDE DEF n
  <1>6. Becomes(r, n)
    BY <1>1, <1>2, <1>4, <1>5, ReadStep
  <1>7. CallOK(api, lookups, q) => CallOK(api, lookups, n)
    BY <1>1, <1>4 DEF CallOK, Sorting, Moving, Swapping
  <1> QED
    BY <1>1, <1>6, <1>7 DEF Advances

\* What a list is after a write.
LEMMA WrittenList ==
  ASSUME TypeInv, NEW k \in 1..Len(lookups), NEW p \in Range(api),
         lookups' = [lookups EXCEPT ![k] = p]
  PROVE  /\ lookups' \in Seq(Range(api)) /\ lookups' \in Seq(Seq(Segment))
         /\ Len(lookups') = Len(lookups)
         /\ \A o \in 1..Len(lookups) : lookups'[o] = IF o = k THEN p ELSE lookups[o]
  <1>1. lookups \in Seq(Range(api)) /\ lookups \in [1..Len(lookups) -> Range(api)]
    BY LenProperties DEF TypeInv
  <1>2. lookups' \in Seq(Range(api))
    BY <1>1, ExceptSeq
  <1>3. Len(lookups') = Len(lookups)
    BY SMTT(60), <1>1, ExceptSeq
  <1>4. \A o \in 1..Len(lookups) : lookups'[o] = IF o = k THEN p ELSE lookups[o]
    BY <1>1
  <1>5. lookups' \in Seq(Seq(Segment))
    BY <1>2, SeqMonotonic, PathsArePaths
  <1> QED
    BY <1>2, <1>3, <1>4, <1>5

\* A step of one call that writes to a list which is not sorted.
LEMMA WriteStep ==
  ASSUME TypeInv, OnlyRead, NEW r \in Request, NEW q \in Resolving,
         InRange(q), ~ Descending(api),
         req' = [req EXCEPT ![r] = q], api' = api,
         NEW k \in 1..Len(lookups), NEW p \in Range(api),
         lookups' = [lookups EXCEPT ![k] = p]
  PROVE  Becomes(r, q)
  <1>1. lookups' \in Seq(Range(api)) /\ Len(lookups') = Len(api)
    BY WrittenList DEF TypeInv
  <1>2. TypeInv'
    BY <1>1, TypesOfOneCall
  <1>3. OnlyRead'
    BY OnlyReadOfOneCall
  <1>4. req'[r] = q /\ \A s \in Request : s # r => req'[s] = req[s]
    BY DEF TypeInv
  <1> QED
    BY <1>2, <1>3, <1>4 DEF Becomes

\* lookups[j] := lookups[j-1].  The path that is overwritten is in tmp.
LEMMA MoveStep ==
  ASSUME TypeInv, OnlyRead, NEW r \in Request, SwapMove(r)
  PROVE  /\ Advances(r)
         /\ Everything /\ CallOK(api, lookups, req[r]) => Complete'
  <1> DEFINE q == req[r]
             n == [q EXCEPT !.pc = "restore"]
  <1>1. /\ q \in Resolving /\ InRange(q) /\ q.pc = "move" /\ q.pc \in Swapping
        /\ req' = [req EXCEPT ![r] = n] /\ api' = api
        /\ lookups' = [lookups EXCEPT ![q.j] = lookups[q.j - 1]]
    BY FieldsOfCall DEF SwapMove, Swapping
  <1>2. /\ q.j \in 1..Len(lookups) /\ q.j - 1 \in 1..Len(lookups) /\ ~ Descending(api)
        /\ q.j \in 2..q.i /\ q.i <= Len(lookups) /\ q.i \in Nat
    BY <1>1, SwappingIsUnsorted, FieldsOfCall
  <1>3. lookups[q.j - 1] \in Range(api) /\ lookups \in Seq(Seq(Segment)) /\ Len(lookups) = Len(api)
    BY <1>2, PathsArePaths
  <1>4. /\ n \in Resolving /\ n.pc = "restore" /\ n.i = q.i /\ n.j = q.j
        /\ n.tmp = q.tmp /\ n.got = q.got
    BY <1>1 DEF Resolving
  <1>5. InRange(n)
    BY <1>1, <1>4 DEF InRange, Swapping
  <1> HIDE DEF n
  <1>6. Becomes(r, n)
    BY <1>1, <1>2, <1>3, <1>4, <1>5, WriteStep
  <1>7. /\ lookups' \in Seq(Seq(Segment)) /\ Len(lookups') = Len(lookups)
        /\ \A k \in 1..Len(lookups) :
             lookups'[k] = IF k = q.j THEN lookups[q.j - 1] ELSE lookups[k]
    BY <1>1, <1>2, <1>3, WrittenList
  <1>8. ASSUME CallOK(api, lookups, q) PROVE CallOK(api, lookups', n)
    <2>1. /\ q.i > Len(lookups) => q.j = q.i
          /\ InOrder(lookups, q.i, q.j) /\ Passed(lookups, q.i, q.j, lookups[q.j])
          /\ Len(lookups[q.j]) > Len(lookups[q.j - 1]) /\ q.tmp = lookups[q.j]
          /\ q.got = NotFound
      BY <1>1, <1>8 DEF CallOK, Sorting, Moving, Swapping
    <2>2. /\ InOrder(lookups', q.i, q.j) /\ Passed(lookups', q.i, q.j, lookups[q.j])
          /\ lookups'[q.j] = lookups'[q.j - 1] /\ lookups'[q.j - 1] = lookups[q.j - 1]
      BY <1>2, <1>3, <1>7, <2>1, MoveKeepsOrder
    <2> QED
      BY <1>4, <1>7, <2>1, <2>2 DEF CallOK, Sorting, Moving, Swapping
  <1>9. ASSUME Everything, CallOK(api, lookups, q) PROVE Complete'
    <2>1. q.tmp = lookups[q.j]
      BY <1>1, <1>9 DEF CallOK, Sorting, Swapping
    <2>2. ASSUME NEW p \in Range(api)
          PROVE  \/ \E k \in 1..Len(api) : lookups'[k] = p
                 \/ req'[r].pc = "restore" /\ req'[r].tmp = p
      <3>1. PICK k \in 1..Len(api) : lookups[k] = p
        BY <1>9, <2>2 DEF Everything
      <3>2. CASE k = q.j
        BY <1>4, <1>6, <2>1, <3>1, <3>2 DEF Becomes
      <3>3. CASE k # q.j
        BY <1>3, <1>7, <3>1, <3>3
      <3> QED
        BY <3>2, <3>3
    <2> QED
      BY <1>1, <2>2 DEF Complete
  <1> QED
    BY <1>6, <1>8, <1>9 DEF Advances

\* lookups[j-1] := tmp.
LEMMA RestoreTypes ==
  ASSUME TypeInv, OnlyRead, NEW r \in Request, SwapRestore(r)
  PROVE  Becomes(r, [req[r] EXCEPT !.pc = "less", !.j = req[r].j - 1])
  <1> DEFINE q == req[r]
             n == [q EXCEPT !.pc = "less", !.j = q.j - 1]
  <1>1. /\ q \in Resolving /\ InRange(q) /\ q.pc = "restore" /\ q.pc \in Swapping
        /\ req' = [req EXCEPT ![r] = n] /\ api' = api
        /\ lookups' = [lookups EXCEPT ![q.j - 1] = q.tmp]
    BY FieldsOfCall DEF SwapRestore, Swapping
  <1>2. /\ q.j \in 1..Len(lookups) /\ q.j - 1 \in 1..Len(lookups) /\ ~ Descending(api)
        /\ q.j \in 2..q.i /\ q.i <= Len(lookups) /\ q.i \in Nat
    BY <1>1, SwappingIsUnsorted, FieldsOfCall
  <1>3. /\ q.tmp \in Range(api) /\ q.tmp \in Seq(Segment)
        /\ lookups \in Seq(Seq(Segment)) /\ Len(lookups) = Len(api) /\ Len(lookups) \in Nat
    BY <1>1, PathsArePaths DEF InRange
  <1>4. /\ q.j - 1 \in Nat /\ q.j - 1 >= 1 /\ q.j - 1 <= q.i /\ q.i >= 2 /\ q.j - 1 # q.j
        /\ ~ (q.i > Len(lookups))
    BY SMTT(60), <1>2, <1>3
  <1>5. /\ n \in Resolving /\ n.pc = "less" /\ n.i = q.i /\ n.j = q.j - 1
        /\ n.got = q.got
    BY <1>1, <1>4 DEF Resolving
  <1>6. InRange(n)
    BY <1>4, <1>5 DEF InRange, Swapping
  <1> HIDE DEF n
  <1>7. Becomes(r, n)
    BY <1>1, <1>2, <1>3, <1>5, <1>6, WriteStep
  <1> QED
    BY <1>7 DEF n

\* lookups[j-1] := tmp.  The path that is overwritten is at j, too.
LEMMA RestoreStep ==
  ASSUME TypeInv, OnlyRead, NEW r \in Request, SwapRestore(r), CallOK(api, lookups, req[r])
  PROVE  /\ \E q : Becomes(r, q) /\ CallOK(api, lookups', q)
         /\ Complete /\ (\A s \in Request : s = r) => Complete'
  <1> DEFINE q == req[r]
             n == [q EXCEPT !.pc = "less", !.j = q.j - 1]
  <1>1. /\ q \in Resolving /\ InRange(q) /\ q.pc = "restore" /\ q.pc \in Swapping
        /\ req' = [req EXCEPT ![r] = n] /\ api' = api
        /\ lookups' = [lookups EXCEPT ![q.j - 1] = q.tmp]
    BY FieldsOfCall DEF SwapRestore, Swapping
  <1>2. /\ q.j \in 1..Len(lookups) /\ q.j - 1 \in 1..Len(lookups) /\ ~ Descending(api)
        /\ q.j \in 2..q.i /\ q.i <= Len(lookups) /\ q.i \in Nat
    BY <1>1, SwappingIsUnsorted, FieldsOfCall
  <1>3. /\ q.tmp \in Range(api) /\ q.tmp \in Seq(Segment)
        /\ lookups \in Seq(Seq(Segment)) /\ Len(lookups) = Len(api) /\ Len(lookups) \in Nat
    BY <1>1, PathsArePaths DEF InRange
  <1>4. /\ q.j - 1 \in Nat /\ q.j - 1 >= 1 /\ q.j - 1 <= q.i /\ q.i >= 2 /\ q.j - 1 # q.j
        /\ ~ (q.i > Len(lookups))
    BY SMTT(60), <1>2, <1>3
  <1>5. /\ n \in Resolving /\ n.pc = "less" /\ n.i = q.i /\ n.j = q.j - 1
        /\ n.got = q.got
    BY <1>1, <1>4 DEF Resolving
  <1> HIDE DEF n
  <1>7. Becomes(r, n)
    BY RestoreTypes DEF n
  <1>8. /\ lookups' \in Seq(Seq(Segment)) /\ Len(lookups') = Len(lookups)
        /\ \A k \in 1..Len(lookups) :
             lookups'[k] = IF k = q.j - 1 THEN q.tmp ELSE lookups[k]
    BY <1>1, <1>2, <1>3, WrittenList
  <1>9. /\ InOrder(lookups, q.i, q.j) /\ Passed(lookups, q.i, q.j, q.tmp)
        /\ Len(q.tmp) > Len(lookups[q.j - 1]) /\ lookups[q.j] = lookups[q.j - 1]
        /\ q.got = NotFound
    BY <1>1 DEF CallOK, Sorting, Moving, Swapping
  <1>10. InOrder(lookups', q.i, q.j - 1) /\ Passed(lookups', q.i, q.j - 1, lookups'[q.j - 1])
    BY <1>2, <1>3, <1>8, <1>9, RestoreKeepsOrder
  <1>11. CallOK(api, lookups', n)
    BY <1>4, <1>5, <1>8, <1>9, <1>10 DEF CallOK, Sorting, Moving, Swapping
  <1>12. ASSUME Complete, \A s \in Request : s = r PROVE Complete'
    <2>1. ASSUME NEW p \in Range(api) PROVE \E k \in 1..Len(api) : lookups'[k] = p
      <3>1. CASE q.tmp = p
        BY <1>2, <1>3, <1>8, <3>1
      <3>2. CASE q.tmp # p
        <4>1. PICK k \in 1..Len(api) : lookups[k] = p
          BY <1>12, <2>1, <3>2 DEF Complete
        <4>2. CASE k = q.j - 1
          <5>1. lookups'[q.j] = lookups[q.j]
            BY <1>2, <1>4, <1>8
          <5> QED
            BY <1>2, <1>3, <1>9, <4>1, <4>2, <5>1
        <4>3. CASE k # q.j - 1
          BY <1>3, <1>8, <4>1, <4>3
        <4> QED
          BY <4>2, <4>3
      <3> QED
        BY <3>1, <3>2
    <2> QED
      BY <1>1, <2>1 DEF Complete
  <1> QED
    BY <1>7, <1>11, <1>12

\* The sort is done: the list is sorted, and the loop begins.
LEMMA SortDoneStep ==
  ASSUME TypeInv, OnlyRead, NEW r \in Request, SortDone(r)
  PROVE  Advances(r) /\ lookups' = lookups
  <1> DEFINE q == req[r]
             n == [q EXCEPT !.pc = "scan", !.i = 1]
  <1>1. /\ q \in Resolving /\ q.i \in Nat /\ q.pc = "less" /\ q.i > Len(lookups)
        /\ req' = [req EXCEPT ![r] = n] /\ api' = api /\ lookups' = lookups
    BY FieldsOfCall DEF SortDone
  <1>2. 1 \in Nat /\ 1 >= 1 /\ \A k \in 1..Len(lookups) : ~ (k < 1)
    BY SMTT(60)
  <1>3. n \in Resolving /\ n.pc = "scan" /\ n.i = 1 /\ n.got = q.got
    BY <1>1, <1>2 DEF Resolving
  <1>4. InRange(n) /\ Unswapped(n)
    BY <1>2, <1>3 DEF InRange, Unswapped, Swapping
  <1> HIDE DEF n
  <1>5. Becomes(r, n)
    BY <1>1, <1>3, <1>4, ReadStep
  <1>6. ASSUME CallOK(api, lookups, q) PROVE CallOK(api, lookups, n)
    <2>1. InOrder(lookups, q.i, q.i) /\ q.got = NotFound
      BY <1>1, <1>6 DEF CallOK, Sorting
    <2>2. \A k, o \in 1..Len(lookups) : k < o => Len(lookups[k]) >= Len(lookups[o])
      BY <1>1, <2>1, PathsArePaths, InOrderIsSorted
    <2> QED
      BY <1>2, <1>3, <2>1, <2>2 DEF CallOK, Scanning, Swapping
  <1> QED
    BY <1>1, <1>5, <1>6 DEF Advances

\* The first prefix of the URL that the loop meets is the longest.
LEMMA FirstIsLongest ==
  ASSUME TypeInv, Everything, NEW u \in Seq(Segment), NEW i \in 1..Len(lookups),
         HasPrefix(u, lookups[i]),
         \A k, o \in 1..Len(lookups) : k < o => Len(lookups[k]) >= Len(lookups[o]),
         \A k \in 1..Len(lookups) : k < i => ~ HasPrefix(u, lookups[k])
  PROVE  LET S == {p \in Range(api) : HasPrefix(u, p)}
         IN  S # {} /\ Longest(S) = lookups[i]
  <1> DEFINE S == {p \in Range(api) : HasPrefix(u, p)}
  <1>1. /\ S \in SUBSET Seq(Segment) /\ \A p \in S : HasPrefix(u, p)
        /\ lookups[i] \in S /\ lookups \in Seq(Seq(Segment)) /\ Len(lookups) = Len(api)
        /\ Len(lookups) \in Nat
    BY PathsArePaths
  <1>2. ASSUME NEW p \in S PROVE Len(p) <= Len(lookups[i])
    <2>1. PICK k \in 1..Len(lookups) : lookups[k] = p
      BY <1>1, <1>2 DEF Everything
    <2>2. ~ (k < i)
      BY <1>2, <2>1
    <2>3. Len(lookups[k]) \in Nat /\ Len(lookups[i]) \in Nat
      BY <1>1, LengthsAreNumbers
    <2>4. CASE k = i
      BY SMTT(60), <2>1, <2>3, <2>4
    <2>5. CASE k # i
      <3>1. i < k
        BY SMTT(60), <1>1, <2>2, <2>5
      <3>2. Len(lookups[i]) >= Len(lookups[k])
        BY <3>1
      <3> QED
        BY SMTT(60), <2>1, <2>3, <3>2
    <2> QED
      BY <2>4, <2>5
  <1>3. Longest(S) = lookups[i]
    BY <1>1, <1>2, LongestIs
  <1> QED
    BY <1>1, <1>3

\* The loop looks at one path: it is the one, or the next is looked at.
LEMMA MatchStep ==
  ASSUME TypeInv, OnlyRead, NEW r \in Request, Match(r)
  PROVE  Advances(r) /\ lookups' = lookups
  <1> DEFINE q == req[r]
             p == lookups[q.i]
             g == fabricateServing(p, SubPath(p, q.url))
             f == [q EXCEPT !.pc = "done", !.got = g]
             n == [q EXCEPT !.i = q.i + 1]
  <1>1. /\ q \in Resolving /\ q.i \in Nat /\ q.url \in Seq(Segment) /\ q.i >= 1
        /\ q.pc = "scan" /\ q.i <= Len(lookups)
        /\ api' = api /\ lookups' = lookups
    BY FieldsOfCall DEF Match, InRange
  <1>2. Len(lookups) \in Nat /\ Len(lookups) = Len(api)
    BY PathsArePaths
  <1>3. q.i \in 1..Len(lookups)
    BY SMTT(60), <1>1, <1>2
  <1>4. p \in Seq(Segment)
    BY <1>2, <1>3, PathsArePaths
  <1>5. ASSUME HasPrefix(q.url, p) PROVE Advances(r)
    <2>1. req' = [req EXCEPT ![r] = f]
      BY <1>1, <1>4, <1>5, MatchIsPrefix DEF Match
    <2>2. SubPath(p, q.url) \in Seq(Segment) /\ q.url = p \o SubPath(p, q.url)
      BY <1>1, <1>4, <1>5, SubPathIsRest
    <2>3. g \in Got
      BY <1>4, <2>2, GotTypes DEF fabricateServing
    <2>4. f \in Resolving /\ f.pc = "done" /\ f.url = q.url /\ f.got = g
      <3> HIDE DEF g
      <3> QED
        BY <1>1, <2>3 DEF Resolving
    <2>5. InRange(f) /\ Unswapped(f)
      BY <2>4 DEF InRange, Unswapped, Swapping
    <2>6. Becomes(r, f)
      <3> HIDE DEF f
      <3> QED
        BY <1>1, <2>1, <2>4, <2>5, ReadStep
    <2>7. ASSUME Everything, CallOK(api, lookups, q) PROVE CallOK(api, lookups, f)
      <3> DEFINE S == {o \in Range(api) : HasPrefix(q.url, o)}
      <3>1. Scanning(lookups, q)
        BY <1>1, <2>7 DEF CallOK
      <3>2. S # {} /\ Longest(S) = p
        BY <1>1, <1>3, <1>5, <2>7, <3>1, FirstIsLongest DEF Scanning
      <3>3. CASE p \in Broken
        <4>1. g = Failed(p)
          BY <3>3 DEF fabricateServing
        <4> HIDE DEF f, g, p
        <4>2. Right(api, f)
          BY <2>4, <3>2, <3>3, <4>1 DEF Right
        <4> QED
          BY <2>4, <4>2 DEF CallOK, Swapping
      <3>4. CASE p \notin Broken
        <4>1. g = Found(p, SubPath(p, q.url))
          BY <3>4 DEF fabricateServing
        <4> HIDE DEF f, g, p
        <4>2. g.is = "request" /\ g.prefix = p /\ g.sub = SubPath(p, q.url)
          BY <4>1 DEF Found
        <4>3. Right(api, f)
          BY <2>2, <2>4, <3>2, <3>4, <4>2 DEF Right
        <4> QED
          BY <2>4, <4>3 DEF CallOK, Swapping
      <3> QED
        BY <3>3, <3>4
    <2> HIDE DEF f
    <2> QED
      BY <1>1, <2>6, <2>7 DEF Advances
  <1>6. ASSUME ~ HasPrefix(q.url, p) PROVE Advances(r)
    <2>1. req' = [req EXCEPT ![r] = n]
      BY <1>1, <1>4, <1>6, MatchIsPrefix DEF Match
    <2>2. q.i + 1 \in Nat /\ q.i + 1 >= 1
      BY SMTT(60), <1>1
    <2>3. /\ n \in Resolving /\ n.pc = "scan" /\ n.i = q.i + 1 /\ n.url = q.url
          /\ n.got = q.got
      BY <1>1, <2>2 DEF Resolving
    <2>4. InRange(n) /\ Unswapped(n)
      BY <2>2, <2>3 DEF InRange, Unswapped, Swapping
    <2> HIDE DEF n
    <2>5. Becomes(r, n)
      BY <1>1, <2>1, <2>3, <2>4, ReadStep
    <2>6. ASSUME CallOK(api, lookups, q) PROVE CallOK(api, lookups, n)
      <3>1. Scanning(lookups, q) /\ q.got = NotFound
        BY <1>1, <2>6 DEF CallOK
      <3>2. \A k \in 1..Len(lookups) : k < q.i + 1 => k < q.i \/ k = q.i
        BY SMTT(60), <1>1, <1>2
      <3>3. \A k \in 1..Len(lookups) : k < q.i + 1 => ~ HasPrefix(q.url, lookups[k])
        BY <1>6, <3>1, <3>2 DEF Scanning
      <3> QED
        BY <2>3, <3>1, <3>3 DEF CallOK, Scanning, Swapping
    <2> QED
      BY <1>1, <2>5, <2>6 DEF Advances
  <1> QED
    BY <1>1, <1>5, <1>6

\* The loop has found nothing: no path is a prefix of the URL.
LEMMA NoMatchStep ==
  ASSUME TypeInv, OnlyRead, NEW r \in Request, NoMatch(r)
  PROVE  Advances(r) /\ lookups' = lookups
  <1> DEFINE q == req[r]
             n == [q EXCEPT !.pc = "done"]
  <1>1. /\ q \in Resolving /\ q.i \in Nat /\ q.pc = "scan" /\ q.i > Len(lookups)
        /\ req' = [req EXCEPT ![r] = n] /\ api' = api /\ lookups' = lookups
    BY FieldsOfCall DEF NoMatch
  <1>2. n \in Resolving /\ n.pc = "done" /\ n.url = q.url /\ n.got = q.got
    BY <1>1 DEF Resolving
  <1>3. InRange(n) /\ Unswapped(n)
    BY <1>2 DEF InRange, Unswapped, Swapping
  <1> HIDE DEF n
  <1>4. Becomes(r, n)
    BY <1>1, <1>2, <1>3, ReadStep
  <1>5. ASSUME Everything, CallOK(api, lookups, q) PROVE CallOK(api, lookups, n)
    <2>1. Scanning(lookups, q) /\ q.got = NotFound
      BY <1>1, <1>5 DEF CallOK
    <2>2. Len(lookups) \in Nat /\ Len(lookups) = Len(api)
      BY PathsArePaths
    <2>3. \A k \in 1..Len(lookups) : k < q.i
      BY SMTT(60), <1>1, <2>2
    <2>4. {p \in Range(api) : HasPrefix(q.url, p)} = {}
      BY <1>5, <2>1, <2>2, <2>3 DEF Everything, Scanning
    <2>5. Right(api, n)
      BY <1>2, <2>1, <2>4 DEF Right
    <2> QED
      BY <1>2, <2>5 DEF CallOK, Swapping
  <1> QED
    BY <1>1, <1>4, <1>5 DEF Advances

\* Resolve returns.
LEMMA ReturnStep ==
  ASSUME TypeInv, OnlyRead, NEW r \in Request, Return(r)
  PROVE  Advances(r) /\ lookups' = lookups
  <1> DEFINE n == Idle(req[r].got)
  <1>1. /\ req[r].got \in Got
        /\ req' = [req EXCEPT ![r] = n] /\ api' = api /\ lookups' = lookups
    BY FieldsOfCall DEF Return
  <1>2. <<>> \in Seq(Segment) /\ 0 \in Nat
    BY SMTT(60), EmptySeq
  <1>3. n \in Resolving /\ n.pc = "idle"
    BY <1>1, <1>2 DEF Idle, Resolving
  <1>4. InRange(n) /\ Unswapped(n) /\ CallOK(api, lookups, n)
    BY <1>3 DEF InRange, Unswapped, CallOK, Swapping
  <1> HIDE DEF n
  <1>5. Becomes(r, n)
    BY <1>1, <1>3, <1>4, ReadStep
  <1> QED
    BY <1>1, <1>4, <1>5 DEF Advances

-----------------------------------------------------------------------------
(* All steps together.                                                     *)

\* The calls start with the list as the API sent it.
LEMMA InitInv == Init => Inv
  <1> SUFFICES ASSUME Init PROVE Inv
    OBVIOUS
  <1>1. api \in Orders /\ lookups = api /\ api \in Seq(Seq(Segment))
    BY PathAssumption DEF Init
  <1>2. Len(api) \in Nat /\ api \in [1..Len(api) -> Seq(Segment)] /\ DOMAIN api = 1..Len(api)
    BY <1>1, LenProperties
  <1>3. \A k \in 1..Len(api) : api[k] \in Range(api)
    BY <1>2 DEF Range
  <1>4. api \in Seq(Range(api))
    BY SMTT(60), <1>1, <1>2, <1>3
  <1>5. <<>> \in Seq(Segment) /\ 0 \in Nat /\ NotFound \in Got
    BY SMTT(60), EmptySeq, GotTypes
  <1>6. Idle(NotFound) \in Resolving /\ Idle(NotFound).pc = "idle"
    BY <1>5 DEF Idle, Resolving
  <1>7. req \in [Request -> Resolving] /\ \A r \in Request : req[r].pc = "idle"
    BY <1>6 DEF Init
  <1>8. TypeInv
    BY <1>1, <1>4, <1>7 DEF TypeInv, InRange, Swapping
  <1>9. OnlyRead
    BY <1>1, <1>7 DEF OnlyRead, Unswapped, Swapping
  <1>10. Complete
    BY <1>1, <1>2 DEF Complete, Range
  <1>11. \A r \in Request : CallOK(api, lookups, req[r])
    BY <1>7 DEF CallOK, Swapping
  <1> QED
    BY <1>8, <1>9, <1>10, <1>11 DEF Inv

\* Types, and that a sorted list is only read, whatever calls run at once.
LEMMA BaseStep ==
  ASSUME TypeInv, OnlyRead, [Next]_vars
  PROVE  TypeInv' /\ OnlyRead' /\ (Descending(api) => lookups' = lookups)
  <1>1. ASSUME NEW r \in Request, Advances(r), lookups' = lookups
        PROVE  TypeInv' /\ OnlyRead' /\ (Descending(api) => lookups' = lookups)
    BY <1>1 DEF Advances, Becomes
  <1>2. ASSUME NEW r \in Request, SwapMove(r)
        PROVE  TypeInv' /\ OnlyRead' /\ ~ Descending(api)
    <2>1. TypeInv' /\ OnlyRead'
      BY <1>2, MoveStep DEF Advances, Becomes
    <2>2. req[r].pc \in Swapping
      BY <1>2 DEF SwapMove, Swapping
    <2> QED
      BY <2>1, <2>2, SwappingIsUnsorted
  <1>3. ASSUME NEW r \in Request, SwapRestore(r)
        PROVE  TypeInv' /\ OnlyRead' /\ ~ Descending(api)
    <2>1. TypeInv' /\ OnlyRead'
      BY <1>3, RestoreTypes DEF Becomes
    <2>2. req[r].pc \in Swapping
      BY <1>3 DEF SwapRestore, Swapping
    <2> QED
      BY <2>1, <2>2, SwappingIsUnsorted
  <1>4. CASE UNCHANGED vars
    BY <1>4 DEF vars, TypeInv, OnlyRead, InRange, Unswapped, Descending
  <1>5. ASSUME NEW r \in Request, NEW u \in Url, Begin(r, u)
        PROVE  TypeInv' /\ OnlyRead' /\ (Descending(api) => lookups' = lookups)
    BY <1>1, <1>5, BeginStep
  <1>6. ASSUME NEW r \in Request,
               \/ SortCompare(r) \/ SwapSave(r) \/ SortDone(r)
               \/ Match(r) \/ NoMatch(r) \/ Return(r)
        PROVE  TypeInv' /\ OnlyRead' /\ (Descending(api) => lookups' = lookups)
    BY <1>1, <1>6, CompareStep, SaveStep, SortDoneStep, MatchStep, NoMatchStep, ReturnStep
  <1> QED
    BY <1>2, <1>3, <1>4, <1>5, <1>6 DEF Next

\* A step of a call that is the only one, or does not write the list.
LEMMA OthersKeepInv ==
  ASSUME Inv, NEW r \in Request, NEW q, Becomes(r, q), CallOK(api, lookups', q), Complete',
         lookups' = lookups \/ \A s \in Request : s = r
  PROVE  Inv'
  <1>1. /\ TypeInv' /\ OnlyRead' /\ api' = api /\ req'[r] = q
        /\ \A s \in Request : s # r => req'[s] = req[s]
    BY DEF Becomes
  <1>2. ASSUME NEW s \in Request PROVE CallOK(api', lookups', req'[s])
    <2>1. CASE s = r
      BY <1>1, <2>1
    <2>2. CASE s # r
      <3>1. lookups' = lookups /\ req'[s] = req[s] /\ CallOK(api, lookups, req[s])
        BY <1>1, <2>2 DEF Inv
      <3> QED
        BY <1>1, <3>1
    <2> QED
      BY <2>1, <2>2
  <1>3. \A s \in Request : CallOK(api, lookups, req[s])'
    BY <1>2
  <1> QED
    BY <1>1, <1>3 DEF Inv

\* A step that does not write the list loses no path.
LEMMA ReadKeepsInv ==
  ASSUME Inv, NEW r \in Request, Advances(r), lookups' = lookups, Everything
  PROVE  Inv'
  <1>1. PICK q : Becomes(r, q) /\ CallOK(api, lookups', q)
    BY DEF Advances, Inv
  <1>2. api' = api
    BY <1>1 DEF Becomes
  <1>3. Complete'
    BY <1>2 DEF Complete, Everything
  <1> QED
    BY <1>1, <1>3, OthersKeepInv

\* As long as call r has nothing in tmp, no call has.
LEMMA NothingIsInTmp ==
  ASSUME Undisturbed, Inv, NEW r \in Request, req[r].pc # "restore"
  PROVE  Everything
  <1>1. ASSUME NEW s \in Request PROVE req[s].pc # "restore"
    <2>1. CASE \A x, y \in Request : x = y
      BY <2>1
    <2>2. CASE \A x \in Orders : Descending(x)
      BY <2>2 DEF Inv, TypeInv, OnlyRead, Unswapped, Swapping
    <2> QED
      BY <2>1, <2>2 DEF Undisturbed
  <1> QED
    BY <1>1 DEF Inv, Complete, Everything

\* A call that writes the list is the only one.
LEMMA WriterIsAlone ==
  ASSUME Undisturbed, Inv, NEW r \in Request, req[r].pc \in Swapping
  PROVE  \A s \in Request : s = r
  <1>1. ~ Descending(api) /\ api \in Orders
    BY SwappingIsUnsorted DEF Inv, TypeInv
  <1> QED
    BY <1>1 DEF Undisturbed

\* Every step of the calls keeps the results right.
LEMMA StepInv ==
  ASSUME Undisturbed, Inv, [Next]_vars
  PROVE  Inv'
  <1>1. TypeInv /\ OnlyRead /\ Complete
    BY DEF Inv
  <1>2. ASSUME NEW r \in Request, NEW u \in Url, Begin(r, u) PROVE Inv'
    <2>1. req[r].pc # "restore"
      BY <1>2 DEF Begin
    <2> QED
      BY <1>1, <1>2, <2>1, BeginStep, NothingIsInTmp, ReadKeepsInv
  <1>3. ASSUME NEW r \in Request, SortCompare(r) PROVE Inv'
    <2>1. req[r].pc # "restore"
      BY <1>3 DEF SortCompare
    <2> QED
      BY <1>1, <1>3, <2>1, CompareStep, NothingIsInTmp, ReadKeepsInv
  <1>4. ASSUME NEW r \in Request, SwapSave(r) PROVE Inv'
    <2>1. req[r].pc # "restore"
      BY <1>4 DEF SwapSave
    <2> QED
      BY <1>1, <1>4, <2>1, SaveStep, NothingIsInTmp, ReadKeepsInv
  <1>5. ASSUME NEW r \in Request, SwapMove(r) PROVE Inv'
    <2>1. req[r].pc # "restore" /\ req[r].pc \in Swapping
      BY <1>5 DEF SwapMove, Swapping
    <2>2. Everything /\ CallOK(api, lookups, req[r])
      BY <2>1, NothingIsInTmp DEF Inv
    <2>3. Advances(r) /\ Complete'
      BY <1>1, <1>5, <2>2, MoveStep
    <2>4. PICK q : Becomes(r, q) /\ CallOK(api, lookups', q)
      BY <2>2, <2>3 DEF Advances
    <2> QED
      BY <2>1, <2>3, <2>4, WriterIsAlone, OthersKeepInv
  <1>6. ASSUME NEW r \in Request, SwapRestore(r) PROVE Inv'
    <2>1. req[r].pc \in Swapping /\ CallOK(api, lookups, req[r])
      BY <1>6 DEF SwapRestore, Swapping, Inv
    <2>2. \A s \in Request : s = r
      BY <2>1, WriterIsAlone
    <2>3. PICK q : Becomes(r, q) /\ CallOK(api, lookups', q)
      BY <1>1, <1>6, <2>1, RestoreStep
    <2>4. Complete'
      BY <1>1, <1>6, <2>1, <2>2, RestoreStep
    <2> QED
      BY <2>2, <2>3, <2>4, OthersKeepInv
  <1>7. ASSUME NEW r \in Request, SortDone(r) PROVE Inv'
    <2>1. req[r].pc # "restore"
      BY <1>7 DEF SortDone
    <2> QED
      BY <1>1, <1>7, <2>1, SortDoneStep, NothingIsInTmp, ReadKeepsInv
  <1>8. ASSUME NEW r \in Request, Match(r) PROVE Inv'
    <2>1. req[r].pc # "restore"
      BY <1>8 DEF Match
    <2> QED
      BY <1>1, <1>8, <2>1, MatchStep, NothingIsInTmp, ReadKeepsInv
  <1>9. ASSUME NEW r \in Request, NoMatch(r) PROVE Inv'
    <2>1. req[r].pc # "restore"
      BY <1>9 DEF NoMatch
    <2> QED
      BY <1>1, <1>9, <2>1, NoMatchStep, NothingIsInTmp, ReadKeepsInv
  <1>10. ASSUME NEW r \in Request, Return(r) PROVE Inv'
    <2>1. req[r].pc # "restore"
      BY <1>10 DEF Return
    <2> QED
      BY <1>1, <1>10, <2>1, ReturnStep, NothingIsInTmp, ReadKeepsInv
  <1>11. CASE UNCHANGED vars
    <2>1. api' = api /\ lookups' = lookups /\ req' = req
      BY <1>11 DEF vars
    <2>2. TypeInv' /\ OnlyRead'
      BY <1>1, BaseStep
    <2>3. Complete'
      BY <1>1, <2>1 DEF Complete
    <2>4. \A r \in Request : CallOK(api, lookups, req[r])'
      BY <2>1 DEF Inv
    <2> QED
      BY <2>2, <2>3, <2>4 DEF Inv
  <1> QED
    BY <1>2, <1>3, <1>4, <1>5, <1>6, <1>7, <1>8, <1>9, <1>10, <1>11 DEF Next

\* The in-place sort writes nothing to a list that came sorted, however many
\* calls of Resolve share it.
THEOREM SortedIsNotWritten == Spec => SortedIsOnlyRead
  <1>1. Init => TypeInv /\ OnlyRead
    BY InitInv DEF Inv
  <1>2. TypeInv /\ OnlyRead /\ [Next]_vars => (TypeInv /\ OnlyRead)'
    BY BaseStep
  <1>3. TypeInv /\ OnlyRead /\ [Next]_vars
          => [(\A k \in 1..(Len(api) - 1) : Len(api[k]) >= Len(api[k + 1])) => lookups' = lookups]_vars
    BY BaseStep DEF Descending
  <1> QED
    BY <1>1, <1>2, <1>3, PTL DEF Spec, SortedIsOnlyRead

\* Calls of Resolve that come one after the other, and any number of calls at
\* once on lists that the API sends sorted, serve each URL from the longest
\* prefix it has.  (Two calls that sort a list at once need not: resolve_race.)
THEOREM LongestPrefixServes ==
  ASSUME Undisturbed
  PROVE  Spec => []ServedFromLongestPrefix
  <1>1. Inv => ServedFromLongestPrefix
    BY DEF Inv, CallOK, Right, ServedFromLongestPrefix, Matching
  <1>2. Inv /\ [Next]_vars => Inv'
    BY StepInv
  <1> QED
    BY <1>1, <1>2, InitInv, PTL DEF Spec

=============================================================================
