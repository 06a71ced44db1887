---------------------------- MODULE GitlabResolve ----------------------------
(***************************************************************************)
(* Gitlab.Resolve (internal/source/gitlab/gitlab.go): it finds the lookup  *)
(* path that a request's URL belongs to.  All requests for a domain get    *)
(* the same *api.Lookup from the cache, and every one of them sorts its    *)
(* LookupPaths in place, without a lock, before it goes through them.      *)
(*                                                                         *)
(* A path is a sequence of segments.  <<>> is "/"; the prefix <<"a">> is   *)
(* "/a/" and the URL path <<"a">> is "/a", for path.Clean removes the last *)
(* slash of a URL.  Segments are equally long, so the length of a prefix   *)
(* is the number of its segments.                                          *)
(***************************************************************************)
EXTENDS Naturals, Sequences, Functions

CONSTANTS
  Segment,  \* what paths are made of
  Request,  \* requests in progress at the same time
  Url,      \* the paths they ask for
  Broken,   \* prefixes whose fabricateServing fails (no zip, disk disabled)
  Orders    \* the LookupPaths the API may have sent, a set of sequences

ASSUME PathAssumption ==
  /\ Url \subseteq Seq(Segment)
  /\ Orders \subseteq Seq(Seq(Segment))

VARIABLES
  api,      \* the LookupPaths as the API sent them
  lookups,  \* response.Domain.LookupPaths, shared by all requests
  req       \* the state of every Resolve call

vars == <<api, lookups, req>>

Found(p, sub) == [is |-> "request", prefix |-> p, sub |-> sub]
Failed(p)     == [is |-> "error", prefix |-> p, sub |-> <<>>]
NotFound      == [is |-> "none", prefix |-> <<>>, sub |-> <<>>]  \* ErrDomainDoesNotExist

Idle(got) == [pc |-> "idle", url |-> <<>>, i |-> 0, j |-> 0, tmp |-> <<>>, got |-> got]

Init ==
  /\ api \in Orders
  /\ lookups = api
  /\ req = [r \in Request |-> Idle(NotFound)]

(***************************************************************************)
(* isSubPath and isRootPath.  A cleaned URL has the string prefix "/a/" if *)
(* it goes on below "/a"; it equals the cleaned prefix if it is "/a".      *)
(***************************************************************************)
HasPrefix(url, prefix) == Len(prefix) <= Len(url) /\ prefix = SubSeq(url, 1, Len(prefix))

IsSubPath(prefix, url)  == HasPrefix(url, prefix) /\ (url # prefix \/ prefix = <<>>)
IsRootPath(prefix, url) == url = prefix

SubPath(prefix, url) ==
  IF IsSubPath(prefix, url) THEN SubSeq(url, Len(prefix) + 1, Len(url)) ELSE <<>>

fabricateServing(p, sub) == IF p \in Broken THEN Failed(p) ELSE Found(p, sub)

\* A call whose client.Resolve fails returns here and changes nothing.
Begin(r, u) ==
  /\ req[r].pc = "idle"
  /\ req' = [req EXCEPT ![r] =
       [pc |-> "less", url |-> u, i |-> 2, j |-> 2, tmp |-> <<>>, got |-> NotFound]]
  /\ UNCHANGED <<api, lookups>>

-----------------------------------------------------------------------------
(* sort.SliceStable: insertion by exchanges of neighbours, an exchange     *)
(* being three copies.  (Blocks of up to 20 elements are sorted so.)       *)

\* Mutant: the shortest prefix first.
ShorterFirst(x, y) == Len(x) < Len(y)

less(x, y) == Len(x) > Len(y)

\* Mutant: exchanges without looking at the order first.
CompareAlwaysSwaps(r) ==
  LET q == req[r] IN
  /\ q.pc = "less"
  /\ q.i <= Len(lookups)
  /\ req' = [req EXCEPT ![r] =
       IF q.j > 1 THEN [q EXCEPT !.pc = "save"] ELSE [q EXCEPT !.i = q.i + 1, !.j = q.i + 1]]
  /\ UNCHANGED <<api, lookups>>

SortCompare(r) ==
  LET q == req[r] IN
  /\ q.pc = "less"
  /\ q.i <= Len(lookups)
  /\ req' = [req EXCEPT ![r] =
       IF q.j > 1 /\ less(lookups[q.j], lookups[q.j - 1])
       THEN [q EXCEPT !.pc = "save"]
       ELSE [q EXCEPT !.i = q.i + 1, !.j = q.i + 1]]
  /\ UNCHANGED <<api, lookups>>

SwapSave(r) ==
  LET q == req[r] IN
  /\ q.pc = "save"
  /\ req' = [req EXCEPT ![r] = [q EXCEPT !.pc = "move", !.tmp = lookups[q.j]]]
  /\ UNCHANGED <<api, lookups>>

SwapMove(r) ==
  LET q == req[r] IN
  /\ q.pc = "move"
  /\ lookups' = [lookups EXCEPT ![q.j] = lookups[q.j - 1]]
  /\ req' = [req EXCEPT ![r] = [q EXCEPT !.pc = "restore"]]
  /\ UNCHANGED api

SwapRestore(r) ==
  LET q == req[r] IN
  /\ q.pc = "restore"
  /\ lookups' = [lookups EXCEPT ![q.j - 1] = q.tmp]
  /\ req' = [req EXCEPT ![r] = [q EXCEPT !.pc = "less", !.j = q.j - 1]]
  /\ UNCHANGED api

SortDone(r) ==
  LET q == req[r] IN
  /\ q.pc = "less"
  /\ q.i > Len(lookups)
  /\ req' = [req EXCEPT ![r] = [q EXCEPT !.pc = "scan", !.i = 1]]
  /\ UNCHANGED <<api, lookups>>

-----------------------------------------------------------------------------
(* for _, lookup := range response.Domain.LookupPaths                      *)

Match(r) ==
  LET q == req[r]  p == lookups[q.i] IN
  /\ q.pc = "scan" /\ q.i <= Len(lookups)
  /\ req' = [req EXCEPT ![r] =
       IF IsSubPath(p, q.url) \/ IsRootPath(p, q.url)
       THEN [q EXCEPT !.pc = "done", !.got = fabricateServing(p, SubPath(p, q.url))]
       ELSE [q EXCEPT !.i = q.i + 1]]
  /\ UNCHANGED <<api, lookups>>

NoMatch(r) ==
  LET q == req[r] IN
  /\ q.pc = "scan" /\ q.i > Len(lookups)
  /\ req' = [req EXCEPT ![r] = [q EXCEPT !.pc = "done"]]
  /\ UNCHANGED <<api, lookups>>

Return(r) ==
  /\ req[r].pc = "done"
  /\ req' = [req EXCEPT ![r] = Idle(req[r].got)]
  /\ UNCHANGED <<api, lookups>>

-----------------------------------------------------------------------------

Next ==
  \E r \in Request :
    \/ \E u \in Url : Begin(r, u)
    \/ SortCompare(r) \/ SwapSave(r) \/ SwapMove(r) \/ SwapRestore(r) \/ SortDone(r)
    \/ Match(r) \/ NoMatch(r) \/ Return(r)

Spec == Init /\ [][Next]_vars

-----------------------------------------------------------------------------
(* Properties                                                              *)

Prefix == UNION {Range(s) : s \in Orders}

TypeOK ==
  /\ api \in Orders
  /\ Len(lookups) = Len(api) /\ Range(lookups) \subseteq Range(api)
  /\ req \in [Request ->
       [pc  : {"idle", "less", "save", "move", "restore", "scan", "done"},
        url : Url \cup {<<>>},
        i   : 0..(Len(api) + 2),
        j   : 0..(Len(api) + 2),
        tmp : Prefix \cup {<<>>},
        got : [is : {"request", "error", "none"}, prefix : Prefix \cup {<<>>},
               sub : {SubSeq(u, k, Len(u)) : u \in Url, k \in 1..4}]]]

\* The lookup paths, from which the one of a URL is to be chosen.
Matching(url) == {p \in Range(api) : HasPrefix(url, p)}

Longest(S) == CHOOSE p \in S : \A q \in S : Len(q) <= Len(p)

(***************************************************************************)
(* A URL is served from the most specific of the lookup paths it belongs   *)
(* to, with the rest of the URL below it, and fails if that one cannot be   *)
(* served, whatever shorter ones there are: "to ensure the group level       *)
(* domain with prefix "/" is the last one to be checked" (comment of       *)
(* sortLookupsByPrefixLengthDesc).                                         *)
(***************************************************************************)
ServedFromLongestPrefix ==
  \A r \in Request : req[r].pc = "done" =>
    LET S == Matching(req[r].url) IN
    IF S = {} THEN req[r].got = NotFound
    ELSE IF Longest(S) \in Broken THEN req[r].got = Failed(Longest(S))
    ELSE /\ req[r].got.is = "request"
         /\ req[r].got.prefix = Longest(S)
         /\ req[r].url = Longest(S) \o req[r].got.sub

\* A list that is sorted is only read, so that any number of requests may
\* share it: the in-place sort writes nothing.
SortedIsOnlyRead ==
  [][(\A k \in 1..(Len(api) - 1) : Len(api[k]) >= Len(api[k + 1]))
       => lookups' = lookups]_vars

=============================================================================
