---------------------------- MODULE LookupSource ----------------------------
(***************************************************************************)
(* What the GitLab source promises to a request that resolves a domain,    *)
(* with no cache in sight: the request ends with an error or with a lookup *)
(* that the API has given for that very domain.  api.Resolver (Resolve) is *)
(* the interface; module DomainCache implements it.                        *)
(***************************************************************************)
CONSTANTS Client, Domain, Lookup, Nil

VARIABLES
  answered,   \* the lookups the API has given, by domain
  call        \* the Resolve call of every client

vars == <<answered, call>>

Init ==
  /\ answered = [d \in Domain |-> {}]
  /\ \A c \in Client : ~call[c].busy /\ call[c].got = Nil

\* The API is asked for a domain, by whatever part of the source.
ApiAnswers(d, lookup) ==
  /\ answered' = [answered EXCEPT ![d] = @ \cup {lookup}]
  /\ UNCHANGED call

Begin(c, d) ==
  /\ ~call[c].busy
  /\ call' = [call EXCEPT ![c] = [busy |-> TRUE, dom |-> d, got |-> Nil]]
  /\ UNCHANGED answered

Finish(c, lookup) ==
  /\ call[c].busy
  /\ lookup \in answered[call[c].dom] \/ lookup.kind = "err"
  /\ call' = [call EXCEPT ![c] = [busy |-> FALSE, dom |-> call[c].dom, got |-> lookup]]
  /\ UNCHANGED answered

Next ==
  \/ \E d \in Domain, lookup \in Lookup : ApiAnswers(d, lookup)
  \/ \E c \in Client, d \in Domain : Begin(c, d)
  \/ \E c \in Client, lookup \in Lookup : Finish(c, lookup)

Spec == Init /\ [][Next]_vars

=============================================================================
