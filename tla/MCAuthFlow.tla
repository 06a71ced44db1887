----------------------------- MODULE MCAuthFlow -----------------------------
(* An instance of AuthFlow: two tabs on the pages host and a custom domain. *)
EXTENDS AuthFlow

CONSTANTS t1, t2, p, d, a, b

MCTab    == {t1, t2}
MCHost   == {p, d}
MCSite   == {[host |-> p, page |-> a], [host |-> d, page |-> a], [host |-> d, page |-> b]}
MCMember == [h \in MCHost |-> h = d]
=============================================================================
