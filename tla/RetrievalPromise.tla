--------------------------- MODULE RetrievalPromise ---------------------------
(***************************************************************************)
(* What the cache may expect of Retriever.Retrieve, and what module        *)
(* DomainCache builds into its actions Answer and Tick: a retrieval gives  *)
(* one lookup, with a domain or an error, and time does not pass its       *)
(* deadline before it has.                                                 *)
(***************************************************************************)
EXTENDS Naturals

CONSTANTS RetrievalTimeout, MaxTime

VARIABLES
  now,      \* time since the retrieval began
  running,  \* Retrieve has been called and has not returned
  answer    \* the lookup it returned, "none" before

Kind == {"ok", "gone", "err"}

Init == now = 0 /\ running = FALSE /\ answer = "none"

Call ==
  /\ ~running /\ answer = "none"
  /\ running' = TRUE
  /\ UNCHANGED <<now, answer>>

Answer ==
  /\ running
  /\ running' = FALSE
  /\ answer' \in Kind
  /\ UNCHANGED now

Tick ==
  /\ running => now < RetrievalTimeout
  /\ now < MaxTime
  /\ now' = now + 1
  /\ UNCHANGED <<running, answer>>

Next == Call \/ Answer \/ Tick

Spec == Init /\ [][Next]_<<now, running, answer>>

=============================================================================
