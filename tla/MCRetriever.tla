----------------------------- MODULE MCRetriever -----------------------------
(* Retriever for TLC: three attempts, one unit of time apart, in four.     *)
EXTENDS Retriever

=============================================================================
