---------------------------- MODULE MCDomainCache ----------------------------
(* Small instances of DomainCache for TLC.                                 *)
EXTENDS DomainCache

=============================================================================
