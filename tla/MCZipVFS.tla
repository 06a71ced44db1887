------------------------------- MODULE MCZipVFS -------------------------------
(* ZipVFS for TLC: two requests, for the instances of the configurations.  *)
EXTENDS ZipVFS

=============================================================================
