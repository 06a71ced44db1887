---------------------------- MODULE MCArchiveFile ----------------------------
(* An instance of ArchiveFile: a stored and a deflated file of an object    *)
(* that is replaced by a shorter one.                                       *)
EXTENDS ArchiveFile, TLC

CONSTANTS stored, deflated, h1, h2, d1, d2

MCHandle   == {h1, h2}
MCSize     == <<5, 3>>
MCEntry    == {stored, deflated}
MCHeader   == deflated :> 0 @@ stored :> 3
MCData     == deflated :> 1 @@ stored :> 4
MCLength   == deflated :> 2 @@ stored :> 1
MCMethod   == stored :> "store" @@ deflated :> "deflate"
MCDeflater == {d1, d2}
MCSymmetry == Permutations(MCHandle) \cup Permutations(MCDeflater)
=============================================================================
