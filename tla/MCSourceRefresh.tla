--------------------------- MODULE MCSourceRefresh ---------------------------
(* Small instances of SourceRefresh: builds a and b of releases 1 and 2.   *)
EXTENDS SourceRefresh

CONSTANTS j1, j2, a, b

Symmetry == Permutations(Jobs)
MCReleaseOf == (a :> 1) @@ (b :> 2)
=============================================================================
