------------------------- MODULE MCReleaseHydration -------------------------
(* Three pairings: b is compared with a, c with b.                         *)
EXTENDS ReleaseHydration, TLC

CONSTANTS a, b, c

MCPreviousOf == (a :> Null) @@ (b :> a) @@ (c :> b)
=============================================================================
