---------------------------- MODULE ServedWindow ----------------------------
(***************************************************************************)
(* What a serving machine promises about deployments: it serves exactly    *)
(* the retention window its volume records as active, that window was      *)
(* published and is sound, and the record is replaced only while nothing   *)
(* is served (release-hydration.ts and docs/release-publication.md,        *)
(* "Resident fallback activation").  ReleaseHydration implements it.       *)
(***************************************************************************)
EXTENDS Sequences, Functions

CONSTANT Null

VARIABLES
    sound,       \* the pairings whose content passes every check
    published,   \* the windows the deployment pointer has named
    record,      \* the active window on the volume, or Null
    served       \* the window being served, or Null

vars == <<sound, published, record, served>>

Init == record = Null /\ served = Null

\* The control plane points at another window.
Publish ==
    /\ published \subseteq published'
    /\ UNCHANGED <<sound, record, served>>

\* A start records a published window once all of it is known to be sound.
Adopt(w) ==
    /\ served = Null /\ w \in published /\ Range(w) \subseteq sound
    /\ record' = w
    /\ UNCHANGED <<sound, published, served>>

Serve ==
    /\ served = Null /\ record # Null
    /\ served' = record
    /\ UNCHANGED <<sound, published, record>>

Stop ==
    /\ served # Null
    /\ served' = Null
    /\ UNCHANGED <<sound, published, record>>

Next == Publish \/ (\E w \in published : Adopt(w)) \/ Serve \/ Stop

Spec == Init /\ [][Next]_vars
=============================================================================
