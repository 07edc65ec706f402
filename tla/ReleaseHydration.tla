-------------------------- MODULE ReleaseHydration --------------------------
(***************************************************************************)
(* The start of a serving machine: ReleaseHydrator and                     *)
(* VerifiedReleaseRuntime.load bring the deployments that the pointer      *)
(* names onto the local volume, verify them, record them as active and     *)
(* remove the others, or reactivate the recorded ones when the pointer's   *)
(* cannot be had.  The process may stop between any two steps; the volume  *)
(* keeps what was written.                                                 *)
(*                                                                         *)
(* A pairing's directory is the set of contents in it: its own analysis    *)
(* and the previous one it is compared with.  What is wrong with a pairing *)
(* is told apart by where the code notices it.                             *)
(***************************************************************************)
EXTENDS Naturals, FiniteSets, DistinctSequences

CONSTANTS
    Null,
    Pairings,
    PreviousOf,   \* the pairing whose analysis a pairing is compared with, or Null
    Origin,       \* the first pairing published
    MaxHistory,   \* DEPLOYMENT_RETENTION_HISTORY_LIMIT
    Capacity, Spill, Reserve,   \* of the volume, in contents
    MaxStops      \* bound on crashes and restarts

\* "invalid" metadata is refused while it is read, a bad Opportunity "index"
\* once its files are written, and "smoke" by the queries of the start.
Defects == {"invalid", "index", "smoke"}
Kinds == {"good"} \union Defects

ASSUME HydrationAssumption ==
    /\ PreviousOf \in [Pairings -> Pairings \union {Null}]
    /\ Origin \in Pairings
    /\ Null \notin Pairings /\ Null \notin Seq(Pairings)
    /\ \A S \in SUBSET Pairings : Null # S
    /\ {MaxHistory, Capacity, Spill, Reserve, MaxStops} \subseteq Nat

VARIABLES
    kind,       \* what each immutable pairing is, found out by verifying it
    up,         \* the object store answers
    pointer,    \* the active deployment pointer: current first, then history
    published,  \* history variable: the windows it has named
    dir,        \* the volume: each pairing's directory, or Null
    record,     \* active-deployment.json: a window, or Null
    pc,         \* where the start is
    window,     \* the window being brought up
    mode,       \* the Deployment Activation Mode
    stage,      \* where the hydration of each pairing is
    stops

disk == <<dir, record>>
memory == <<pc, window, mode, stage>>
remote == <<kind, up, pointer, published>>
vars == <<remote, disk, memory, stops>>

Contents(p) == {p} \union ({PreviousOf[p]} \ {Null})
IsComplete(p) == dir[p] # Null /\ dir[p] = Contents(p)
Resident == UNION {dir[p] : p \in {q \in Pairings : dir[q] # Null}}
Intact(w) == \A p \in Range(w) : IsComplete(p)

-----------------------------------------------------------------------------
(* Hydrating one pairing.  Failures are of two sorts: one that only says   *)
(* the remote candidate cannot be had, and any other.                      *)

\* Fault: nothing is reactivated.
FailsClosed == "failed"

\* hydrateCurrent: a RemoteCandidateActivationError leads to the record, any
\* other error out of the start.
RemoteFailure == "fallback"
OtherFailure == "failed"

\* The first failure ends Promise.all; hydrations under way go on unobserved.
Fail(p, to) ==
    /\ pc' = IF pc = "hydrating" THEN to ELSE pc
    /\ stage' = [stage EXCEPT ![p] = "idle"]
    /\ UNCHANGED <<window, mode>>

\* The current pairing first, then its history all at once.
Done(p) ==
    LET finished == [stage EXCEPT ![p] = "done"]
    IN /\ stage' = [q \in Pairings |->
                      IF pc = "hydrating" /\ p = window[1] /\ q \in Range(Tail(window))
                      THEN "reading" ELSE finished[q]]
       /\ pc' = IF pc = "hydrating" /\ \A q \in Range(window) : stage'[q] = "done"
                THEN "opening" ELSE pc
       /\ UNCHANGED <<window, mode>>

\* readVerifiedObject and readRecommendedDatasetMapping: manifest, catalog,
\* mapping and packages have their identities, schemas and cross-references.
MetadataIsValid(p) == kind[p] # "invalid"

\* verifyResidentOpportunityIndex: the index describes its artifact and answers.
IndexVerifies(p) == kind[p] # "index"

\* verifyResidentReleaseBase: the pairing's own files, and its index.
BaseVerifies(p) == p \in dir[p] /\ IndexVerifies(p)

\* ensureResidentPreviousAnalysis: a previous analysis that is missing is
\* fetched, through a partial file.
WithPrevious(p) == [dir EXCEPT ![p] = Contents(p)]

\* hydratePairing: the manifest is read from the store even when the pairing
\* is resident.
ReadPairing(p) ==
    /\ stage[p] = "reading"
    /\ UNCHANGED <<remote, record, stops>>
    /\ \/ /\ ~up \/ ~MetadataIsValid(p)
          /\ Fail(p, RemoteFailure) /\ UNCHANGED dir
       \/ /\ up /\ MetadataIsValid(p)
          /\ \/ /\ dir[p] = Null
                /\ stage' = [stage EXCEPT ![p] = "downloading"]
                /\ UNCHANGED <<dir, pc, window, mode>>
             \/ /\ dir[p] # Null /\ ~BaseVerifies(p)
                /\ Fail(p, OtherFailure) /\ UNCHANGED dir
             \/ /\ dir[p] # Null /\ BaseVerifies(p)
                /\ dir' = WithPrevious(p)
                /\ Done(p)

\* Fault: the files are written in the directory itself.
WrittenInPlace(p) == Done(p) /\ \E kept \in SUBSET Contents(p) : dir' = [dir EXCEPT ![p] = kept]

\* The finished .partial directory is renamed.
Renamed(p) == Done(p) /\ dir' = [dir EXCEPT ![p] = Contents(p)]

\* materializeVerified: a content some directory holds is linked, another is
\* downloaded; the index is verified before the rename.
Materialize(p) ==
    /\ stage[p] = "downloading"
    /\ UNCHANGED <<remote, record, stops>>
    /\ \/ /\ ~up /\ ~(Contents(p) \subseteq Resident)
          /\ Fail(p, RemoteFailure) /\ UNCHANGED dir
       \/ /\ up \/ Contents(p) \subseteq Resident
          /\ \/ ~IndexVerifies(p) /\ Fail(p, OtherFailure) /\ UNCHANGED dir
             \/ IndexVerifies(p) /\ Renamed(p)

-----------------------------------------------------------------------------
(* The start.                                                              *)

\* hydrateCurrent: the pointer is read.
ReadPointer ==
    /\ pc = "starting"
    /\ UNCHANGED <<remote, disk, stops, mode>>
    /\ \/ ~up /\ pc' = RemoteFailure /\ UNCHANGED <<window, stage>>
       \/ /\ up
          /\ window' = pointer /\ pc' = "hydrating"
          /\ stage' = [stage EXCEPT ![pointer[1]] = "reading"]

\* verifyResidentPairing: every recorded pairing is verified again.
Verifies(w) == Intact(w) /\ \A p \in Range(w) : MetadataIsValid(p) /\ IndexVerifies(p)

\* hydrateResidentActivation.
Fallback ==
    /\ pc = "fallback"
    /\ UNCHANGED <<remote, disk, stops, stage>>
    /\ \/ /\ ~(record # Null /\ Verifies(record))
          /\ pc' = "failed" /\ UNCHANGED <<window, mode>>
       \/ /\ record # Null /\ Verifies(record)
          /\ window' = record /\ mode' = "fallback" /\ pc' = "opening"

\* calculateDeploymentRetentionFootprint: each content once, spill for each.
Footprint(w) == Cardinality(UNION {Contents(p) : p \in Range(w)}) + Spill * Len(w)

\* evaluateDeploymentRetentionHeadroom against the bytes that are free now.
Fits(w) == Capacity >= Cardinality(Resident) + Footprint(w) + Reserve

\* Fault: only the current bundle is smoke-tested.
CurrentSmokes(w) == kind[w[1]] # "smoke"

\* verifyStartupSmoke of every bundle.
Smokes(w) == \A p \in Range(w) : kind[p] # "smoke"

\* VerifiedReleaseRuntime.load from the headroom check to the commit.
Open ==
    /\ pc = "opening"
    /\ UNCHANGED <<remote, disk, stops, window, mode, stage>>
    /\ \/ ~Fits(window) /\ pc' = "failed"
       \/ Fits(window) /\ ~Smokes(window) /\ pc' = "failed"
       \/ /\ Fits(window) /\ Smokes(window)
          /\ pc' = IF mode = "current" THEN "committing" ELSE "serving"

\* commitResidentActivation: the record is replaced by a rename.
Commit ==
    /\ pc = "committing"
    /\ record' = window
    /\ pc' = "pruning"
    /\ UNCHANGED <<remote, dir, stops, window, mode, stage>>

\* Fault: what the pointer names now is kept.
PointerExpired == {p \in Pairings : dir[p] # Null /\ p \notin Range(pointer)}

\* pruneInactivePairings: the directories outside the window.
Expired == {p \in Pairings : dir[p] # Null /\ p \notin Range(window)}

\* Removing a directory is not atomic: its files go one by one.
Prune(p) ==
    /\ pc = "pruning" /\ p \in Expired
    /\ \/ /\ \E c \in dir[p] : dir' = [dir EXCEPT ![p] = @ \ {c}]
       \/ dir[p] = {} /\ dir' = [dir EXCEPT ![p] = Null]
    /\ UNCHANGED <<remote, record, memory, stops>>

\* startApplicationRuntime: the runtime is installed.
Install ==
    /\ pc = "pruning" /\ Expired = {}
    /\ pc' = "serving"
    /\ UNCHANGED <<remote, disk, stops, window, mode, stage>>

-----------------------------------------------------------------------------
(* The process and its surroundings.                                       *)

Forgotten == /\ pc' = "starting" /\ window' = <<>> /\ mode' = "current"
             /\ stage' = [p \in Pairings |-> "idle"]

\* A crash, or a restart, at any moment.
Stop ==
    /\ pc # "failed" /\ stops < MaxStops
    /\ stops' = stops + 1
    /\ Forgotten
    /\ UNCHANGED <<remote, disk>>

\* A failed start is never retried by the process; its machine is restarted.
Restart ==
    /\ pc = "failed"
    /\ Forgotten
    /\ UNCHANGED <<remote, disk, stops>>

\* ReleasePublisher: a promotion or a rollback (see SourceRefresh).
Activate(p) ==
    /\ p # pointer[1]
    /\ pointer' = LET others == IF p \in ToSet(pointer) THEN Without(pointer, p) ELSE pointer
                  IN <<p>> \o SubSeq(others, 1, IF Len(others) < MaxHistory
                                                THEN Len(others) ELSE MaxHistory)
    /\ published' = published \union {pointer'}
    /\ UNCHANGED <<kind, up, disk, memory, stops>>

\* The object store goes away or comes back.
Toggle ==
    /\ up' = ~up
    /\ UNCHANGED <<kind, pointer, published, disk, memory, stops>>

Init ==
    /\ kind \in [Pairings -> Kinds] /\ kind[Origin] = "good"
    /\ up = TRUE
    /\ pointer = <<Origin>> /\ published = {<<Origin>>}
    /\ dir = [p \in Pairings |-> Null] /\ record = Null
    /\ pc = "starting" /\ window = <<>> /\ mode = "current"
    /\ stage = [p \in Pairings |-> "idle"]
    /\ stops = 0

Step ==
    \/ ReadPointer \/ Fallback \/ Open \/ Commit \/ Install
    \/ \E p \in Pairings : ReadPairing(p) \/ Materialize(p) \/ Prune(p)

Next == Step \/ Stop \/ Restart \/ Toggle \/ (\E p \in Pairings : Activate(p))

\* The event loop runs what it can, and a failed machine is restarted.
Fairness == WF_vars(Step) /\ WF_vars(Restart)

Spec == Init /\ [][Next]_vars /\ Fairness

-----------------------------------------------------------------------------
HasRoom == record # Null => Fits(record)

\* Everything the record names is on the volume, whole and sound, whatever
\* was interrupted: a commit comes after the files, and pruning spares them.
RecordIsIntact ==
    record # Null => Intact(record) /\ \A p \in Range(record) : kind[p] = "good"

\* After an authoritative start the volume holds the window and nothing else.
OnlyTheWindowRemains ==
    pc = "serving" /\ mode = "current" =>
        {p \in Pairings : dir[p] # Null} = Range(window)

\* Through an outage of the object store a machine with a record always comes
\* back: it serves, unless the volume has too little room to open the window.
OutageIsSurvived ==
    <>[]~up => [](record # Null => <>(pc = "serving" \/ ~HasRoom))

\* The start implements the promise of ServedWindow.
Promise == INSTANCE ServedWindow WITH
    sound <- {p \in Pairings : kind[p] = "good"},
    served <- IF pc = "serving" THEN window ELSE Null

ServesTheRecord == Promise!Spec

\* A start whose candidate is bad reactivates what the volume records, as
\* docs/production-deployment.md and release-hydration.ts:133 say: with every
\* directory whole it does not fail while the recorded window fits.
BadTargetFallsBack ==
    /\ pc = "failed" /\ record # Null
    /\ \A p \in Pairings : dir[p] = Null \/ IsComplete(p)
    => ~HasRoom
=============================================================================
