----------------------- MODULE ReleaseHydrationProofs -----------------------
(***************************************************************************)
(* Proofs about the retained window.  First the start of a serving machine:*)
(* what the volume records as active is always whole and sound, an         *)
(* authoritative start leaves nothing else behind, and the start           *)
(* implements ServedWindow, for any pairings, retention, room and number   *)
(* of crashes.  Then the promotions and rollbacks that make the window, by *)
(* any number of publishers, and the packages its builds are served with.  *)
(***************************************************************************)
EXTENDS ReleaseHydration, TLAPS

CONSTANTS Requirements, Analysis, Product, Opportunity, Publishers, Candidates, Legacy,
          Volume, MaxOperations
VARIABLES operation, operations, runtime
Retained == INSTANCE RetainedPairings
-----------------------------------------------------------------------------
Windows == {w \in Seq(Pairings) : w # <<>> /\ IsInjective(w)}

Places == {"starting", "hydrating", "fallback", "opening", "committing",
           "pruning", "serving", "failed"}

TypeOK ==
  /\ kind \in [Pairings -> Kinds]
  /\ up \in BOOLEAN
  /\ pointer \in Windows
  /\ published \in SUBSET Windows
  /\ dir \in [Pairings -> {Null} \cup SUBSET Pairings]
  /\ record \in Windows \cup {Null}
  /\ pc \in Places
  /\ window \in Windows \cup {<<>>}
  /\ mode \in {"current", "fallback"}
  /\ stage \in [Pairings -> {"idle", "reading", "downloading", "done"}]

(* A window none of whose pairings has a defect.                           *)
Sound(w) == \A p \in Range(w) : kind[p] = "good"

(* What the window in memory is at each place of the start.                *)
WindowOK ==
  /\ pc = "starting" => mode = "current" /\ \A p \in Pairings : stage[p] = "idle"
  /\ pc \in {"hydrating", "committing", "pruning", "fallback"} => mode = "current"
  /\ mode = "current" /\ pc \in {"hydrating", "opening", "committing", "pruning"} =>
       window # <<>> /\ window \in published
  /\ pc = "committing" => Intact(window) /\ Sound(window)
  /\ mode = "fallback" \/ pc \in {"pruning", "serving"} => record # Null /\ window = record

(* A hydration that is done has left its pairing whole and its metadata    *)
(* and index verified; an authoritative start hydrates its window only,    *)
(* and goes on when all of it is done.                                     *)
StagesOK ==
  /\ mode = "current" => \A p \in Pairings : stage[p] # "idle" => p \in Range(window)
  /\ mode = "current" => \A p \in Pairings : stage[p] = "done" =>
       IsComplete(p) /\ MetadataIsValid(p) /\ IndexVerifies(p)
  /\ \A p \in Pairings : stage[p] = "downloading" => MetadataIsValid(p)
  /\ mode = "current" /\ pc \in {"opening", "committing", "pruning", "serving"} =>
       \A p \in Range(window) : stage[p] = "done"

(* The inductive invariant.                                                *)
HInv ==
  /\ TypeOK
  /\ pointer \in published
  /\ record # Null => record \in published
  /\ WindowOK
  /\ StagesOK
  /\ RecordIsIntact
  /\ OnlyTheWindowRemains

USE HydrationAssumption

-----------------------------------------------------------------------------
(* What a complete directory holds are pairings, and it is a directory.    *)
LEMMA ContentsArePairings ==
  \A p \in Pairings : Contents(p) \in SUBSET Pairings /\ Contents(p) # Null
<1>1. \A p \in Pairings : Contents(p) \in SUBSET Pairings
  BY DEF Contents
<1> QED BY <1>1

(* A window lists pairings, the current one first.                         *)
LEMMA WindowElements ==
  ASSUME NEW w \in Windows
  PROVE  /\ Range(w) \subseteq Pairings
         /\ w[1] \in Range(w)
         /\ Range(Tail(w)) \subseteq Range(w)
<1>1. w \in Seq(Pairings) /\ w # <<>> /\ Len(w) \in Nat /\ DOMAIN w = 1..Len(w)
  BY DEF Windows
<1>2. Len(w) > 0
  BY <1>1
<1>3. w[1] \in Range(w)
  BY <1>1, <1>2 DEF Range
<1>4. Range(w) \subseteq Pairings
  BY <1>1 DEF Range
<1>5. \A i \in 1..Len(Tail(w)) : i + 1 \in 1..Len(w) /\ Tail(w)[i] = w[i + 1]
  BY <1>1, <1>2
<1>6. Range(Tail(w)) \subseteq Range(w)
  <2>1. Tail(w) \in Seq(Pairings) /\ DOMAIN Tail(w) = 1..Len(Tail(w))
    BY <1>1, <1>2
  <2> QED BY <1>1, <1>5, <2>1 DEF Range
<1> QED BY <1>3, <1>4, <1>6

(* The steps of the start that leave the volume and the pointer alone, and *)
(* do not replace the record, keep what is recorded.                       *)
LEMMA RecordStays ==
  ASSUME HInv, UNCHANGED <<kind, dir, record>>
  PROVE  RecordIsIntact'
BY DEF HInv, RecordIsIntact, Intact, IsComplete

-----------------------------------------------------------------------------
LEMMA InitHInv == Init => HInv
<1> SUFFICES ASSUME Init PROVE HInv
  OBVIOUS
<1>1. <<Origin>> \in Windows
  BY DEF Windows, IsInjective
<1>2. TypeOK
  BY <1>1 DEF Init, TypeOK, Places
<1> QED BY <1>2 DEF Init, HInv, WindowOK, StagesOK, RecordIsIntact, OnlyTheWindowRemains

(* A hydration that fails ends an undecided start.                         *)
LEMMA FailKeepsHInv ==
  ASSUME HInv, NEW p \in Pairings, stage[p] \in {"reading", "downloading"},
         NEW to \in {"fallback", "failed"}, Fail(p, to), UNCHANGED <<remote, disk>>
  PROVE  HInv'
<1> USE DEF remote, disk
<1>1. /\ pc' = IF pc = "hydrating" THEN to ELSE pc
      /\ stage' = [stage EXCEPT ![p] = "idle"]
      /\ window' = window /\ mode' = mode
  BY DEF Fail
<1>2. TypeOK'
  BY <1>1 DEF HInv, TypeOK, Places
<1>3. \A q \in Pairings : stage'[q] = IF q = p THEN "idle" ELSE stage[q]
  BY <1>1 DEF HInv, TypeOK
<1>4. mode = "current" => p \in Range(window)
                          /\ pc \notin {"opening", "committing", "pruning", "serving"}
  BY DEF HInv, StagesOK
<1>5. WindowOK'
  BY <1>1, <1>3 DEF HInv, WindowOK, Intact, IsComplete, Sound
<1>6. StagesOK'
  BY <1>1, <1>3, <1>4 DEF HInv, StagesOK, IsComplete, MetadataIsValid, IndexVerifies
<1>7. RecordIsIntact'
  BY RecordStays
<1>8. OnlyTheWindowRemains'
  BY <1>1, <1>4 DEF HInv, OnlyTheWindowRemains
<1> QED BY <1>2, <1>5, <1>6, <1>7, <1>8 DEF HInv

(* A hydration that is done leaves a whole directory in one step.          *)
LEMMA DoneKeepsHInv ==
  ASSUME HInv, NEW p \in Pairings, stage[p] \in {"reading", "downloading"},
         MetadataIsValid(p), IndexVerifies(p),
         dir' = [dir EXCEPT ![p] = Contents(p)], Done(p),
         UNCHANGED <<remote, record>>
  PROVE  HInv'
<1> USE DEF remote
<1>1. /\ window' = window /\ mode' = mode
      /\ stage' = [q \in Pairings |->
           IF pc = "hydrating" /\ p = window[1] /\ q \in Range(Tail(window))
           THEN "reading" ELSE [stage EXCEPT ![p] = "done"][q]]
      /\ pc' = IF pc = "hydrating" /\ \A q \in Range(window) : stage'[q] = "done"
               THEN "opening" ELSE pc
  BY DEF Done
<1>2. /\ kind \in [Pairings -> Kinds]
      /\ dir \in [Pairings -> {Null} \cup SUBSET Pairings]
      /\ stage \in [Pairings -> {"idle", "reading", "downloading", "done"}]
      /\ window \in Windows \cup {<<>>} /\ record \in Windows \cup {Null}
  BY DEF HInv, TypeOK
<1>3. TypeOK'
  BY <1>1, <1>2, ContentsArePairings DEF HInv, TypeOK, Places
<1>4. \A q \in Pairings : IsComplete(q) \/ q = p => IsComplete(q)'
  BY <1>2, ContentsArePairings DEF IsComplete, Contents
<1>5. \A q \in Pairings :
        \/ stage'[q] = "reading" /\ pc = "hydrating" /\ q \in Range(Tail(window))
        \/ stage'[q] = "done" /\ q = p
        \/ stage'[q] = stage[q] /\ q # p
  BY <1>1, <1>2
<1>6. mode = "current" => p \in Range(window)
                          /\ pc \notin {"opening", "committing", "pruning", "serving"}
  BY DEF HInv, StagesOK
<1>7. pc = "hydrating" => mode = "current" /\ window \in Windows
  BY <1>2 DEF HInv, WindowOK
<1>8. pc # "starting"
  BY DEF HInv, WindowOK
<1>9. WindowOK'
  BY <1>1, <1>6, <1>7, <1>8 DEF HInv, WindowOK
<1>10. StagesOK'
  <2>1. ASSUME mode = "current", NEW q \in Pairings, stage'[q] # "idle"
        PROVE  q \in Range(window)
    BY <1>5, <1>6, <1>7, <2>1, WindowElements DEF HInv, StagesOK
  <2>2. ASSUME mode = "current", NEW q \in Pairings, stage'[q] = "done"
        PROVE  IsComplete(q)' /\ MetadataIsValid(q)' /\ IndexVerifies(q)'
    BY <1>4, <1>5, <2>2 DEF HInv, StagesOK, MetadataIsValid, IndexVerifies
  <2>3. ASSUME NEW q \in Pairings, stage'[q] = "downloading"
        PROVE  MetadataIsValid(q)'
    BY <1>5, <2>3 DEF HInv, StagesOK, MetadataIsValid
  <2>4. mode = "current" /\ pc' \in {"opening", "committing", "pruning", "serving"} =>
          \A q \in Range(window) : stage'[q] = "done"
    BY <1>1, <1>6
  <2> QED BY <1>1, <2>1, <2>2, <2>3, <2>4 DEF StagesOK
<1>11. RecordIsIntact'
  <2> SUFFICES ASSUME record # Null PROVE Intact(record)' /\ \A q \in Range(record) : kind'[q] = "good"
    BY DEF RecordIsIntact
  <2>1. Range(record) \subseteq Pairings
    BY <1>2, WindowElements
  <2>2. \A q \in Range(record) : IsComplete(q) /\ kind[q] = "good"
    BY DEF HInv, RecordIsIntact, Intact
  <2> QED BY <1>4, <2>1, <2>2 DEF Intact
<1>12. OnlyTheWindowRemains'
  BY <1>1, <1>6 DEF OnlyTheWindowRemains
<1> QED BY <1>3, <1>9, <1>10, <1>11, <1>12 DEF HInv

LEMMA ReadPairingKeepsHInv ==
  ASSUME HInv, NEW p \in Pairings, ReadPairing(p)
  PROVE  HInv'
<1>1. stage[p] = "reading" /\ UNCHANGED <<remote, record>>
  BY DEF ReadPairing
<1>2. CASE Fail(p, RemoteFailure) /\ UNCHANGED dir
  BY <1>1, <1>2, FailKeepsHInv DEF RemoteFailure, disk
<1>3. CASE Fail(p, OtherFailure) /\ UNCHANGED dir
  BY <1>1, <1>3, FailKeepsHInv DEF OtherFailure, disk
<1>4. CASE MetadataIsValid(p) /\ BaseVerifies(p) /\ dir' = WithPrevious(p) /\ Done(p)
  BY <1>1, <1>4, DoneKeepsHInv DEF WithPrevious, BaseVerifies
<1>5. CASE /\ MetadataIsValid(p)
           /\ stage' = [stage EXCEPT ![p] = "downloading"]
           /\ UNCHANGED <<dir, pc, window, mode>>
  <2> USE DEF remote
  <2>1. TypeOK'
    BY <1>1, <1>5 DEF HInv, TypeOK
  <2>2. \A q \in Pairings : stage'[q] = IF q = p THEN "downloading" ELSE stage[q]
    BY <1>5 DEF HInv, TypeOK
  <2>3. WindowOK'
    BY <1>1, <1>5 DEF HInv, WindowOK, Intact, IsComplete, Sound
  <2>4. StagesOK'
    BY <1>1, <1>5, <2>2 DEF HInv, StagesOK, IsComplete, MetadataIsValid, IndexVerifies
  <2>5. RecordIsIntact'
    BY <1>1, <1>5, RecordStays
  <2>6. OnlyTheWindowRemains'
    BY <1>1, <1>5 DEF HInv, OnlyTheWindowRemains
  <2> QED BY <1>1, <1>5, <2>1, <2>3, <2>4, <2>5, <2>6 DEF HInv
<1> QED BY <1>2, <1>3, <1>4, <1>5 DEF ReadPairing

LEMMA MaterializeKeepsHInv ==
  ASSUME HInv, NEW p \in Pairings, Materialize(p)
  PROVE  HInv'
<1>1. /\ stage[p] = "downloading" /\ MetadataIsValid(p)
      /\ UNCHANGED <<remote, record>>
  BY DEF Materialize, HInv, StagesOK
<1>2. CASE Fail(p, RemoteFailure) /\ UNCHANGED dir
  BY <1>1, <1>2, FailKeepsHInv DEF RemoteFailure, disk
<1>3. CASE Fail(p, OtherFailure) /\ UNCHANGED dir
  BY <1>1, <1>3, FailKeepsHInv DEF OtherFailure, disk
<1>4. CASE IndexVerifies(p) /\ Renamed(p)
  BY <1>1, <1>4, DoneKeepsHInv DEF Renamed
<1> QED BY <1>2, <1>3, <1>4 DEF Materialize

LEMMA ReadPointerKeepsHInv ==
  ASSUME HInv, ReadPointer
  PROVE  HInv'
<1> USE DEF remote, disk
<1>1. pc = "starting" /\ mode' = mode /\ UNCHANGED <<remote, disk>>
  BY DEF ReadPointer
<1>2. mode = "current" /\ \A q \in Pairings : stage[q] = "idle"
  BY <1>1 DEF HInv, WindowOK
<1>3. RecordIsIntact'
  BY <1>1, RecordStays
<1>4. CASE pc' = RemoteFailure /\ UNCHANGED <<window, stage>>
  <2> USE DEF RemoteFailure
  <2>1. TypeOK'
    BY <1>1, <1>4 DEF HInv, TypeOK, Places
  <2>2. WindowOK' /\ StagesOK'
    BY <1>1, <1>2, <1>4 DEF HInv, WindowOK, StagesOK
  <2> QED BY <1>1, <1>3, <1>4, <2>1, <2>2 DEF HInv, OnlyTheWindowRemains
<1>5. CASE /\ window' = pointer /\ pc' = "hydrating"
           /\ stage' = [stage EXCEPT ![pointer[1]] = "reading"]
  <2>1. pointer \in Windows /\ pointer[1] \in Range(pointer) /\ Range(pointer) \subseteq Pairings
    BY WindowElements DEF HInv, TypeOK
  <2>2. TypeOK'
    BY <1>1, <1>5, <2>1 DEF HInv, TypeOK, Places
  <2>3. \A q \in Pairings : stage'[q] = IF q = pointer[1] THEN "reading" ELSE "idle"
    BY <1>2, <1>5 DEF HInv, TypeOK
  <2>4. WindowOK' /\ StagesOK'
    BY <1>1, <1>2, <1>5, <2>1, <2>3 DEF HInv, WindowOK, StagesOK, Windows
  <2> QED BY <1>1, <1>3, <1>5, <2>2, <2>4 DEF HInv, OnlyTheWindowRemains
<1> QED BY <1>4, <1>5 DEF ReadPointer

LEMMA FallbackKeepsHInv ==
  ASSUME HInv, Fallback
  PROVE  HInv'
<1> USE DEF remote, disk
<1>1. pc = "fallback" /\ mode = "current" /\ UNCHANGED <<remote, disk, stage>>
  BY DEF Fallback, HInv, WindowOK
<1>2. RecordIsIntact'
  BY <1>1, RecordStays
<1>3. CASE pc' = "failed" /\ UNCHANGED <<window, mode>>
  <2>1. TypeOK'
    BY <1>1, <1>3 DEF HInv, TypeOK, Places
  <2>2. WindowOK' /\ StagesOK'
    BY <1>1, <1>3 DEF HInv, WindowOK, StagesOK, IsComplete, MetadataIsValid, IndexVerifies
  <2> QED BY <1>1, <1>2, <1>3, <2>1, <2>2 DEF HInv, OnlyTheWindowRemains
<1>4. CASE record # Null /\ window' = record /\ mode' = "fallback" /\ pc' = "opening"
  <2>1. TypeOK'
    BY <1>1, <1>4 DEF HInv, TypeOK, Places
  <2>2. WindowOK' /\ StagesOK'
    BY <1>1, <1>4 DEF HInv, WindowOK, StagesOK, MetadataIsValid
  <2> QED BY <1>1, <1>2, <1>4, <2>1, <2>2 DEF HInv, OnlyTheWindowRemains
<1> QED BY <1>3, <1>4 DEF Fallback

(* What an authoritative start commits is whole and passed every check.    *)
LEMMA OpenKeepsHInv ==
  ASSUME HInv, Open
  PROVE  HInv'
<1> USE DEF remote, disk
<1>1. pc = "opening" /\ UNCHANGED <<remote, disk, window, mode, stage>>
  BY DEF Open
<1>2. RecordIsIntact'
  BY <1>1, RecordStays
<1>3. CASE pc' = "failed"
  <2>1. TypeOK'
    BY <1>1, <1>3 DEF HInv, TypeOK, Places
  <2>2. WindowOK' /\ StagesOK'
    BY <1>1, <1>3 DEF HInv, WindowOK, StagesOK, IsComplete, MetadataIsValid, IndexVerifies
  <2> QED BY <1>1, <1>2, <1>3, <2>1, <2>2 DEF HInv, OnlyTheWindowRemains
<1>4. CASE Smokes(window) /\ pc' = IF mode = "current" THEN "committing" ELSE "serving"
  <2>1. TypeOK'
    BY <1>1, <1>4 DEF HInv, TypeOK, Places
  <2>2. mode = "current" => Intact(window) /\ Sound(window)
    <3> SUFFICES ASSUME mode = "current", NEW p \in Range(window)
                 PROVE  IsComplete(p) /\ kind[p] = "good"
      BY DEF Intact, Sound
    <3>1. window \in Windows /\ stage[p] = "done"
      BY <1>1 DEF HInv, TypeOK, WindowOK, StagesOK
    <3>2. p \in Pairings
      BY <3>1, WindowElements
    <3>3. IsComplete(p) /\ MetadataIsValid(p) /\ IndexVerifies(p)
      BY <3>1, <3>2 DEF HInv, StagesOK
    <3>4. kind[p] \in Kinds
      BY <3>2 DEF HInv, TypeOK
    <3> QED BY <1>4, <3>3, <3>4 DEF Smokes, MetadataIsValid, IndexVerifies, Kinds, Defects
  <2>3. WindowOK'
    BY <1>1, <1>4, <2>2 DEF HInv, TypeOK, WindowOK, Intact, IsComplete, Sound
  <2>4. StagesOK'
    BY <1>1, <1>4 DEF HInv, TypeOK, StagesOK, IsComplete, MetadataIsValid, IndexVerifies
  <2> QED BY <1>1, <1>2, <1>4, <2>1, <2>3, <2>4 DEF HInv, OnlyTheWindowRemains
<1> QED BY <1>3, <1>4 DEF Open

LEMMA CommitKeepsHInv ==
  ASSUME HInv, Commit
  PROVE  HInv'
<1> USE DEF remote, disk
<1>1. /\ pc = "committing" /\ record' = window /\ pc' = "pruning"
      /\ UNCHANGED <<remote, dir, window, mode, stage>>
  BY DEF Commit
<1>2. mode = "current" /\ window \in Windows /\ window \in published
      /\ Intact(window) /\ Sound(window)
  BY <1>1 DEF HInv, TypeOK, WindowOK
<1>3. TypeOK'
  BY <1>1, <1>2 DEF HInv, TypeOK, Places
<1>4. window # Null
  BY <1>2 DEF Windows
<1>5. WindowOK' /\ StagesOK'
  BY <1>1, <1>2, <1>4 DEF HInv, WindowOK, StagesOK, IsComplete, MetadataIsValid, IndexVerifies
<1>6. RecordIsIntact'
  BY <1>1, <1>2 DEF RecordIsIntact, Intact, IsComplete, Sound
<1> QED BY <1>1, <1>2, <1>3, <1>5, <1>6 DEF HInv, OnlyTheWindowRemains

(* Pruning spares what is recorded.                                        *)
LEMMA PruneKeepsHInv ==
  ASSUME HInv, NEW p \in Pairings, Prune(p)
  PROVE  HInv'
<1> USE DEF remote, memory
<1>1. /\ pc = "pruning" /\ p \in Expired
      /\ UNCHANGED <<remote, record, memory>>
      /\ \/ \E c \in dir[p] : dir' = [dir EXCEPT ![p] = @ \ {c}]
         \/ dir' = [dir EXCEPT ![p] = Null]
  BY DEF Prune
<1>2. dir[p] # Null /\ p \notin Range(window) /\ window = record /\ record # Null
      /\ mode = "current"
  BY <1>1 DEF Expired, HInv, WindowOK
<1>3. dir \in [Pairings -> {Null} \cup SUBSET Pairings]
  BY DEF HInv, TypeOK
<1>4. /\ dir' \in [Pairings -> {Null} \cup SUBSET Pairings]
      /\ \A q \in Pairings \ {p} : dir'[q] = dir[q]
  BY <1>1, <1>2, <1>3
<1>5. TypeOK'
  BY <1>1, <1>4 DEF HInv, TypeOK
<1>6. Range(window) \subseteq Pairings \ {p}
  BY <1>2, WindowElements DEF HInv, TypeOK
<1>7. \A q \in Pairings \ {p} : IsComplete(q) => IsComplete(q)'
  BY <1>4 DEF IsComplete
<1>8. WindowOK'
  BY <1>1, <1>2 DEF HInv, WindowOK
<1>9. StagesOK'
  BY <1>1, <1>2, <1>6, <1>7 DEF HInv, StagesOK, MetadataIsValid, IndexVerifies
<1>10. RecordIsIntact'
  BY <1>1, <1>2, <1>6, <1>7 DEF HInv, RecordIsIntact, Intact
<1> QED BY <1>1, <1>5, <1>8, <1>9, <1>10 DEF HInv, OnlyTheWindowRemains

LEMMA InstallKeepsHInv ==
  ASSUME HInv, Install
  PROVE  HInv'
<1> USE DEF remote, disk
<1>1. /\ pc = "pruning" /\ Expired = {} /\ pc' = "serving"
      /\ UNCHANGED <<remote, disk, window, mode, stage>>
  BY DEF Install
<1>2. mode = "current" /\ window = record /\ record # Null
  BY <1>1 DEF HInv, WindowOK
<1>3. TypeOK'
  BY <1>1 DEF HInv, TypeOK, Places
<1>4. WindowOK' /\ StagesOK'
  BY <1>1, <1>2 DEF HInv, WindowOK, StagesOK, IsComplete, MetadataIsValid, IndexVerifies
<1>5. RecordIsIntact'
  BY <1>1, RecordStays
<1>6. {p \in Pairings : dir[p] # Null} = Range(window)
  <2>1. Range(window) \subseteq Pairings
    BY <1>2, WindowElements DEF HInv, TypeOK
  <2>2. \A p \in Range(window) : dir[p] # Null
    BY <1>2 DEF HInv, RecordIsIntact, Intact, IsComplete
  <2> QED BY <1>1, <2>1, <2>2 DEF Expired
<1> QED BY <1>1, <1>3, <1>4, <1>5, <1>6 DEF HInv, OnlyTheWindowRemains

(* A stopped process remembers nothing; the volume keeps what it has.      *)
LEMMA ForgottenKeepsHInv ==
  ASSUME HInv, Forgotten, UNCHANGED <<remote, disk>>
  PROVE  HInv'
<1> USE DEF remote, disk
<1>1. TypeOK'
  BY DEF Forgotten, HInv, TypeOK, Places
<1>2. WindowOK' /\ StagesOK'
  BY DEF Forgotten, HInv, WindowOK, StagesOK
<1>3. RecordIsIntact'
  BY RecordStays
<1> QED BY <1>1, <1>2, <1>3 DEF Forgotten, HInv, OnlyTheWindowRemains

(* Every pointer names each pairing once.                                  *)
LEMMA ActivatedWindow ==
  ASSUME NEW w \in Windows, NEW p \in Pairings, NEW others,
         others = IF p \in ToSet(w) THEN Without(w, p) ELSE w,
         NEW n, n = IF Len(others) < MaxHistory THEN Len(others) ELSE MaxHistory
  PROVE  <<p>> \o SubSeq(others, 1, n) \in Windows
<1>1. w \in Seq(Pairings) /\ IsInjective(w)
  BY DEF Windows
<1>2. others \in Seq(Pairings) /\ IsInjective(others) /\ p \notin ToSet(others)
  BY <1>1, WithoutElements
<1> DEFINE kept == SubSeq(others, 1, n)
<1>3. n \in Nat /\ n \in 0..Len(others) /\ MaxHistory \in Nat
  <2>1. MaxHistory \in Nat /\ Len(others) \in Nat
    BY <1>2
  <2> QED BY <2>1
<1>4. kept \in Seq(Pairings) /\ Len(kept) = n /\ \A i \in 1..n : kept[i] = others[i]
  BY <1>2, <1>3
<1> HIDE DEF kept
<1>5. DOMAIN kept = 1..n /\ DOMAIN others = 1..Len(others)
  BY <1>2, <1>4
<1>6. IsInjective(kept)
  BY <1>2, <1>3, <1>4, <1>5 DEF IsInjective
<1>7. p \notin ToSet(kept)
  BY <1>2, <1>3, <1>4, <1>5 DEF ToSet
<1> DEFINE first == <<p>>
<1>8. first \in Seq(Pairings) /\ IsInjective(first) /\ ToSet(first) = {p} /\ Len(first) = 1
  BY DEF IsInjective, ToSet
<1> HIDE DEF first
<1>9. ToSet(first) \cap ToSet(kept) = {}
  BY <1>7, <1>8
<1>10. /\ first \o kept \in Seq(Pairings)
       /\ Len(first \o kept) = Len(first) + Len(kept)
       /\ IsInjective(first \o kept)
  <2>1. \A s, t \in Seq(Pairings) :
          IsInjective(s) /\ IsInjective(t) /\ ToSet(s) \cap ToSet(t) = {} =>
            /\ s \o t \in Seq(Pairings)
            /\ Len(s \o t) = Len(s) + Len(t)
            /\ IsInjective(s \o t)
    BY ConcatElements
  <2> QED BY <1>4, <1>6, <1>8, <1>9, <2>1
<1>11. first \o kept # <<>>
  BY <1>3, <1>4, <1>8, <1>10
<1> QED BY <1>10, <1>11 DEF Windows, kept, first

LEMMA ActivateKeepsHInv ==
  ASSUME HInv, NEW p \in Pairings, Activate(p)
  PROVE  HInv'
<1> USE DEF disk, memory
<1>1. /\ published' = published \union {pointer'}
      /\ UNCHANGED <<kind, up, disk, memory>>
  BY DEF Activate
<1>2. pointer' \in Windows
  BY ActivatedWindow DEF Activate, HInv, TypeOK
<1>3. TypeOK'
  BY <1>1, <1>2 DEF HInv, TypeOK
<1>4. WindowOK' /\ StagesOK'
  BY <1>1 DEF HInv, WindowOK, StagesOK, Intact, IsComplete, Sound, MetadataIsValid, IndexVerifies
<1>5. RecordIsIntact'
  BY <1>1, RecordStays
<1> QED BY <1>1, <1>3, <1>4, <1>5 DEF HInv, OnlyTheWindowRemains

LEMMA IdleKeepsHInv ==
  ASSUME HInv, up' \in BOOLEAN,
         UNCHANGED <<kind, pointer, published, disk, memory>>
  PROVE  HInv'
<1> USE DEF disk, memory
<1>1. TypeOK'
  BY DEF HInv, TypeOK
<1>2. WindowOK' /\ StagesOK'
  BY DEF HInv, WindowOK, StagesOK, Intact, IsComplete, Sound, MetadataIsValid, IndexVerifies
<1>3. RecordIsIntact'
  BY RecordStays
<1> QED BY <1>1, <1>2, <1>3 DEF HInv, OnlyTheWindowRemains

LEMMA NextKeepsHInv == HInv /\ [Next]_vars => HInv'
<1> SUFFICES ASSUME HInv, [Next]_vars PROVE HInv'
  OBVIOUS
<1>1. CASE ReadPointer \/ Fallback \/ Open \/ Commit \/ Install
  BY <1>1, ReadPointerKeepsHInv, FallbackKeepsHInv, OpenKeepsHInv, CommitKeepsHInv,
     InstallKeepsHInv
<1>2. CASE \E p \in Pairings : ReadPairing(p) \/ Materialize(p) \/ Prune(p)
  BY <1>2, ReadPairingKeepsHInv, MaterializeKeepsHInv, PruneKeepsHInv
<1>3. CASE Stop \/ Restart
  BY <1>3, ForgottenKeepsHInv DEF Stop, Restart
<1>4. CASE Toggle
  <2>1. up' \in BOOLEAN
    BY <1>4 DEF Toggle
  <2> QED BY <1>4, <2>1, IdleKeepsHInv DEF Toggle
<1>5. CASE \E p \in Pairings : Activate(p)
  BY <1>5, ActivateKeepsHInv
<1>6. CASE UNCHANGED vars
  <2>1. up' \in BOOLEAN
    BY <1>6 DEF vars, remote, HInv, TypeOK
  <2> QED BY <1>6, <2>1, IdleKeepsHInv DEF vars, remote
<1> QED BY <1>1, <1>2, <1>3, <1>4, <1>5, <1>6 DEF Next, Step

-----------------------------------------------------------------------------
(* The inductive invariant holds in every state of the start.              *)
THEOREM HydrationInductive == Spec => []HInv
BY InitHInv, NextKeepsHInv, PTL DEF Spec

(* active-deployment.json never names what is not whole and sound.         *)
THEOREM RecordAlwaysIntact == Spec => []RecordIsIntact
<1>1. HInv => RecordIsIntact
  BY DEF HInv
<1> QED BY <1>1, HydrationInductive, PTL

(* pruneInactivePairings is done when an authoritative start serves.       *)
THEOREM NothingElseRemains == Spec => []OnlyTheWindowRemains
<1>1. HInv => OnlyTheWindowRemains
  BY DEF HInv
<1> QED BY <1>1, HydrationInductive, PTL

(* The first state of the start is one of the promise.                     *)
LEMMA InitPromise == Init => Promise!Init
BY DEF Init, Promise!Init

(* Every step of the start is a step of the promise or invisible to it.    *)
LEMMA NextPromise == HInv /\ HInv' /\ [Next]_vars => [Promise!Next]_(Promise!vars)
<1> DEFINE servedNow == IF pc = "serving" THEN window ELSE Null
<1> SUFFICES ASSUME HInv, HInv', [Next]_vars PROVE [Promise!Next]_(Promise!vars)
  OBVIOUS
<1> USE DEF Promise!vars
<1>1. CASE /\ UNCHANGED <<kind, published, record>>
           /\ servedNow' = servedNow
  BY <1>1
<1>2. CASE Commit
  <2>1. /\ pc = "committing" /\ pc' = "pruning" /\ record' = window
        /\ UNCHANGED <<kind, published>>
    BY <1>2 DEF Commit, remote
  <2>2. window \in published /\ \A p \in Range(window) : kind[p] = "good"
    BY <2>1 DEF HInv, WindowOK, Sound
  <2>3. Range(window) \subseteq Pairings
    BY <2>1, WindowElements DEF HInv, TypeOK, WindowOK
  <2>4. Promise!Adopt(window)
    BY <2>1, <2>2, <2>3 DEF Promise!Adopt, Promise!Range, Range
  <2> QED BY <2>2, <2>4 DEF Promise!Next
<1>3. CASE pc # "serving" /\ pc' = "serving" /\ UNCHANGED <<kind, published, record>>
  <2>1. record' # Null /\ window' = record'
    BY <1>3 DEF HInv, WindowOK
  <2>2. Promise!Serve
    BY <1>3, <2>1 DEF Promise!Serve
  <2> QED BY <2>2 DEF Promise!Next
<1>4. CASE pc = "serving" /\ pc' # "serving" /\ UNCHANGED <<kind, published, record>>
  <2>1. record # Null /\ window = record
    BY <1>4 DEF HInv, WindowOK
  <2>2. Promise!Stop
    BY <1>4, <2>1 DEF Promise!Stop
  <2> QED BY <2>2 DEF Promise!Next
<1>5. CASE \E p \in Pairings : Activate(p)
  <2>1. published \subseteq published' /\ UNCHANGED <<kind, record, pc, window>>
    BY <1>5 DEF Activate, disk, memory
  <2>2. Promise!Publish
    BY <2>1 DEF Promise!Publish
  <2> QED BY <2>2 DEF Promise!Next
<1>6. CASE ReadPointer \/ Fallback \/ Open
  <2>1. pc # "serving" /\ UNCHANGED <<kind, published, record>>
    BY <1>6 DEF ReadPointer, Fallback, Open, remote, disk
  <2> QED BY <1>1, <1>3, <2>1
<1>7. CASE Install
  BY <1>3, <1>7 DEF Install, remote, disk
<1>8. CASE \E p \in Pairings : ReadPairing(p) \/ Materialize(p)
  <2>1. UNCHANGED <<kind, published, record, window>>
    BY <1>8 DEF ReadPairing, Materialize, Renamed, Fail, Done, remote
  <2>2. pc' = pc \/ (pc = "hydrating" /\ pc' \in {"failed", "fallback", "opening"})
    BY <1>8 DEF ReadPairing, Materialize, Renamed, Fail, Done, RemoteFailure, OtherFailure
  <2> QED BY <1>1, <2>1, <2>2
<1>9. CASE \E p \in Pairings : Prune(p)
  BY <1>1, <1>9 DEF Prune, remote, memory
<1>10. CASE Stop \/ Restart
  BY <1>1, <1>4, <1>10 DEF Stop, Restart, Forgotten, remote, disk
<1>11. CASE Toggle
  BY <1>1, <1>11 DEF Toggle, disk, memory
<1>12. CASE UNCHANGED vars
  BY <1>1, <1>12 DEF vars, remote, disk, memory
<1> QED BY <1>2, <1>5, <1>6, <1>7, <1>8, <1>9, <1>10, <1>11, <1>12 DEF Next, Step

(* The start of a serving machine implements ServedWindow.                 *)
THEOREM HydrationServesTheRecord == Spec => ServesTheRecord
BY InitPromise, NextPromise, HydrationInductive, PTL
   DEF Spec, ServesTheRecord, Promise!Spec
-----------------------------------------------------------------------------
(* A retained pairing recommends the packages its pins give, or is of the  *)
(* legacy artifact, which declares none for the annual recipes; it has     *)
(* been opened and smoked alone, and its index is of its artifact.         *)
PairingOK(p) ==
  /\ p = [release |-> p.release, analysis |-> p.analysis, previous |-> p.previous,
          product |-> p.product, index |-> p.index, at |-> p.at, mapping |-> p.mapping]
  /\ p.at \in Nat /\ Analysis[p.analysis].artifact # Null
  /\ \/ p.mapping = Retained!Mapping(p.analysis, p.previous, p.product, p.index)
     \/ /\ p.mapping = Null /\ p.index = Null
        /\ \A r \in Retained!Annual : ~Retained!Compatible(Retained!AnnualPackage(r, p.analysis))
  /\ Retained!Opens(p) /\ Retained!Smokes(<<p>>, 1)
  /\ p.index # Null => Opportunity[p.index].artifact = Analysis[p.analysis].artifact
Servable(w) ==
  /\ w \in Seq(ToSet(w)) /\ Len(w) <= 3
  /\ \A i \in DOMAIN w : PairingOK(w[i])
  /\ Retained!FitsVolume(w)

(* The pairing published before mappings is as good as a promoted one, and *)
(* no artifact, mapping or package is Null.                                *)
PairingsAssumption ==
  /\ Volume \in Nat
  /\ Legacy # Null => PairingOK(Legacy) /\ Retained!FitsVolume(<<Legacy>>) /\ Legacy.at = 0
  /\ \A c \in Candidates : Analysis[c.analysis].artifact # Null
  /\ \A analysis, previous : Retained!CandidatePackage(analysis, previous) # Null
  /\ \A recipe, analysis : Retained!AnnualPackage(recipe, analysis) # Null
  /\ \A index : Retained!OpportunityPackage(index) # Null
  /\ \A package, object : [package |-> package, object |-> object] # Null
  /\ \A analysis, previous, product, index :
       Retained!Mapping(analysis, previous, product, index) # Null

(* The new window of an activation follows the old one.                    *)
Succeeds(new, old) ==
  old # <<>> =>
    /\ Len(new) > 1 /\ new[2] = old[1]
    /\ \/ Retained!Build(new[1]) = Retained!Build(old[1])
       \/ new[1].previous = old[1].analysis
       \/ Len(old) > 1 /\ Retained!Build(new[1]) = Retained!Build(old[2])

(* An operation that was validated follows the pointer as long as the      *)
(* pointer has the version that was read.                                  *)
OperationOK(o) ==
  \/ o.step = "idle"
  \/ /\ o.step = "begun" /\ o.kind \in {"promote", "rollback"}
     /\ o.kind = "promote" => o.candidate \in Candidates
  \/ /\ o.step = "validated" /\ Servable(o.window) /\ o.window # <<>>
     /\ o.version \in Nat /\ o.version <= pointer.version
     /\ o.version = pointer.version => Succeeds(o.window, pointer.window)

(* Operations bear different numbers, and no window that is active or will *)
(* be has a pairing with the number of an operation under way.             *)
At(o) == IF o.step = "begun" THEN o.at ELSE o.window[1].at
Dated(w) == \A i \in DOMAIN w : w[i].at <= operations
Lacks(w, at) == \A i \in DOMAIN w : w[i].at # at
Numbered(p) ==
  /\ At(operation[p]) \in Nat /\ At(operation[p]) <= operations
  /\ Lacks(pointer.window, At(operation[p]))
  /\ operation[p].step = "validated" => Dated(operation[p].window)
  /\ \A q \in Publishers \ {p} : operation[q].step # "idle" =>
       /\ At(operation[q]) # At(operation[p])
       /\ operation[p].step = "validated" => Lacks(operation[p].window, At(operation[q]))

RetainedInv ==
  /\ pointer = [version |-> pointer.version, window |-> pointer.window]
  /\ pointer.version \in Nat /\ operations \in Nat
  /\ Servable(pointer.window) /\ Dated(pointer.window)
  /\ operation = [p \in Publishers |-> operation[p]]
  /\ \A p \in Publishers : OperationOK(operation[p])
  /\ \A p \in Publishers : operation[p].step # "idle" => Numbered(p)
  /\ runtime.state \in {"down", "serving"} /\ Servable(runtime.window)
-----------------------------------------------------------------------------
(* What the standard modules define is the same in the instance.           *)
LEMMA RetainedOperators ==
  /\ \A S : Retained!Cardinality(S) = Cardinality(S)
  /\ \A S, most : Retained!FirstOf(S, most) = FirstOf(S, most)
<1>1. \A S : Retained!Cardinality(S) = Cardinality(S)
  BY DEF Retained!Cardinality, Cardinality
<1>2. \A S, n : Retained!Nth(S, n) = Nth(S, n)
  BY <1>1 DEF Retained!Nth, Nth
<1>3. \A S, most : Retained!FirstOf(S, most) = FirstOf(S, most)
  BY <1>1, <1>2 DEF Retained!FirstOf, FirstOf
<1> QED BY <1>1, <1>3

(* A set of indices has a greatest element.                                *)
LEMMA GreatestIndex ==
  ASSUME NEW n \in Nat, NEW S \in SUBSET (1 .. n), S # {}
  PROVE  \E x \in S : \A y \in S : y <= x
<1> DEFINE R == {n - i : i \in S}
<1>1. R \in SUBSET Nat /\ R # {}
  <2>1. \A i \in S : i \in Nat /\ n - i \in Nat
    OBVIOUS
  <2>2. PICK i \in S : TRUE
    OBVIOUS
  <2> QED BY <2>1, <2>2
<1> HIDE DEF R
<1>2. PICK r \in R : \A y \in R : r <= y
  BY <1>1, LeastElement
<1>3. PICK x \in S : r = n - x
  BY <1>2 DEF R
<1>4. ASSUME NEW y \in S PROVE y <= x
  <2>1. n - y \in R
    BY DEF R
  <2>2. n - x <= n - y
    BY <1>2, <1>3, <2>1
  <2> QED BY <2>2
<1> QED BY <1>4

(* A recipe of a build is answered with the package of its pairings, if    *)
(* those that have one agree.                                              *)
LEMMA BoundPackage ==
  ASSUME NEW w, w \in Seq(ToSet(w)), NEW i \in DOMAIN w, NEW r, NEW package,
         Retained!Package(w[i], r) = package,
         \A j \in DOMAIN w :
           Retained!Build(w[j]) = Retained!Build(w[i]) /\ Retained!Package(w[j], r) # Null
             => Retained!Package(w[j], r) = package
  PROVE  Retained!Bound(w, Retained!Build(w[i]), r) = package
<1> DEFINE D == {j \in DOMAIN w : Retained!Build(w[j]) = Retained!Build(w[i])
                                  /\ Retained!Package(w[j], r) # Null}
           last == CHOOSE x \in D : \A y \in D : y <= x
<1>1. Retained!Bound(w, Retained!Build(w[i]), r)
        = IF D = {} THEN Null ELSE Retained!Package(w[last], r)
  BY DEF Retained!Bound
<1>2. CASE D = {}
  <2>1. package = Null
    BY <1>2
  <2> QED BY <1>1, <1>2, <2>1
<1>3. CASE D # {}
  <2>1. Len(w) \in Nat /\ D \in SUBSET (1 .. Len(w))
    OBVIOUS
  <2>2. \E x \in D : \A y \in D : y <= x
    <3> HIDE DEF D
    <3> QED BY <1>3, <2>1, GreatestIndex
  <2>3. last \in D
    <3> HIDE DEF D
    <3> QED BY <2>2
  <2>4. Retained!Package(w[last], r) = package
    <3> HIDE DEF last
    <3> QED BY <2>3
  <2> QED BY <1>1, <1>3, <2>4
<1> QED BY <1>2, <1>3

(* The packages for the artifact are those of the build.                   *)
PackageOf(analysis, previous, r) ==
  IF r = "candidate-market" THEN Retained!CandidatePackage(analysis, previous)
  ELSE IF Retained!Compatible(Retained!AnnualPackage(r, analysis))
  THEN Retained!AnnualPackage(r, analysis) ELSE Null
LEMMA OwnPackage ==
  ASSUME PairingsAssumption, NEW p, PairingOK(p),
         NEW r \in {"candidate-market"} \cup Retained!Annual
  PROVE  Retained!Package(p, r) = PackageOf(p.analysis, p.previous, r)
<1> DEFINE made == Retained!Mapping(p.analysis, p.previous, p.product, p.index)
           legacy == Retained!LegacyMapping(p.analysis, p.previous, p.product)
           used == Retained!Recommended(p)
<1>1. /\ made.package = Retained!CandidatePackage(p.analysis, p.previous)
      /\ made.annual = [x \in Retained!Annual |->
           IF Retained!Compatible(Retained!AnnualPackage(x, p.analysis))
           THEN Analysis[p.analysis].artifact ELSE Null]
      /\ made # Null
  BY DEF Retained!Mapping, PairingsAssumption
<1>2. /\ legacy.package = Retained!CandidatePackage(p.analysis, p.previous)
      /\ legacy.annual = [x \in Retained!Annual |-> Null]
  <2>1. PICK m : m = Retained!Mapping(p.analysis, p.previous, p.product, Null)
    OBVIOUS
  <2>2. /\ m.package = Retained!CandidatePackage(p.analysis, p.previous)
        /\ m = [package |-> m.package, annual |-> m.annual, momentum |-> m.momentum,
                opportunity |-> m.opportunity, product |-> m.product, economy |-> m.economy,
                artifact |-> m.artifact]
    BY <2>1 DEF Retained!Mapping
  <2>3. PICK none : none = [x \in Retained!Annual |-> Null]
    OBVIOUS
  <2>4. legacy = [m EXCEPT !.annual = none]
    BY <2>1, <2>3 DEF Retained!LegacyMapping
  <2>5. [m EXCEPT !.annual = none].package = m.package /\ [m EXCEPT !.annual = none].annual = none
    BY <2>2
  <2> QED BY <2>2, <2>3, <2>4, <2>5
<1> HIDE DEF made, legacy
<1>3. \/ used = made
      \/ /\ used = legacy
         /\ \A x \in Retained!Annual : ~Retained!Compatible(Retained!AnnualPackage(x, p.analysis))
  BY <1>1 DEF PairingOK, Retained!Recommended, made, legacy
<1>4. Analysis[p.analysis].artifact # Null
  BY DEF PairingOK
<1>5. CASE r = "candidate-market"
  <2>1. Retained!Package(p, r) = used.package
    BY <1>5 DEF Retained!Package, Retained!Annual
  <2> HIDE DEF used
  <2> QED BY <1>1, <1>2, <1>3, <1>5, <2>1 DEF PackageOf
<1>6. CASE r \in Retained!Annual
  <2>1. r # "candidate-market"
    BY <1>6 DEF Retained!Annual
  <2>2. Retained!Package(p, r) = IF used.annual[r] = Null THEN Null
                                 ELSE Retained!AnnualPackage(r, p.analysis)
    BY <1>6, <2>1 DEF Retained!Package, Retained!Annual
  <2> HIDE DEF used
  <2>3. CASE Retained!Compatible(Retained!AnnualPackage(r, p.analysis))
    <3>1. used = made
      BY <1>3, <1>6, <2>3
    <3>2. made.annual[r] = Analysis[p.analysis].artifact
      BY <1>1, <1>6, <2>3
    <3> QED BY <1>4, <2>1, <2>2, <2>3, <3>1, <3>2 DEF PackageOf
  <2>4. CASE ~Retained!Compatible(Retained!AnnualPackage(r, p.analysis))
    <3>1. made.annual[r] = Null
      BY <1>1, <1>6, <2>4
    <3>2. legacy.annual[r] = Null
      BY <1>2, <1>6
    <3>3. used.annual[r] = Null
      BY <1>3, <3>1, <3>2
    <3> QED BY <2>1, <2>2, <2>4, <3>3 DEF PackageOf
  <2> QED BY <2>3, <2>4
<1> QED BY <1>5, <1>6

LEMMA BoundIsOwn ==
  ASSUME PairingsAssumption, NEW w, Servable(w), NEW i \in DOMAIN w,
         NEW r \in {"candidate-market"} \cup Retained!Annual
  PROVE  Retained!Bound(w, Retained!Build(w[i]), r) = Retained!Package(w[i], r)
<1>1. \A j \in DOMAIN w : Retained!Package(w[j], r) = PackageOf(w[j].analysis, w[j].previous, r)
  BY OwnPackage DEF Servable
<1>2. \A j \in DOMAIN w : Retained!Build(w[j]) = Retained!Build(w[i]) =>
        w[j].analysis = w[i].analysis /\ w[j].previous = w[i].previous
  BY DEF Retained!Build
<1>3. \A j \in DOMAIN w : Retained!Build(w[j]) = Retained!Build(w[i]) =>
        Retained!Package(w[j], r) = Retained!Package(w[i], r)
  BY <1>1, <1>2
<1>4. w \in Seq(ToSet(w))
  BY DEF Servable
<1> QED BY <1>3, <1>4, BoundPackage

(* What was opened and smoked alone starts in any such window.             *)
LEMMA WindowIsServed ==
  ASSUME PairingsAssumption, NEW w, Servable(w)
  PROVE  Retained!Served(w)
<1>1. \A i \in DOMAIN w : Retained!Opens(w[i])
  BY DEF Servable, PairingOK
<1>2. ASSUME NEW i \in DOMAIN w PROVE Retained!Smokes(w, i)
  <2>1. PICK alone : alone = <<w[i]>>
    OBVIOUS
  <2>2. Retained!Smokes(alone, 1) /\ alone[1] = w[i]
    BY <2>1 DEF Servable, PairingOK
  <2>3. \A r \in {"candidate-market", "trade-trend", "supplier-competition"} :
          Retained!Bound(w, Retained!Build(w[i]), r) = Retained!Package(w[i], r)
    BY BoundIsOwn DEF Retained!Annual
  <2> QED BY <2>2, <2>3 DEF Retained!Smokes
<1> QED BY <1>1, <1>2 DEF Retained!Served

(* nextRetentionHistory: what the window of an activation holds.           *)
LEMMA NextWindowHolds ==
  ASSUME NEW T, NEW s \in Seq(T), NEW new, NEW w, w = Retained!NextWindow(new, s)
  PROVE  /\ w \in Seq(ToSet(w)) /\ Len(w) \in 1 .. 3 /\ w[1] = new
         /\ \A n \in DOMAIN w : n # 1 => \E i \in DOMAIN s : w[n] = s[i]
         /\ s # <<>> /\ s[1] # new => Len(w) > 1 /\ w[2] = s[1]
<1> DEFINE others == {i \in DOMAIN s : s[i] # new /\ \A j \in 1 .. i - 1 : s[j] # s[i]}
           f == FirstOf(others, 2)
           h == [n \in DOMAIN f |-> s[f[n]]]
<1>1. DOMAIN s = 1 .. Len(s) /\ Len(s) \in Nat
  OBVIOUS
<1>2. others \in SUBSET Nat /\ others \subseteq DOMAIN s /\ IsFiniteSet(others)
  <2>1. IsFiniteSet(1 .. Len(s)) /\ others \subseteq 1 .. Len(s)
    <3>1. IsFiniteSet(1 .. Len(s))
      BY <1>1, FS_Interval
    <3> QED BY <1>1, <3>1
  <2>2. IsFiniteSet(others)
    <3> HIDE DEF others
    <3> QED BY <2>1, FS_Subset
  <2> QED BY <1>1, <2>1, <2>2
<1>3. w = <<new>> \o h
  BY RetainedOperators DEF Retained!NextWindow, Retained!HistoryLimit
<1>4. s # <<>> /\ s[1] # new => 1 \in others /\ \A i \in others : 1 <= i
  BY <1>1
<1> HIDE DEF others
<1>5. f \in Seq(others) /\ Len(f) <= 2
  <2>1. /\ f \in Seq(others)
        /\ Len(f) = IF Cardinality(others) < 2 THEN Cardinality(others) ELSE 2
    BY <1>2, FirstOfElements
  <2>2. Cardinality(others) \in Nat
    BY <1>2, FS_CardinalityType
  <2> HIDE DEF f
  <2> QED BY <2>1, <2>2
<1>6. s # <<>> /\ s[1] # new => 1 \in DOMAIN f /\ f[1] = 1
  BY <1>2, <1>4, FirstOfBegins
<1> HIDE DEF f
<1>7. Len(f) \in Nat /\ DOMAIN f = 1 .. Len(f) /\ \A n \in DOMAIN f : f[n] \in DOMAIN s
  <2>1. Len(f) \in Nat /\ DOMAIN f = 1 .. Len(f) /\ \A n \in DOMAIN f : f[n] \in others
    BY <1>5
  <2> QED BY <1>2, <2>1
<1>8. h \in Seq(T) /\ Len(h) = Len(f) /\ DOMAIN h = 1 .. Len(f)
      /\ \A n \in 1 .. Len(f) : h[n] = s[f[n]]
  <2>1. h \in [1 .. Len(f) -> T]
    BY <1>1, <1>7
  <2> QED BY <1>7, <2>1
<1> HIDE DEF h
<1>9. /\ Len(w) = 1 + Len(f) /\ DOMAIN w = 1 .. 1 + Len(f) /\ w[1] = new
      /\ \A n \in 2 .. 1 + Len(f) : w[n] = h[n - 1]
  <2>1. <<new>> \in Seq(T \cup {new}) /\ h \in Seq(T \cup {new})
    BY <1>7, <1>8
  <2>2. Len(<<new>>) = 1 /\ <<new>>[1] = new
    OBVIOUS
  <2>3. PICK one : one = <<new>>
    OBVIOUS
  <2> QED BY <1>3, <1>7, <1>8, <2>1, <2>2, <2>3
<1>10. w \in Seq(ToSet(w))
  <2>1. w = [n \in 1 .. 1 + Len(f) |-> w[n]]
    <3>1. <<new>> \in Seq(T \cup {new}) /\ h \in Seq(T \cup {new})
      BY <1>7, <1>8
    <3>2. w \in Seq(T \cup {new})
      BY <1>3, <3>1
    <3> QED BY <1>9, <3>2
  <2>2. w \in [1 .. 1 + Len(f) -> ToSet(w)]
    BY <1>9, <2>1 DEF ToSet
  <2> QED BY <1>7, <2>2
<1>11. ASSUME NEW n \in DOMAIN w, n # 1 PROVE \E i \in DOMAIN s : w[n] = s[i]
  <2>1. n - 1 \in 1 .. Len(f) /\ w[n] = h[n - 1]
    BY <1>7, <1>9, <1>11
  <2> QED BY <1>7, <1>8, <2>1
<1>12. ASSUME s # <<>>, s[1] # new PROVE Len(w) > 1 /\ w[2] = s[1]
  <2>1. 1 \in 1 .. Len(f) /\ f[1] = 1
    BY <1>6, <1>7, <1>12
  <2> QED BY <1>7, <1>8, <1>9, <2>1
<1>13. Len(w) \in 1 .. 3
  BY <1>5, <1>7, <1>9
<1> QED BY <1>9, <1>10, <1>11, <1>12, <1>13

(* The pairing of a candidate that was accepted, opened and smoked.        *)
LEMMA PromotedPairing ==
  ASSUME PairingsAssumption, NEW c \in Candidates, NEW w, NEW at \in Nat, Retained!Fits(c),
         Retained!Opens(Retained!PairingOf(c, w, at)),
         Retained!Smokes(<<Retained!PairingOf(c, w, at)>>, 1)
  PROVE  /\ PairingOK(Retained!PairingOf(c, w, at))
         /\ Retained!PairingOf(c, w, at).at = at
         /\ Retained!PairingOf(c, w, at).analysis = c.analysis
         /\ w # <<>> => Retained!PairingOf(c, w, at).previous
                          = IF Retained!SameAnalysis(c, w) THEN w[1].previous ELSE w[1].analysis
<1> DEFINE q == Retained!PairingOf(c, w, at)
<1>1. /\ q = [release |-> q.release, analysis |-> q.analysis, previous |-> q.previous,
              product |-> q.product, index |-> q.index, at |-> q.at, mapping |-> q.mapping]
      /\ q.at = at /\ q.analysis = c.analysis /\ q.index = c.index
      /\ q.mapping = Retained!Mapping(q.analysis, q.previous, q.product, q.index)
  BY DEF Retained!PairingOf
<1>2. w # <<>> => q.previous = IF Retained!SameAnalysis(c, w) THEN w[1].previous ELSE w[1].analysis
  BY DEF Retained!PairingOf
<1>3. Analysis[q.analysis].artifact # Null
  BY <1>1 DEF PairingsAssumption
<1>4. q.index # Null => Opportunity[q.index].artifact = Analysis[q.analysis].artifact
  BY <1>1 DEF Retained!Fits
<1>5. Retained!Opens(q) /\ Retained!Smokes(<<q>>, 1)
  OBVIOUS
<1> HIDE DEF q
<1>6. PairingOK(q)
  BY <1>1, <1>3, <1>4, <1>5 DEF PairingOK
<1> QED BY <1>1, <1>2, <1>6 DEF q

(* A pairing published again, with the mapping it lacked.                  *)
LEMMA RolledBackPairing ==
  ASSUME PairingsAssumption, NEW t, PairingOK(t), NEW at \in Nat,
         Retained!Opens(Retained!RolledBack(t, at)),
         Retained!Smokes(<<Retained!RolledBack(t, at)>>, 1)
  PROVE  /\ PairingOK(Retained!RolledBack(t, at))
         /\ Retained!RolledBack(t, at).at = at
         /\ Retained!Build(Retained!RolledBack(t, at)) = Retained!Build(t)
<1> DEFINE q == Retained!RolledBack(t, at)
           m == Retained!Mapping(t.analysis, t.previous, t.product, t.index)
<1>1. t.mapping = Null \/ t.mapping = m
  BY DEF PairingOK
<1>2. t.mapping = Null => t.index = Null
  BY DEF PairingOK, PairingsAssumption
<1>3. m # Null
  BY DEF PairingsAssumption
<1>4. PICK n : n = IF t.mapping # Null THEN t.mapping
                   ELSE Retained!Mapping(t.analysis, t.previous, t.product, Null)
  OBVIOUS
<1>5. n = m
  <2>1. CASE t.mapping = Null
    BY <1>2, <1>4, <2>1
  <2>2. CASE t.mapping # Null
    BY <1>1, <1>4, <2>2
  <2> QED BY <2>1, <2>2
<1> HIDE DEF m
<1>6. PICK later : later = [t EXCEPT !.at = at]
  OBVIOUS
<1>7. later = [release |-> t.release, analysis |-> t.analysis, previous |-> t.previous,
               product |-> t.product, index |-> t.index, at |-> at, mapping |-> t.mapping]
  BY <1>6 DEF PairingOK
<1>8. [later EXCEPT !.mapping = n]
        = [release |-> t.release, analysis |-> t.analysis, previous |-> t.previous,
           product |-> t.product, index |-> t.index, at |-> at, mapping |-> n]
  BY <1>7
<1>9. q = [[t EXCEPT !.at = at] EXCEPT !.mapping = n]
  BY <1>4 DEF Retained!RolledBack
<1>10. q = [release |-> t.release, analysis |-> t.analysis, previous |-> t.previous,
            product |-> t.product, index |-> t.index, at |-> at, mapping |-> m]
  BY <1>5, <1>6, <1>8, <1>9
<1>11. Retained!Opens(q) /\ Retained!Smokes(<<q>>, 1)
  OBVIOUS
<1> HIDE DEF q
<1>12. /\ q = [release |-> q.release, analysis |-> q.analysis, previous |-> q.previous,
               product |-> q.product, index |-> q.index, at |-> q.at, mapping |-> q.mapping]
       /\ q.at = at /\ q.analysis = t.analysis /\ q.previous = t.previous
       /\ q.index = t.index /\ q.product = t.product /\ q.mapping = m
  BY <1>10
<1>13. q.mapping = Retained!Mapping(q.analysis, q.previous, q.product, q.index)
  BY <1>12 DEF m
<1>14. PairingOK(q)
  BY <1>11, <1>12, <1>13 DEF PairingOK
<1>15. Retained!Build(q) = Retained!Build(t)
  BY <1>12 DEF Retained!Build
<1> QED BY <1>12, <1>14, <1>15 DEF q

(* One publisher's operation moves on or ends.                             *)
LEMMA OperationMoves ==
  ASSUME RetainedInv, NEW p \in Publishers, NEW o, operation' = [operation EXCEPT ![p] = o],
         UNCHANGED <<pointer, runtime>>, operations' \in Nat, operations <= operations',
         OperationOK(o),
         o.step # "idle" =>
           /\ At(o) \in Nat /\ At(o) <= operations' /\ Lacks(pointer.window, At(o))
           /\ o.step = "validated" => \A i \in DOMAIN o.window : o.window[i].at <= operations'
           /\ \A q \in Publishers \ {p} : operation[q].step # "idle" =>
                /\ At(operation[q]) # At(o)
                /\ o.step = "validated" => Lacks(o.window, At(operation[q]))
                /\ operation[q].step = "validated" => Lacks(operation[q].window, At(o))
  PROVE  RetainedInv'
<1>1. /\ operation' = [q \in Publishers |-> operation'[q]]
      /\ operation'[p] = o /\ \A q \in Publishers \ {p} : operation'[q] = operation[q]
  BY DEF RetainedInv
<1>2. ASSUME NEW w, Servable(w), Dated(w)
      PROVE  Dated(w)'
  <2>1. ASSUME NEW i \in DOMAIN w PROVE w[i].at <= operations'
    <3>1. w[i].at \in Nat /\ w[i].at <= operations
      BY <1>2 DEF Servable, PairingOK, Dated
    <3> QED BY <3>1 DEF RetainedInv
  <2> QED BY <2>1 DEF Dated
<1>3. Dated(pointer.window)'
  BY <1>2 DEF RetainedInv, Dated
<1>4. ASSUME NEW q \in Publishers PROVE OperationOK(operation[q])'
  <2>1. OperationOK(operation'[q])
    BY <1>1 DEF RetainedInv
  <2>2. pointer' = pointer
    OBVIOUS
  <2> QED BY <2>1, <2>2 DEF OperationOK
<1>5. ASSUME NEW q \in Publishers, operation'[q].step # "idle" PROVE Numbered(q)'
  <2>1. CASE q = p
    <3>1. operation'[q] = o
      BY <1>1, <2>1
    <3>2. At(operation[q])' = At(o) /\ pointer'.window = pointer.window
      BY <3>1 DEF At
    <3>3. ASSUME NEW x \in Publishers \ {q}, operation'[x].step # "idle"
          PROVE  /\ At(operation[x])' # At(o)
                 /\ o.step = "validated" => Lacks(o.window, At(operation[x])')
      <4>1. operation'[x] = operation[x]
        BY <1>1, <2>1, <3>3
      <4>2. At(operation[x])' = At(operation[x])
        BY <4>1 DEF At
      <4> QED BY <1>5, <2>1, <3>1, <3>3, <4>1, <4>2
    <3>4. o.step = "validated" => Dated(o.window)'
      BY <1>5, <3>1 DEF Dated
    <3> QED BY <1>5, <3>1, <3>2, <3>3, <3>4 DEF Numbered, Lacks, Dated
  <2>2. CASE q # p
    <3>1. operation'[q] = operation[q] /\ Numbered(q) /\ OperationOK(operation[q])
      BY <1>1, <1>5, <2>2 DEF RetainedInv
    <3>2. At(operation[q])' = At(operation[q]) /\ pointer'.window = pointer.window
      BY <3>1 DEF At
    <3>3. ASSUME NEW x \in Publishers \ {q}, operation'[x].step # "idle"
          PROVE  /\ At(operation[x])' # At(operation[q])
                 /\ operation[q].step = "validated" => Lacks(operation[q].window, At(operation[x])')
      <4>1. CASE x = p
        <5>1. At(operation[x])' = At(o) /\ o.step # "idle"
          BY <1>1, <3>3, <4>1 DEF At
        <5> QED BY <1>5, <2>2, <3>1, <5>1
      <4>2. CASE x # p
        <5>1. operation'[x] = operation[x]
          BY <1>1, <4>2
        <5>2. At(operation[x])' = At(operation[x])
          BY <5>1 DEF At
        <5> QED BY <3>1, <3>3, <5>1, <5>2 DEF Numbered
      <4> QED BY <4>1, <4>2
    <3>4. At(operation[q]) \in Nat /\ At(operation[q]) <= operations'
      BY <3>1 DEF Numbered, RetainedInv
    <3>5. operation[q].step = "validated" => Dated(operation[q].window)'
      <4> SUFFICES ASSUME operation[q].step = "validated" PROVE Dated(operation[q].window)'
        OBVIOUS
      <4>1. PICK w : w = operation[q].window
        OBVIOUS
      <4>2. Servable(w) /\ Dated(w)
        BY <3>1, <4>1 DEF OperationOK, Numbered
      <4> QED BY <1>2, <3>1, <4>1, <4>2 DEF Dated
    <3> QED BY <3>1, <3>2, <3>3, <3>4, <3>5 DEF Numbered, Lacks, Dated
  <2> QED BY <2>1, <2>2
<1>6. pointer' = pointer /\ runtime' = runtime
  OBVIOUS
<1> QED BY <1>1, <1>3, <1>4, <1>5, <1>6 DEF RetainedInv

LEMMA BeginKeeps ==
  ASSUME PairingsAssumption, RetainedInv, NEW p \in Publishers, NEW asked, NEW candidate,
         NEW expected, asked \in {"promote", "rollback"},
         asked = "promote" => candidate \in Candidates,
         Retained!Begin(p, asked, candidate, expected)
  PROVE  RetainedInv'
<1> DEFINE o == [step |-> "begun", kind |-> asked, candidate |-> candidate, expected |-> expected,
                 at |-> operations + 1]
<1>1. /\ operation' = [operation EXCEPT ![p] = o] /\ operations' = operations + 1
      /\ UNCHANGED <<pointer, runtime>>
  BY DEF Retained!Begin
<1>2. /\ o.step = "begun" /\ o.kind = asked /\ o.candidate = candidate
      /\ o.at = operations + 1
  OBVIOUS
<1> HIDE DEF o
<1>3. operations \in Nat
  BY DEF RetainedInv
<1>4. OperationOK(o) /\ At(o) = operations + 1
  BY <1>2 DEF OperationOK, At
<1>5. ASSUME NEW w, Servable(w), Dated(w) PROVE Lacks(w, operations + 1)
  <2>1. \A i \in DOMAIN w : w[i].at \in Nat /\ w[i].at <= operations
    BY <1>5 DEF Servable, PairingOK, Dated
  <2> QED BY <1>3, <2>1 DEF Lacks
<1>6. Lacks(pointer.window, At(o))
  BY <1>4, <1>5 DEF RetainedInv
<1>7. ASSUME NEW q \in Publishers \ {p}, operation[q].step # "idle"
      PROVE  /\ At(operation[q]) # At(o)
             /\ operation[q].step = "validated" => Lacks(operation[q].window, At(o))
  <2>1. Numbered(q) /\ OperationOK(operation[q])
    BY <1>7 DEF RetainedInv
  <2>2. At(operation[q]) # At(o)
    BY <1>3, <1>4, <2>1 DEF Numbered
  <2>3. ASSUME operation[q].step = "validated" PROVE Lacks(operation[q].window, At(o))
    <3>1. Servable(operation[q].window) /\ Dated(operation[q].window)
      BY <2>1, <2>3 DEF OperationOK, Numbered
    <3> QED BY <1>4, <1>5, <3>1
  <2> QED BY <2>2, <2>3
<1>8. operations' \in Nat /\ operations <= operations' /\ At(o) \in Nat /\ At(o) <= operations'
  BY <1>1, <1>3, <1>4
<1> QED BY <1>1, <1>2, <1>4, <1>6, <1>7, <1>8, OperationMoves

LEMMA EndKeeps ==
  ASSUME RetainedInv, NEW p \in Publishers, Retained!End(p)
  PROVE  RetainedInv'
<1>1. Retained!Idle.step = "idle"
  BY DEF Retained!Idle
<1>2. /\ operation' = [operation EXCEPT ![p] = Retained!Idle]
      /\ UNCHANGED <<pointer, runtime>> /\ operations' = operations
  BY DEF Retained!End
<1>3. operations' \in Nat /\ operations <= operations'
  BY <1>2 DEF RetainedInv
<1>4. OperationOK(Retained!Idle)
  BY <1>1 DEF OperationOK
<1> QED BY <1>1, <1>2, <1>3, <1>4, OperationMoves

(* A window that was validated follows the pointer that was read.          *)
LEMMA PrepareKeeps ==
  ASSUME PairingsAssumption, RetainedInv, NEW p \in Publishers, Retained!Prepare(p)
  PROVE  RetainedInv'
<1> DEFINE o == operation[p]
           old == pointer.window
           pairing == IF o.kind = "promote" THEN Retained!PairingOf(o.candidate, old, o.at)
                      ELSE Retained!RolledBack(old[2], o.at)
           rest == <<old[1]>> \o SubSeq(old, 3, Len(old))
           next == IF o.kind = "promote" THEN Retained!NextWindow(pairing, old)
                   ELSE Retained!NextWindow(pairing, rest)
           done == [step |-> "validated", window |-> next, version |-> pointer.version]
<1>1. CASE Retained!End(p)
  BY <1>1, EndKeeps
<1>2. CASE ~Retained!End(p)
  <2>1. /\ o.step = "begun" /\ ~Retained!Refused(p)
        /\ ~(o.kind = "promote" /\ Retained!Unchanged(o.candidate, old))
        /\ Retained!Opens(pairing) /\ Retained!Smokes(<<pairing>>, 1)
        /\ Retained!FitsVolume(next)
        /\ operation' = [operation EXCEPT ![p] = done]
        /\ UNCHANGED <<pointer, operations, runtime>>
    BY <1>2 DEF Retained!Prepare
  <2>2. /\ o.kind \in {"promote", "rollback"} /\ (o.kind = "promote" => o.candidate \in Candidates)
        /\ Numbered(p) /\ At(o) = o.at /\ o.at \in Nat /\ o.at <= operations
    <3>1. OperationOK(o) /\ Numbered(p)
      BY <2>1 DEF RetainedInv
    <3> QED BY <2>1, <3>1 DEF OperationOK, Numbered, At
  <2>3. Servable(old) /\ Dated(old) /\ Lacks(old, o.at)
    BY <2>2 DEF RetainedInv, Numbered
  <2>4. old \in Seq(ToSet(old)) /\ Len(old) \in Nat /\ DOMAIN old = 1 .. Len(old)
    BY <2>3 DEF Servable
  <2>5. o.kind = "rollback" => Len(old) >= 2
    BY <2>1, <2>4 DEF Retained!Refused
  <2>6. /\ PairingOK(pairing) /\ pairing.at = o.at
        /\ old # <<>> =>
             \/ Retained!Build(pairing) = Retained!Build(old[1])
             \/ pairing.previous = old[1].analysis
             \/ Len(old) > 1 /\ Retained!Build(pairing) = Retained!Build(old[2])
    <3>1. CASE o.kind = "promote"
      <4>1. pairing = Retained!PairingOf(o.candidate, old, o.at)
        BY <3>1
      <4>2. Retained!Fits(o.candidate)
        BY <2>1, <3>1 DEF Retained!Refused
      <4> HIDE DEF pairing, old, o
      <4>3. /\ PairingOK(pairing) /\ pairing.at = o.at /\ pairing.analysis = o.candidate.analysis
            /\ old # <<>> =>
                 pairing.previous = IF Retained!SameAnalysis(o.candidate, old)
                                    THEN old[1].previous ELSE old[1].analysis
        BY <2>1, <2>2, <3>1, <4>1, <4>2, PromotedPairing
      <4> QED BY <4>3 DEF Retained!SameAnalysis, Retained!Build
    <3>2. CASE o.kind = "rollback"
      <4>1. pairing = Retained!RolledBack(old[2], o.at)
        BY <3>2
      <4>2. 2 \in DOMAIN old /\ Len(old) > 1
        BY <2>4, <2>5, <3>2
      <4>3. PairingOK(old[2])
        BY <2>3, <4>2 DEF Servable
      <4> HIDE DEF pairing, old, o
      <4>4. /\ PairingOK(pairing) /\ pairing.at = o.at
            /\ Retained!Build(pairing) = Retained!Build(old[2])
        BY <2>1, <2>2, <4>1, <4>3, RolledBackPairing
      <4> QED BY <4>2, <4>4
    <3> QED BY <2>2, <3>1, <3>2
  <2> HIDE DEF pairing
  <2>7. old # <<>> => 1 \in DOMAIN old /\ old[1] # pairing
    <3>1. old # <<>> => 1 \in DOMAIN old
      BY <2>4
    <3> QED BY <2>3, <2>6, <3>1 DEF Lacks
  <2>8. /\ next \in Seq(ToSet(next)) /\ Len(next) \in 1 .. 3 /\ next[1] = pairing
        /\ \A n \in DOMAIN next : n # 1 => \E i \in DOMAIN old : next[n] = old[i]
        /\ old # <<>> => Len(next) > 1 /\ next[2] = old[1]
    <3>1. CASE o.kind = "promote"
      <4>1. next = Retained!NextWindow(pairing, old)
        BY <3>1
      <4> HIDE DEF next, old, o
      <4>2. old \in Seq(ToSet(old))
        BY <2>4
      <4>3. /\ next \in Seq(ToSet(next)) /\ Len(next) \in 1 .. 3 /\ next[1] = pairing
            /\ \A n \in DOMAIN next : n # 1 => \E i \in DOMAIN old : next[n] = old[i]
            /\ old # <<>> /\ old[1] # pairing => Len(next) > 1 /\ next[2] = old[1]
        BY <4>1, <4>2, NextWindowHolds
      <4> QED BY <2>7, <4>3
    <3>2. CASE o.kind = "rollback"
      <4>1. next = Retained!NextWindow(pairing, rest)
        BY <3>2
      <4>2. 1 \in DOMAIN old /\ 2 <= Len(old)
        BY <2>4, <2>5, <3>2
      <4> HIDE DEF old
      <4>3. /\ rest \in Seq(ToSet(old)) /\ rest # <<>> /\ rest[1] = old[1]
            /\ \A n \in DOMAIN rest : \E i \in DOMAIN old : rest[n] = old[i]
        <5> DEFINE back == SubSeq(old, 3, Len(old))
        <5>1. /\ back \in Seq(ToSet(old)) /\ Len(back) = Len(old) - 2
              /\ \A n \in 1 .. Len(old) - 2 : back[n] = old[2 + n]
          <6>1. 2 \in Nat /\ Len(old) \in Nat /\ 3 = 2 + 1
            BY <2>4
          <6> QED BY <2>4, <4>2, <6>1
        <5>2. old[1] \in ToSet(old)
          BY <4>2 DEF ToSet
        <5> HIDE DEF back
        <5>3. PICK one : one = <<old[1]>>
          OBVIOUS
        <5>4. /\ one \in Seq(ToSet(old)) /\ Len(one) = 1 /\ one[1] = old[1]
          BY <5>2, <5>3
        <5>5. rest = one \o back
          BY <5>3 DEF back
        <5> HIDE DEF rest
        <5>6. /\ rest \in Seq(ToSet(old)) /\ Len(rest) = 1 + Len(back)
              /\ DOMAIN rest = 1 .. 1 + Len(back)
              /\ \A n \in 1 .. 1 + Len(back) : rest[n] = IF n <= 1 THEN one[n] ELSE back[n - 1]
          <6>1. /\ one \o back \in Seq(ToSet(old)) /\ Len(one \o back) = Len(one) + Len(back)
                /\ \A n \in 1 .. Len(one) + Len(back) :
                     (one \o back)[n] = IF n <= Len(one) THEN one[n] ELSE back[n - Len(one)]
            <7>1. one \in Seq(ToSet(old)) /\ back \in Seq(ToSet(old))
              BY <5>1, <5>4
            <7> QED BY <7>1, ConcatHolds
          <6> QED BY <5>4, <5>5, <6>1
        <5>7. Len(back) \in Nat
          BY <5>1
        <5>8. rest # <<>> /\ rest[1] = old[1]
          BY <5>4, <5>6, <5>7
        <5>9. ASSUME NEW n \in DOMAIN rest PROVE \E i \in DOMAIN old : rest[n] = old[i]
          <6>1. CASE n = 1
            BY <4>2, <5>8, <6>1
          <6>2. CASE n # 1
            <7>1. n - 1 \in 1 .. Len(old) - 2 /\ rest[n] = back[n - 1]
              BY <2>4, <5>1, <5>6, <5>9, <6>2
            <7>2. 2 + (n - 1) \in DOMAIN old
              BY <2>4, <7>1
            <7> QED BY <5>1, <7>1, <7>2
          <6> QED BY <6>1, <6>2
        <5> QED BY <5>6, <5>8, <5>9
      <4> HIDE DEF next, rest, o
      <4>4. /\ next \in Seq(ToSet(next)) /\ Len(next) \in 1 .. 3 /\ next[1] = pairing
            /\ \A n \in DOMAIN next : n # 1 => \E i \in DOMAIN rest : next[n] = rest[i]
            /\ rest # <<>> /\ rest[1] # pairing => Len(next) > 1 /\ next[2] = rest[1]
        <5>1. rest \in Seq(ToSet(old))
          BY <4>3
        <5> QED BY <4>1, <5>1, NextWindowHolds
      <4>5. old # <<>>
        BY <2>4, <4>2
      <4> QED BY <2>7, <4>3, <4>4, <4>5
    <3> QED BY <2>2, <3>1, <3>2
  <2> HIDE DEF next
  <2>9. DOMAIN next = 1 .. Len(next) /\ 1 \in DOMAIN next /\ next # <<>> /\ Len(next) <= 3
    BY <2>8
  <2>10. Servable(next)
    <3>1. ASSUME NEW n \in DOMAIN next PROVE PairingOK(next[n])
      BY <2>3, <2>6, <2>8 DEF Servable
    <3> QED BY <2>1, <2>8, <2>9, <3>1 DEF Servable
  <2>11. Succeeds(next, old)
    BY <2>6, <2>8 DEF Succeeds
  <2>12. /\ done.step = "validated" /\ done.window = next /\ done.version = pointer.version
    OBVIOUS
  <2> HIDE DEF done
  <2>13. OperationOK(done)
    <3>1. pointer.version \in Nat /\ pointer.version <= pointer.version
      BY DEF RetainedInv
    <3> QED BY <2>9, <2>10, <2>11, <2>12, <3>1 DEF OperationOK
  <2>14. At(done) = o.at
    BY <2>6, <2>8, <2>12 DEF At
  <2>15. \A i \in DOMAIN next : next[i].at <= operations
    BY <2>2, <2>3, <2>6, <2>8 DEF Dated
  <2>16. ASSUME NEW q \in Publishers \ {p}, operation[q].step # "idle"
         PROVE  /\ At(operation[q]) # o.at
                /\ Lacks(next, At(operation[q]))
                /\ operation[q].step = "validated" => Lacks(operation[q].window, o.at)
    <3>1. Numbered(q) /\ p \in Publishers \ {q} /\ o.step # "idle"
      BY <2>1, <2>16 DEF RetainedInv
    <3>2. /\ At(operation[q]) # o.at /\ Lacks(old, At(operation[q]))
          /\ operation[q].step = "validated" => Lacks(operation[q].window, o.at)
      BY <2>2, <3>1 DEF Numbered
    <3>3. \A n \in DOMAIN next : next[n].at # At(operation[q])
      BY <2>6, <2>8, <3>2 DEF Lacks
    <3> QED BY <3>2, <3>3 DEF Lacks
  <2>17. operations' = operations /\ operations' \in Nat /\ operations <= operations'
    BY <2>1 DEF RetainedInv
  <2> QED BY <2>1, <2>2, <2>3, <2>12, <2>13, <2>14, <2>15, <2>16, <2>17, OperationMoves
<1> QED BY <1>1, <1>2

(* The pointer moves to a window that follows it.                          *)
LEMMA ActivationSucceeds ==
  ASSUME RetainedInv, NEW p \in Publishers, Retained!Activate(p), pointer' # pointer
  PROVE  /\ pointer' = [version |-> pointer.version + 1, window |-> operation[p].window]
         /\ operation' = [operation EXCEPT ![p] = Retained!Idle]
         /\ UNCHANGED <<operations, runtime>> /\ operation[p].step = "validated"
         /\ Succeeds(operation[p].window, pointer.window)
<1>1. operation[p].step = "validated" /\ operation[p].version = pointer.version
  BY DEF Retained!Activate, Retained!End
<1>2. OperationOK(operation[p])
  BY DEF RetainedInv
<1>3. Succeeds(operation[p].window, pointer.window)
  BY <1>1, <1>2 DEF OperationOK
<1> QED BY <1>1, <1>3 DEF Retained!Activate

LEMMA ActivateKeeps ==
  ASSUME RetainedInv, NEW p \in Publishers, Retained!Activate(p)
  PROVE  RetainedInv'
<1>1. CASE pointer' = pointer
  <2>1. Retained!End(p)
    <3>1. pointer.version \in Nat
      BY DEF RetainedInv
    <3>2. [version |-> pointer.version + 1, window |-> operation[p].window] # pointer
      <4>1. pointer.version + 1 # pointer.version
        BY <3>1
      <4>2. [version |-> pointer.version + 1, window |-> operation[p].window].version
              = pointer.version + 1
        OBVIOUS
      <4> QED BY <4>1, <4>2
    <3> QED BY <1>1, <3>2 DEF Retained!Activate
  <2> QED BY <2>1, EndKeeps
<1>2. CASE pointer' # pointer
  <2> DEFINE w == operation[p].window
  <2>1. /\ pointer' = [version |-> pointer.version + 1, window |-> w]
        /\ operation' = [operation EXCEPT ![p] = Retained!Idle]
        /\ UNCHANGED <<operations, runtime>> /\ operation[p].step = "validated"
    BY <1>2, ActivationSucceeds
  <2>2. OperationOK(operation[p]) /\ Numbered(p)
    BY <2>1 DEF RetainedInv
  <2>3. Servable(w) /\ Dated(w)
    BY <2>1, <2>2 DEF OperationOK, Numbered
  <2>4. pointer'.version = pointer.version + 1 /\ pointer'.window = w
    BY <2>1
  <2>5. /\ operation' = [q \in Publishers |-> operation'[q]]
        /\ operation'[p].step = "idle"
        /\ \A q \in Publishers \ {p} : operation'[q] = operation[q]
    BY <2>1 DEF RetainedInv, Retained!Idle
  <2>6. ASSUME NEW q \in Publishers PROVE OperationOK(operation[q])'
    <3>1. CASE q = p
      BY <2>5, <3>1 DEF OperationOK
    <3>2. CASE q # p
      <4>1. operation'[q] = operation[q] /\ OperationOK(operation[q])
        BY <2>5, <3>2 DEF RetainedInv
      <4>2. pointer.version \in Nat
        BY DEF RetainedInv
      <4>3. operation[q].step = "validated" /\ operation[q].version \in Nat
              /\ operation[q].version <= pointer.version =>
                /\ operation[q].version <= pointer'.version
                /\ operation[q].version # pointer'.version
        BY <2>4, <4>2
      <4> QED BY <4>1, <4>3 DEF OperationOK
    <3> QED BY <3>1, <3>2
  <2>7. ASSUME NEW q \in Publishers, operation'[q].step # "idle" PROVE Numbered(q)'
    <3>1. q # p
      BY <2>5, <2>7
    <3>2. operation'[q] = operation[q] /\ Numbered(q) /\ At(operation[q])' = At(operation[q])
      <4>1. operation'[q] = operation[q]
        BY <2>5, <3>1
      <4> QED BY <2>7, <4>1 DEF RetainedInv, At
    <3>3. Lacks(w, At(operation[q]))
      BY <2>1, <2>2, <2>7, <3>1, <3>2 DEF Numbered
    <3>4. ASSUME NEW x \in Publishers \ {q}, operation'[x].step # "idle"
          PROVE  /\ At(operation[x])' # At(operation[q])
                 /\ operation[q].step = "validated" => Lacks(operation[q].window, At(operation[x])')
      <4>1. x # p
        BY <2>5, <3>4
      <4>2. operation'[x] = operation[x]
        BY <2>5, <4>1
      <4>3. At(operation[x])' = At(operation[x])
        BY <4>2 DEF At
      <4> QED BY <3>2, <3>4, <4>2, <4>3 DEF Numbered
    <3>5. operation[q].step = "validated" => Dated(operation[q].window)'
      BY <2>1, <3>2 DEF Numbered, Dated
    <3>6. At(operation[q]) \in Nat /\ At(operation[q]) <= operations'
      BY <2>1, <3>2 DEF Numbered
    <3> QED BY <2>4, <3>2, <3>3, <3>4, <3>5, <3>6 DEF Numbered, Lacks, Dated
  <2>8. /\ pointer' = [version |-> pointer'.version, window |-> pointer'.window]
        /\ pointer'.version \in Nat /\ operations' \in Nat
    BY <2>1, <2>4 DEF RetainedInv
  <2>9. Servable(pointer'.window) /\ Dated(pointer.window)'
    BY <2>1, <2>3, <2>4 DEF Dated
  <2>10. runtime'.state \in {"down", "serving"} /\ Servable(runtime'.window)
    BY <2>1 DEF RetainedInv
  <2> QED BY <2>5, <2>6, <2>7, <2>8, <2>9, <2>10 DEF RetainedInv
<1> QED BY <1>1, <1>2

(* No window is empty on the volume beyond its room.                       *)
LEMMA EmptyWindow ==
  ASSUME PairingsAssumption
  PROVE  Servable(<<>>)
<1>1. PICK w : w = <<>>
  OBVIOUS
<1>2. Len(w) = 0 /\ DOMAIN w = {} /\ w \in Seq(ToSet(w))
  BY <1>1
<1>3. PICK objects : objects = UNION {Retained!PairingObjects(w[i]) : i \in DOMAIN w}
  OBVIOUS
<1>4. Retained!Cardinality(objects) = 0
  <2>1. objects = {}
    BY <1>2, <1>3
  <2> QED BY <2>1, RetainedOperators, FS_EmptySet
<1>5. Retained!FitsVolume(w)
  <2>1. Retained!FitsVolume(w) <=> Retained!Cardinality(objects) + Len(w) <= Volume
    BY <1>3, Zenon DEF Retained!FitsVolume
  <2>2. Volume \in Nat
    BY DEF PairingsAssumption
  <2> QED BY <1>2, <1>4, <2>1, <2>2
<1>6. Servable(w)
  BY <1>2, <1>5 DEF Servable
<1> QED BY <1>1, <1>6

LEMMA RuntimeSteps ==
  ASSUME PairingsAssumption, RetainedInv, Retained!Start \/ Retained!Stop
  PROVE  RetainedInv'
<1>1. UNCHANGED <<pointer, operation, operations>>
  BY DEF Retained!Start, Retained!Stop
<1>2. runtime'.state \in {"down", "serving"} /\ Servable(runtime'.window)
  <2>1. CASE Retained!Start
    <3>1. Servable(pointer.window)
      BY DEF RetainedInv
    <3>2. Retained!Served(pointer.window)
      BY <3>1, WindowIsServed
    <3>3. runtime' = [state |-> "serving", window |-> pointer.window]
      BY <2>1, <3>2 DEF Retained!Start
    <3> QED BY <3>1, <3>3
  <2>2. CASE Retained!Stop
    <3>1. runtime' = [state |-> "down", window |-> <<>>]
      BY <2>2 DEF Retained!Stop
    <3> QED BY <3>1, EmptyWindow
  <2> QED BY <2>1, <2>2
<1> QED BY <1>1, <1>2 DEF RetainedInv, OperationOK, Numbered, At, Dated, Lacks, Succeeds

LEMMA RetainedHolds ==
  ASSUME PairingsAssumption
  PROVE  Retained!Spec => []RetainedInv
<1>1. Retained!Init => RetainedInv
  <2> SUFFICES ASSUME Retained!Init PROVE RetainedInv
    OBVIOUS
  <2>1. /\ operation = [p \in Publishers |-> Retained!Idle] /\ operations = 0
        /\ runtime = [state |-> "down", window |-> <<>>]
        /\ \/ pointer = [version |-> 0, window |-> <<>>]
           \/ Legacy # Null /\ pointer = [version |-> 0, window |-> <<Legacy>>]
    BY DEF Retained!Init
  <2>2. Retained!Idle.step = "idle"
    BY DEF Retained!Idle
  <2>3. Servable(<<>>)
    BY EmptyWindow
  <2>4. Servable(pointer.window) /\ Dated(pointer.window)
    <3>1. CASE pointer.window = <<>>
      BY <2>3, <3>1 DEF Dated
    <3>2. CASE Legacy # Null /\ pointer.window = <<Legacy>>
      <4>1. PICK w : w = <<Legacy>>
        OBVIOUS
      <4>2. Len(w) = 1 /\ DOMAIN w = {1} /\ w[1] = Legacy /\ w \in Seq(ToSet(w))
        <5>1. Len(w) = 1 /\ DOMAIN w = 1 .. 1 /\ w[1] = Legacy
          BY <4>1
        <5>2. w \in Seq({Legacy}) /\ ToSet(w) = {Legacy}
          BY <4>1, <5>1 DEF ToSet
        <5> QED BY <5>1, <5>2
      <4>3. PairingOK(Legacy) /\ Retained!FitsVolume(w) /\ Legacy.at = 0
        BY <3>2, <4>1 DEF PairingsAssumption
      <4>4. Servable(w) /\ Dated(w)
        BY <2>1, <4>2, <4>3 DEF Servable, Dated
      <4> QED BY <3>2, <4>1, <4>4
    <3> QED BY <2>1, <3>1, <3>2
  <2>5. /\ pointer = [version |-> pointer.version, window |-> pointer.window]
        /\ pointer.version \in Nat
    BY <2>1
  <2>6. /\ operation = [p \in Publishers |-> operation[p]]
        /\ \A p \in Publishers : operation[p].step = "idle"
    BY <2>1, <2>2
  <2> QED BY <2>1, <2>3, <2>4, <2>5, <2>6 DEF RetainedInv, OperationOK
<1>2. RetainedInv /\ [Retained!Next]_Retained!vars => RetainedInv'
  <2> SUFFICES ASSUME RetainedInv, [Retained!Next]_Retained!vars PROVE RetainedInv'
    OBVIOUS
  <2>1. ASSUME NEW p \in Publishers, Retained!Begins(p) PROVE RetainedInv'
    BY <2>1, BeginKeeps DEF Retained!Begins
  <2>2. ASSUME NEW p \in Publishers, Retained!Prepare(p) \/ Retained!Activate(p) PROVE RetainedInv'
    BY <2>2, PrepareKeeps, ActivateKeeps
  <2>3. CASE Retained!Start \/ Retained!Stop
    BY <2>3, RuntimeSteps
  <2>4. CASE UNCHANGED Retained!vars
    BY <2>4 DEF Retained!vars, RetainedInv, OperationOK, Numbered, At, Dated, Lacks, Succeeds
  <2> QED BY <2>1, <2>2, <2>3, <2>4 DEF Retained!Next
<1> QED BY <1>1, <1>2, PTL DEF Retained!Spec

(* ReleasePublisher and VerifiedReleaseRuntime: whatever is promoted and   *)
(* rolled back, by any number of publishers, each retained pairing is of   *)
(* one release, what was validated alone starts in any window, and a build *)
(* is answered with the packages its own pairing recommends.               *)
THEOREM RetainedWindowIsServed ==
  ASSUME PairingsAssumption
  PROVE  Retained!Spec => [](/\ Retained!WindowIsSound /\ Retained!WhatWasActivatedStarts
                             /\ Retained!BuildsAnswerWithTheirOwn)
<1>1. RetainedInv => Retained!WindowIsSound
  <2> SUFFICES ASSUME RetainedInv PROVE Retained!WindowIsSound
    OBVIOUS
  <2>1. Servable(pointer.window)
    BY DEF RetainedInv
  <2>2. ASSUME NEW i \in DOMAIN pointer.window
        PROVE  LET p == pointer.window[i]
               IN  /\ Product[p.product].release = Analysis[p.analysis].release
                   /\ p.index # Null =>
                        Opportunity[p.index].artifact = Analysis[p.analysis].artifact
    <3>1. PairingOK(pointer.window[i])
      BY <2>1 DEF Servable
    <3> QED BY <3>1 DEF PairingOK, Retained!Opens
  <2> QED BY <2>1, <2>2 DEF Servable, Retained!WindowIsSound, Retained!HistoryLimit
<1>2. RetainedInv => Retained!WhatWasActivatedStarts
  BY DEF RetainedInv, Retained!WhatWasActivatedStarts
<1>3. RetainedInv => Retained!BuildsAnswerWithTheirOwn
  <2> SUFFICES ASSUME RetainedInv, NEW i \in DOMAIN runtime.window, NEW r \in Retained!Recipes,
                      r # "opportunity-discovery"
                      \/ ~\E j \in DOMAIN runtime.window :
                            j # i /\ Retained!Build(runtime.window[j])
                                       = Retained!Build(runtime.window[i])
               PROVE  Retained!Bound(runtime.window, Retained!Build(runtime.window[i]), r)
                        = Retained!Package(runtime.window[i], r)
    BY Zenon DEF Retained!BuildsAnswerWithTheirOwn
  <2>1. Servable(runtime.window)
    BY DEF RetainedInv
  <2>2. CASE r # "opportunity-discovery"
    <3>1. r \in {"candidate-market"} \cup Retained!Annual
      BY <2>2 DEF Retained!Recipes
    <3> QED BY <2>1, <3>1, BoundIsOwn
  <2>3. CASE ~\E j \in DOMAIN runtime.window :
                 j # i /\ Retained!Build(runtime.window[j]) = Retained!Build(runtime.window[i])
    <3>1. runtime.window \in Seq(ToSet(runtime.window))
      BY <2>1 DEF Servable
    <3> QED BY <2>3, <3>1, BoundPackage
  <2> QED BY <2>2, <2>3
<1> QED BY <1>1, <1>2, <1>3, RetainedHolds, PTL

(* The pointer moves by compare-and-swap: an activation succeeds the very  *)
(* deployment that is active, which is retained next to it, and a new      *)
(* analysis is compared with the one that was served before it.            *)
THEOREM ActivationsFormAChain ==
  ASSUME PairingsAssumption
  PROVE  Retained!Spec => [][Retained!ActivationsAreAChain]_Retained!vars
<1>1. RetainedInv /\ [Retained!Next]_Retained!vars
        => [Retained!ActivationsAreAChain]_Retained!vars
  <2> SUFFICES ASSUME RetainedInv, Retained!Next, pointer' # pointer
               PROVE  Retained!ActivationsAreAChain
    BY DEF Retained!ActivationsAreAChain, Retained!vars
  <2>1. PICK p \in Publishers : Retained!Activate(p)
    BY DEF Retained!Next, Retained!Begins, Retained!Begin, Retained!Prepare, Retained!End,
       Retained!Start, Retained!Stop
  <2>2. /\ pointer' = [version |-> pointer.version + 1, window |-> operation[p].window]
        /\ Succeeds(operation[p].window, pointer.window)
    BY <2>1, ActivationSucceeds
  <2>3. pointer'.window = operation[p].window
    BY <2>2
  <2> QED BY <2>2, <2>3 DEF Succeeds, Retained!ActivationsAreAChain
<1> QED BY <1>1, RetainedHolds, PTL DEF Retained!Spec
=============================================================================
