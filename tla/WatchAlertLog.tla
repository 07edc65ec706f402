---------------------------- MODULE WatchAlertLog ----------------------------
(***************************************************************************)
(* What evaluating the Opportunity Watches promises: for each activated    *)
(* monthly package one evaluation of each watch, against the evaluation    *)
(* before it, and at most one alert event for it.  This is the evaluator   *)
(* with a single, never failing process; WatchEvaluation is the code's.    *)
(*                                                                         *)
(* An announced event is not yet an evaluation: the code appends the event *)
(* first (recordAlertEvent) and moves the watch's cursor afterwards        *)
(* (completeEvaluation), and the next package may be activated between.    *)
(***************************************************************************)
EXTENDS Integers, Sequences, FiniteSets

(***************************************************************************)
(* What a new result of an Opportunity Watch announces, given the watch's  *)
(* last evaluation: src/operations/watch/watch-alert-decision.ts and the   *)
(* revision rules of watch-evaluator.ts.                                   *)
(*                                                                         *)
(* A result is a record [state, growth].  The growth rate is an integer,   *)
(* in a unit of which Material units make 0.10, or Null when the recipe    *)
(* gives none; confidence and labels never decide an alert and are left    *)
(* out.  The five signal states are the code's; every other state (a       *)
(* coverage state) stands for "unavailable".                               *)
(***************************************************************************)
CONSTANTS
    Material,    \* the growth change that counts as material (0.10)
    RoundsDown,  \* pairs of growth rates exactly Material apart whose
                 \* difference as doubles falls below 0.1
    Null         \* the code's null

Rising == {"RISING", "RISING_FAST"}
Falling == {"FALLING", "FALLING_FAST"}
Directional == Rising \cup Falling

\* directionFamily; the unavailable states have none (null).
Family(state) ==
    CASE state \in Rising -> "rising"
      [] state \in Falling -> "falling"
      [] state = "BROADLY_STABLE" -> "stable"
      [] OTHER -> "unavailable"

IsUnavailable(state) == Family(state) = "unavailable"

Apart(a, b) == IF a < b THEN b - a ELSE a - b

\* growthDelta >= 0.1 on exact decimals (parseDecimalToTrillionths).
MateriallyApart(a, b) ==
    /\ a # Null /\ b # Null
    /\ Apart(a, b) >= Material

\* decideWatchAlert: whether the change from prior to current raises an alert.
Alerts(prior, current) ==
    IF prior = Null
    THEN current.state \in Directional
    ELSE \/ prior.state \in Directional /\ IsUnavailable(current.state)
         \/ IsUnavailable(prior.state) /\ current.state \in Directional
         \/ /\ ~IsUnavailable(prior.state) /\ ~IsUnavailable(current.state)
            /\ Family(prior.state) # Family(current.state)
         \/ /\ Family(prior.state) = Family(current.state)
            /\ prior.state \in Directional
            /\ prior.state # current.state
         \/ MateriallyApart(prior.growth, current.growth)

\* revisionMateriallyChanged: the same threshold, but on doubles.
RevisionMaterial(prior, current) ==
    \/ prior.state # current.state
    \/ /\ MateriallyApart(prior.growth, current.growth)
       /\ <<prior.growth, current.growth>> \notin RoundsDown

Revisions == {"REVISION_RETRACTION", "REVISION_REINSTATEMENT", "REVISION_UPDATE"}

\* Fault: a revision of an evaluation that raised no alert.
RevisionKindUnalerted(prior, current, cutoff, superseded) ==
    IF superseded = Null \/ prior = Null \/ prior.package # superseded THEN Null
    ELSE IF prior.state \in Directional /\ current.state \notin Directional
         THEN "REVISION_RETRACTION"
         ELSE IF prior.state \notin Directional /\ current.state \in Directional
              THEN "REVISION_REINSTATEMENT" ELSE Null

\* decideRevisionEventKind: what a package that supersedes the one the prior
\* evaluation came from says about the alert that evaluation raised.
RevisionKind(prior, current, cutoff, superseded) ==
    IF \/ superseded = Null \/ prior = Null
       \/ prior.package # superseded \/ prior.cutoff # cutoff
       \/ prior.alert = Null
    THEN Null
    ELSE LET was == prior.state \in Directional
             is == current.state \in Directional
         IN CASE was /\ ~is -> "REVISION_RETRACTION"
              [] ~was /\ is -> "REVISION_REINSTATEMENT"
              [] was /\ is /\ RevisionMaterial(prior, current) -> "REVISION_UPDATE"
              [] OTHER -> Null
-----------------------------------------------------------------------------
CONSTANTS
    Watches,     \* watches, numbered in creation order
    Packages,    \* monthly packages
    Schedule,    \* the sequence in which packages are activated
    Cutoff,      \* [Packages -> months]
    Supersedes,  \* [Packages -> Packages or Null]: what a revision revises
    QuarterEnds, \* the months that end a quarter
    Quarterly,   \* the watches of quarterly cadence
    Results      \* the results packages may hold

ASSUME WatchAlertAssumption ==
    /\ Watches \subseteq Nat
    /\ Schedule \in Seq(Packages) /\ Len(Schedule) > 0
    /\ Quarterly \subseteq Watches
    /\ Null \notin Revisions

VARIABLES
    activation,   \* position in Schedule of the active package
    outcome,      \* per package and watch, the package's result (or Null)
    lastPackage,  \* operational_watch.last_evaluated_package_id
    evaluation,   \* operational_last_evaluation of each watch
    events        \* operational_alert_event, in the order of insertion

logVars == <<activation, outcome, lastPackage, evaluation, events>>

Active == Schedule[activation]

\* shouldEvaluateCadence
IsDue(w, p, prior) ==
    \/ w \notin Quarterly
    \/ Cutoff[p] \in QuarterEnds
    \/ Supersedes[p] # Null /\ prior # Null /\ prior.cutoff = Cutoff[p]

\* The watch is skipped: not its cadence, or the source has no result.
IsSkipped(w, p, prior) == ~IsDue(w, p, prior) \/ outcome[p][w] = Null

\* The kind of event the evaluation appends, or Null.
Announcement(w, p, prior) ==
    IF IsSkipped(w, p, prior) THEN Null
    ELSE LET kind == RevisionKind(prior, outcome[p][w], Cutoff[p], Supersedes[p])
         IN IF kind # Null THEN kind
            ELSE IF Alerts(prior, outcome[p][w]) THEN "MOMENTUM_SIGNAL"
            ELSE Null

AlertOf(prior) == IF prior = Null THEN Null ELSE prior.alert

\* The event; all of its fields but the occurrence time make its dedupe key.
EventOf(w, p, prior) ==
    [watch |-> w, package |-> p, cutoff |-> Cutoff[p],
     kind |-> Announcement(w, p, prior), prior |-> AlertOf(prior)]

\* Fault: events without a dedupe key.
RecordedNever(event) == FALSE

Recorded(event) == \E i \in DOMAIN events : events[i] = event
IdOf(event) == CHOOSE i \in DOMAIN events : events[i] = event

\* The evaluation completeEvaluation stores.  A revision keeps the alert it
\* revises, a new signal names its own event, and without either it is null.
EvaluationOf(w, p, prior) ==
    LET kind == Announcement(w, p, prior)
    IN [package |-> p, cutoff |-> Cutoff[p],
        state |-> outcome[p][w].state, growth |-> outcome[p][w].growth,
        alert |-> CASE kind = Null -> Null
                    [] kind \in Revisions -> AlertOf(prior)
                    [] OTHER -> IdOf(EventOf(w, p, prior))]

-----------------------------------------------------------------------------

Contents == [Watches -> Results \cup {Null}]

LogInit ==
    /\ activation = 1
    /\ \E content \in Contents :
         outcome = [p \in Packages |-> IF p = Schedule[1] THEN content ELSE Null]
    /\ lastPackage = [w \in Watches |-> Null]
    /\ evaluation = [w \in Watches |-> Null]
    /\ events = <<>>

\* The next package is activated.  Its content is immutable from then on.
Activate ==
    /\ activation < Len(Schedule)
    /\ activation' = activation + 1
    /\ LET p == Schedule[activation + 1] IN
         IF outcome[p] # Null THEN outcome' = outcome
         ELSE \E content \in Contents : outcome' = [outcome EXCEPT ![p] = content]
    /\ UNCHANGED <<lastPackage, evaluation, events>>

Announce(w) ==
    LET event == EventOf(w, Active, evaluation[w]) IN
    /\ lastPackage[w] # Active
    /\ event.kind # Null
    /\ ~Recorded(event)
    /\ events' = Append(events, event)
    /\ UNCHANGED <<activation, outcome, lastPackage, evaluation>>

Evaluate(w) ==
    LET event == EventOf(w, Active, evaluation[w]) IN
    /\ lastPackage[w] # Active
    /\ event.kind # Null => Recorded(event)
    /\ lastPackage' = [lastPackage EXCEPT ![w] = Active]
    /\ evaluation' = IF IsSkipped(w, Active, evaluation[w]) THEN evaluation
                     ELSE [evaluation EXCEPT ![w] = EvaluationOf(w, Active, @)]
    /\ UNCHANGED <<activation, outcome, events>>

LogNext == Activate \/ \E w \in Watches : Announce(w) \/ Evaluate(w)

LogSpec == LogInit /\ [][LogNext]_logVars
=============================================================================
