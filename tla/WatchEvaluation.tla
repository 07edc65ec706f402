--------------------------- MODULE WatchEvaluation ---------------------------
(***************************************************************************)
(* Evaluating the Opportunity Watches when a monthly package is activated: *)
(* evaluateOpportunityWatchesForPackage over the operational store's       *)
(* claimWatchesForEvaluation, recordAlertEvent, ensureDeliveryState and    *)
(* completeEvaluation.                                                     *)
(*                                                                         *)
(* Any number of evaluators run at once.  Each claims a batch of watches   *)
(* under leases, keeps the watch's last evaluation as it was at the claim, *)
(* and walks the batch with an await between any two store calls; each     *)
(* store call is one transaction.  An evaluator may die at any await, and  *)
(* a lease may expire under a slow one, which goes on not knowing it.      *)
(***************************************************************************)
EXTENDS WatchAlertLog, DistinctSequences

CONSTANTS
    Evaluators,  \* evaluator processes
    Leases,      \* identities of evaluation leases
    BatchSize,   \* input.batchSize
    Overlap,     \* may a package be activated while evaluators still run?
    MaxDeaths,   \* bound: deaths of evaluators
    MaxOutlived, \* bound: leases that expire under their holder
    MaxEvents,   \* bound: alert events
    MaxChanges   \* bound: changes of a watch's status by its owner

ASSUME WatchEvaluationAssumption ==
    /\ Leases \subseteq Nat /\ Null \notin Leases
    /\ IsFiniteSet(Watches) /\ IsFiniteSet(Packages)
    /\ IsFiniteSet(Evaluators) /\ IsFiniteSet(Leases)
    /\ BatchSize \in Nat \ {0}
    /\ Overlap \in BOOLEAN
    /\ MaxDeaths \in Nat /\ MaxOutlived \in Nat /\ MaxChanges \in Nat /\ MaxEvents \in Nat
    \* a lease identity no row and no evaluator holds is always left
    /\ Cardinality(Leases) >= Cardinality(Watches)
         * (Cardinality(Packages) + Cardinality(Evaluators))

VARIABLES
    status,      \* each watch: "ACTIVE", "PAUSED" or "DELETED"
    lease,       \* operational_evaluation_lease: per watch and package, the row's
                 \* identity and whether it is unexpired, or NoLease
    deliveries,  \* ids of the events whose delivery rows were created
    run,         \* per evaluator, Null or the evaluation under way
    deaths,      \* evaluators that died so far
    outlived,    \* leases that expired under their holder so far
    changes      \* status changes so far

evaluationVars == <<logVars, status, lease, deliveries, run, deaths, outlived, changes>>

NoLease == [id |-> Null, live |-> FALSE]

Idle(e) == run[e] = Null
ClaimOf(e) == Head(run[e].claims)

InUse == {lease[w][p].id : w \in Watches, p \in Packages}
         \cup UNION {{c.lease : c \in ToSet(run[e].claims)} : e \in {f \in Evaluators : ~Idle(f)}}

-----------------------------------------------------------------------------
(* The store *)

\* Fault: claims that disregard the leases others hold.
ClaimableIgnoringLeases(w, p) == status[w] = "ACTIVE" /\ lastPackage[w] # p

\* Fault: claims that also take what was evaluated already.
ClaimableAgain(w, p) ==
    status[w] = "ACTIVE" /\ ~lease[w][p].live

\* Fault: an expired lease still keeps others away.
ClaimableUnleased(w, p) ==
    status[w] = "ACTIVE" /\ lastPackage[w] # p /\ lease[w][p] = NoLease

Claimable(w, p) ==
    /\ status[w] = "ACTIVE"
    /\ lastPackage[w] # p
    /\ ~lease[w][p].live

\* The first watches of the batch, in creation order.
Batch(p) == FirstOf({w \in Watches : Claimable(w, p)}, BatchSize)

HoldsLease(claim, p) == lease[claim.watch][p].id = claim.lease

\* completeEvaluation: of a lease that is gone or was taken over, a no-op.
Complete(claim, p) ==
    IF ~HoldsLease(claim, p)
    THEN UNCHANGED <<lastPackage, evaluation, lease>>
    ELSE /\ lastPackage' = [lastPackage EXCEPT ![claim.watch] = p]
         /\ evaluation' = IF IsSkipped(claim.watch, p, claim.prior) THEN evaluation
                          ELSE [evaluation EXCEPT ![claim.watch] =
                                  EvaluationOf(claim.watch, p, claim.prior)]
         /\ lease' = [lease EXCEPT ![claim.watch][p] = NoLease]

-----------------------------------------------------------------------------
(* The evaluator *)

Start(e) ==
    /\ Idle(e)
    /\ run' = [run EXCEPT ![e] = [package |-> Active, claims |-> <<>>, at |-> "evaluate"]]
    /\ UNCHANGED <<logVars, status, lease, deliveries, deaths, outlived, changes>>

\* The next batch; without one the evaluation is over.
Claim(e) ==
    /\ ~Idle(e) /\ run[e].claims = <<>>
    /\ LET p == run[e].package
           batch == Batch(p)
           claims == [i \in DOMAIN batch |->
                        [watch |-> batch[i], lease |-> Nth(Leases \ InUse, i),
                         prior |-> evaluation[batch[i]]]]
       IN /\ run' = [run EXCEPT ![e] = IF batch = <<>> THEN Null
                                       ELSE [run[e] EXCEPT !.claims = claims]]
          /\ lease' = [w \in Watches |->
               IF w \in ToSet(batch)
               THEN [lease[w] EXCEPT ![p] =
                       [id |-> (CHOOSE c \in ToSet(claims) : c.watch = w).lease,
                        live |-> TRUE]]
               ELSE lease[w]]
    /\ UNCHANGED <<logVars, status, deliveries, deaths, outlived, changes>>

\* recordAlertEvent: appended unless its dedupe key is there already.
Record(e) ==
    /\ ~Idle(e) /\ run[e].claims # <<>> /\ run[e].at = "evaluate"
    /\ LET event == EventOf(ClaimOf(e).watch, run[e].package, ClaimOf(e).prior)
       IN /\ event.kind # Null
          /\ Recorded(event) \/ Len(events) < MaxEvents
          /\ events' = IF Recorded(event) THEN events ELSE Append(events, event)
          /\ run' = [run EXCEPT ![e].at =
                       IF Recorded(event) THEN "complete" ELSE "deliver"]
    /\ UNCHANGED <<activation, outcome, lastPackage, evaluation>>
    /\ UNCHANGED <<status, lease, deliveries, deaths, outlived, changes>>

\* recordDeliveries, only after an event this evaluator created.
EnsureDeliveries(e) ==
    /\ ~Idle(e) /\ run[e].claims # <<>> /\ run[e].at = "deliver"
    /\ deliveries' = deliveries \cup
         {IdOf(EventOf(ClaimOf(e).watch, run[e].package, ClaimOf(e).prior))}
    /\ run' = [run EXCEPT ![e].at = "complete"]
    /\ UNCHANGED <<logVars, status, lease, deaths, outlived, changes>>

\* The last call for a watch; the evaluator goes on to the next of its batch.
Finish(e) ==
    /\ ~Idle(e) /\ run[e].claims # <<>>
    /\ \/ run[e].at = "complete"
       \/ /\ run[e].at = "evaluate"
          /\ Announcement(ClaimOf(e).watch, run[e].package, ClaimOf(e).prior) = Null
    /\ Complete(ClaimOf(e), run[e].package)
    /\ run' = [run EXCEPT ![e].claims = Tail(run[e].claims), ![e].at = "evaluate"]
    /\ UNCHANGED <<activation, outcome, events>>
    /\ UNCHANGED <<status, deliveries, deaths, outlived, changes>>

\* An await rejects or the process dies; the leases it took stay behind.
Die(e) ==
    /\ ~Idle(e)
    /\ deaths < MaxDeaths
    /\ deaths' = deaths + 1
    /\ run' = [run EXCEPT ![e] = Null]
    /\ UNCHANGED <<logVars, status, lease, deliveries, outlived, changes>>

-----------------------------------------------------------------------------
(* Around them *)

Held(w, p) ==
    \E e \in Evaluators :
        /\ ~Idle(e) /\ run[e].package = p
        /\ \E c \in ToSet(run[e].claims) : c.watch = w /\ c.lease = lease[w][p].id

\* leaseSeconds pass, for a lease nobody works under any more ...
Expire(w, p) ==
    /\ lease[w][p].live /\ ~Held(w, p)
    /\ lease' = [lease EXCEPT ![w][p].live = FALSE]
    /\ UNCHANGED <<logVars, status, deliveries, run, deaths, outlived, changes>>

\* ... or for one whose holder is slow.
Outlive(w, p) ==
    /\ lease[w][p].live /\ Held(w, p)
    /\ outlived < MaxOutlived
    /\ outlived' = outlived + 1
    /\ lease' = [lease EXCEPT ![w][p].live = FALSE]
    /\ UNCHANGED <<logVars, status, deliveries, run, deaths, changes>>

ActivatePackage ==
    /\ Overlap \/ \A e \in Evaluators : Idle(e)
    /\ Activate
    /\ UNCHANGED <<status, lease, deliveries, run, deaths, outlived, changes>>

\* pauseWatch, resumeWatch, deleteWatch
ChangeStatus(w, to) ==
    /\ changes < MaxChanges /\ changes' = changes + 1
    /\ status[w] # "DELETED"
    /\ status' = [status EXCEPT ![w] = to]
    /\ UNCHANGED <<logVars, lease, deliveries, run, deaths, outlived>>

EvaluationInit ==
    /\ LogInit
    /\ status = [w \in Watches |-> "ACTIVE"]
    /\ lease = [w \in Watches |-> [p \in Packages |-> NoLease]]
    /\ deliveries = {}
    /\ run = [e \in Evaluators |-> Null]
    /\ deaths = 0 /\ outlived = 0 /\ changes = 0

Step(e) == Start(e) \/ Claim(e) \/ Record(e) \/ EnsureDeliveries(e) \/ Finish(e)

EvaluationNext ==
    \/ \E e \in Evaluators : Step(e) \/ Die(e)
    \/ \E w \in Watches, p \in Packages : Expire(w, p) \/ Outlive(w, p)
    \/ ActivatePackage
    \/ \E w \in Watches, to \in {"ACTIVE", "PAUSED", "DELETED"} : ChangeStatus(w, to)

EvaluationSpec == EvaluationInit /\ [][EvaluationNext]_evaluationVars

\* Evaluations are started again and again and do not stall for ever, and
\* the clock reaches the expiry of an abandoned lease.
FairEvaluation ==
    /\ EvaluationSpec
    /\ \A e \in Evaluators : WF_evaluationVars(Step(e))
    /\ \A w \in Watches, p \in Packages : WF_evaluationVars(Expire(w, p))

-----------------------------------------------------------------------------
(* Properties *)

\* What a watch was told about a package, and when the package was activated.
AlertsAbout(w, p) == {i \in DOMAIN events : events[i].watch = w /\ events[i].package = p}
ActivationsOf(p) == {k \in 1 .. activation : Schedule[k] = p}

(* While every lease outlives the work done under it, two evaluators never *)
(* work on the same watch for the same package (the disjoint batches of    *)
(* claimWatchesForEvaluation), even though one crashes and others retry.   *)
DisjointBatches ==
    outlived = 0 =>
      \A e, f \in Evaluators : e # f /\ ~Idle(e) /\ ~Idle(f) =>
        \A c \in ToSet(run[e].claims), d \in ToSet(run[f].claims) :
          ~(c.watch = d.watch /\ run[e].package = run[f].package)

(* A watch raises at most one alert for each activation of a package,      *)
(* however often its evaluation is retried, taken over or finished late:   *)
(* a package that becomes active again, after others, is evaluated again   *)
(* and may raise one alert more.                                           *)
OneAlertPerActivation ==
    \A w \in Watches, p \in Packages :
        Cardinality(AlertsAbout(w, p)) <= Cardinality(ActivationsOf(p))

(* A revision event references the alert it revises: an earlier momentum   *)
(* signal of the same watch about the same month.                          *)
RevisionsReferToTheirAlert ==
    \A j \in DOMAIN events : events[j].kind \in Revisions =>
        LET i == events[j].prior IN
        /\ i \in 1 .. j - 1
        /\ events[i].watch = events[j].watch
        /\ events[i].cutoff = events[j].cutoff
        /\ events[i].kind = "MOMENTUM_SIGNAL"

(* Evaluators that run at once, die, retry and lose their leases leave the *)
(* same events and evaluations as one evaluator that never fails.          *)
ActsAsOneEvaluator == LogSpec

(* Every watch that stays active is evaluated for the package that stays   *)
(* active, although evaluators die holding its lease; and a run, which     *)
(* claims batch after batch, comes to its end.                             *)
EveryWatchEvaluated ==
    /\ \A w \in Watches, i \in DOMAIN Schedule :
         <>[](activation = i /\ status[w] = "ACTIVE")
           => <>(lastPackage[w] = Schedule[i])
    /\ \A e \in Evaluators : ~Idle(e) ~> Idle(e)

=============================================================================
