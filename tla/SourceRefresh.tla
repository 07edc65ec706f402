---------------------------- MODULE SourceRefresh ----------------------------
(***************************************************************************)
(* Activation of releases: the refresh, rollback and promotion commands    *)
(* and the source monitor, over the object store's two versioned pointers, *)
(* the active deployment and the active Source Freshness Status.           *)
(*                                                                         *)
(* A pointer is changed by a compare-and-swap on the version that was      *)
(* read; nothing changes both at once.  A command may die between two      *)
(* store calls, and the answer to a committed swap may be lost.  Times are *)
(* arguments of the commands and therefore free.                           *)
(*                                                                         *)
(* The system begins after its first promotion; nothing ever deletes a     *)
(* pointer, so that the checks for an absent deployment are left out.      *)
(***************************************************************************)
EXTENDS Integers, DistinctSequences

(***************************************************************************)
(* Source Freshness Status records and the rules that derive one from      *)
(* another: by a source check, a refresh, a rollback, a promotion and a    *)
(* reconciliation.                                                         *)
(*                                                                         *)
(* Releases and times are numbers.  Never stands for the null              *)
(* newerReleaseDetectedAt.  A snapshot's id is the hash of its fields, so  *)
(* two snapshots are the same when their records are equal.                *)
(***************************************************************************)
Never == 0
Earliest(t, u) == IF t = Never THEN u ELSE IF u = Never \/ t <= u THEN t ELSE u
Detected(time, otherwise) == IF time = Never THEN otherwise ELSE time

Status(checked, served, latest, detected, failed, rollback, published) ==
    [checked |-> checked, served |-> served, latest |-> latest, detected |-> detected,
     failed |-> failed, rollback |-> rollback, published |-> published]

\* validatedSourceFields does not throw.
IsValid(s) == s.checked <= s.published /\ s.detected <= s.published

\* publishAgainstCurrent: STATUS_REGRESSION
Regresses(s, current) == s.published < current.published \/ s.checked < current.checked

\* completedRefreshStatus
Completed(current, served, at) ==
    Status(current.checked, served, current.latest,
           IF current.latest = served THEN Never ELSE Detected(current.detected, at),
           FALSE, FALSE, at)

\* failedRefreshStatus
Failed(current, attempted, at) ==
    Status(current.checked, current.served, current.latest,
           Detected(current.detected, IF current.latest = attempted THEN at ELSE Never),
           TRUE, FALSE, at)

\* rollbackSourceStatus
RolledBack(current, served, at) ==
    Status(current.checked, served, current.latest,
           IF served = current.latest THEN Never ELSE Detected(current.detected, at),
           FALSE, TRUE, at)

\* promotedSourceFreshnessStatus once a status exists
Promoted(current, release, at) ==
    LET latest == IF release > current.latest THEN release ELSE current.latest
        isLatest == release = latest
    IN Status(current.checked, release, latest,
              IF isLatest THEN Never ELSE Detected(current.detected, at),
              ~isLatest /\ current.failed, ~isLatest /\ current.rollback, at)

\* promotedSourceFreshnessStatus of the first promotion
First(release, built, at) == Status(built, release, release, Never, FALSE, FALSE, at)

\* SourceMonitor.check: the baseline is the current status if it describes the
\* deployment, the deployment's fallback otherwise.
Checked(baseline, served, observed, at) ==
    Status(at, served, observed,
           IF observed > served THEN Detected(baseline.detected, at) ELSE Never,
           baseline.failed, baseline.rollback, at)

\* reconcileDeploymentStatus
NewEnough(s, fallback) == s.published >= fallback.published /\ s.checked >= fallback.checked

\* Fault: any status that is recent enough will do.
IsRecent(s, release, fallback) == NewEnough(s, fallback)

IsReconciled(s, release, fallback) ==
    /\ NewEnough(s, fallback) /\ s.served = release
    /\ fallback.failed => s.failed
    /\ fallback.rollback => s.rollback

Reconciled(s, release, fallback) ==
    IF NewEnough(s, fallback)
    THEN Status(s.checked, release, s.latest,
                IF s.latest = release THEN Never
                ELSE Detected(Earliest(s.detected, fallback.detected), fallback.published),
                fallback.failed \/ (s.served = release /\ s.failed),
                fallback.rollback \/ (s.served = release /\ s.rollback),
                s.published)
    ELSE fallback
-----------------------------------------------------------------------------
CONSTANTS
    Jobs,         \* processes that may run at the same time, each a command or a check
    Candidates,   \* accepted build outputs
    ReleaseOf,    \* the BACI Release of a candidate
    Origin,       \* the candidate of the first promotion
    MaxTime,      \* bound: times are 1 .. MaxTime
    MaxTries,     \* MAX_STATUS_TRANSITION_ATTEMPTS
    MaxHistory,   \* DEPLOYMENT_RETENTION_HISTORY_LIMIT
    MaxStarts,    \* bound: commands started
    MaxLosses,    \* bound: deaths and lost answers
    Null, Unread

\* The records: Source Freshness Statuses, deployment pairings, the two pointers'
\* contents, and the progress of a job.
Statuses == [checked : Nat, served : Nat, latest : Nat, detected : Nat,
             failed : BOOLEAN, rollback : BOOLEAN, published : Nat]
Pairings == [candidate : Candidates, fallback : Statuses]
Deployments == [current : Pairings, history : Seq(Pairings)]
Progress ==
    [kind : {"refresh", "rollback", "promote", "check"},
     release : Nat \cup {Null}, candidate : Candidates \cup {Null}, at : Nat \ {0},
     step : {"read", "build", "recheck", "delay", "load", "activate", "promoted",
             "publish", "current", "compare", "swap", "done", "failed"},
     deployment : Deployments \cup {Unread}, status : Statuses \cup {Null, Unread},
     initial : Pairings \cup {Null}, input : Statuses \cup {Null},
     fresh : BOOLEAN, try : Nat, activated : BOOLEAN]

ASSUME SourceRefreshAssumption ==
    /\ ReleaseOf \in [Candidates -> Nat \ {0}] /\ Origin \in Candidates
    /\ Null \notin Statuses \cup Progress /\ Unread \notin Statuses \cup Deployments \cup {Null}
    /\ MaxTime \in Nat \ {0} /\ MaxTries \in Nat \ {0} /\ MaxHistory \in Nat \ {0}
    /\ MaxStarts \in Nat /\ MaxLosses \in Nat

VARIABLES
    deployment,   \* the active pairing and the retained ones
    status,       \* Null or the active Source Freshness Status
    job,          \* per process, Null or its progress
    starts, losses,
    overtaken,    \* observed: commands that go by a deployment another has replaced
    owed          \* observed: a command ended before the status of its activation was
                  \* published, or an overtaken one published; no status that describes
                  \* the active deployment was published since

vars == <<deployment, status, job, starts, losses, overtaken, owed>>

Times == 1 .. MaxTime
Releases == {ReleaseOf[c] : c \in Candidates}
Release(pairing) == ReleaseOf[pairing.candidate]

Busy(j) == job[j] # Null
At(j, step) == Busy(j) /\ job[j].step = step
Commanding(j) == Busy(j) /\ job[j].kind # "check"

\* The status describes the active deployment.
InStep == status # Null /\ status.served = Release(deployment.current)

-----------------------------------------------------------------------------
(* Progress of a job.                                                      *)

\* The steps at which a job holds a version of each pointer.
HoldsDeployment == {"activate"}
HoldsStatus == {"compare", "swap"}

\* A command that has activated, or that goes by a deployment it has seen.
Relies(r) ==
    /\ r.kind # "check"
    /\ \/ r.activated \/ r.step \in {"publish", "swap"}
       \/ r.step \in {"read", "delay"} /\ r.deployment # Unread
       \/ r.kind = "promote" /\ r.step \in {"load", "activate"}

\* Job j goes on as r, or ends; a write outdates the versions others hold.
Become(j, r, outdated) ==
    /\ job' = [k \in Jobs |->
         IF k = j THEN IF r.step \in {"done", "failed"} THEN Null ELSE r
         ELSE IF Busy(k) /\ job[k].step \in outdated THEN [job[k] EXCEPT !.fresh = FALSE]
         ELSE job[k]]
    /\ overtaken' = {k \in Jobs : IF k = j THEN j \in overtaken /\ Relies(r)
                                  ELSE \/ k \in overtaken
                                       \/ deployment' # deployment /\ Busy(k) /\ Relies(job[k])}
    /\ owed' = IF status' # status /\ InStep' THEN FALSE
               ELSE \/ owed
                    \/ r.step = "failed" /\ r.activated
                    \/ j \in overtaken /\ (r.step = "done" \/ status' # status)

Ended(r, step) == [r EXCEPT !.step = step]
Rereads(r, step) == [r EXCEPT !.step = step, !.deployment = Unread, !.status = Unread]
Publishing(r, s) == [Rereads(r, "publish") EXCEPT !.input = s]

\* An error: a refresh first publishes a delayed status, the others throw.
Failing(r) == IF r.kind = "refresh" THEN Rereads(r, "delay") ELSE Ended(r, "failed")

\* reconcileDeploymentStatus, up to its publish
Reconciling(r, pairing, s) ==
    IF s = Null THEN Publishing(r, pairing.fallback)
    ELSE IF IsReconciled(s, Release(pairing), pairing.fallback) THEN Ended(r, "done")
    ELSE Publishing(r, Reconciled(s, Release(pairing), pairing.fallback))

Steps(j, r) == UNCHANGED <<deployment, status, starts, losses>> /\ Become(j, r, {})

-----------------------------------------------------------------------------
(* The commands.                                                           *)

Command(kind, release, candidate, at) ==
    [kind |-> kind, release |-> release, candidate |-> candidate, at |-> at,
     step |-> "read", deployment |-> Unread, status |-> Unread, initial |-> Null,
     input |-> Null, fresh |-> FALSE, try |-> 1, activated |-> FALSE]

Start(j) ==
    /\ ~Busy(j) /\ starts < MaxStarts
    /\ \E at \in Times, c \in Candidates :
         \E r \in {Command("refresh", ReleaseOf[c], Null, at),
                   Command("rollback", Null, Null, at),
                   Command("promote", ReleaseOf[c], c, at)} :
           job' = [job EXCEPT ![j] = r]
    /\ starts' = starts + 1
    /\ UNCHANGED <<deployment, status, losses, overtaken, owed>>

\* Promise.all of deployments.current() and statuses.current(), in either order.
Read(j) ==
    /\ Busy(j) /\ job[j].step \in {"read", "recheck", "delay"}
    /\ \/ job[j].deployment = Unread /\ Steps(j, [job[j] EXCEPT !.deployment = deployment])
       \/ job[j].status = Unread /\ Steps(j, [job[j] EXCEPT !.status = status])

HasRead(j, kind, step) ==
    At(j, step) /\ job[j].kind = kind /\ job[j].deployment # Unread /\ job[j].status # Unread

\* The fallback of a deployment that a completed refresh activated.
IsCompleted(pairing) ==
    LET f == pairing.fallback
    IN /\ f.served = Release(pairing) /\ f.latest = Release(pairing)
       /\ f.detected = Never /\ ~f.failed /\ ~f.rollback

\* refresh: done already, not what was detected, or to be built.
Refresh(j) ==
    /\ HasRead(j, "refresh", "read")
    /\ LET r == job[j]
           d == r.deployment.current
           s == r.status
       IN \/ /\ Release(d) = r.release /\ IsCompleted(d)
             /\ Steps(j, Reconciling(r, d, s))
          \/ /\ Release(d) = r.release /\ ~IsCompleted(d)
             /\ Steps(j, Ended(r, "failed"))
          \/ /\ Release(d) # r.release
             /\ Steps(j, IF /\ s # Null /\ s.served = Release(d)
                            /\ s.latest = r.release /\ s.detected # Never
                         THEN [Rereads(r, "build") EXCEPT !.initial = d]
                         ELSE Ended(r, "failed"))

\* build and authorizePromotion; the candidate may be of another release.
Build(j) ==
    /\ At(j, "build")
    /\ \/ Steps(j, Failing(job[j]))
       \/ \E c \in Candidates : Steps(j, [Rereads(job[j], "recheck") EXCEPT !.candidate = c])

\* refreshState: nothing changed since the job began.
StillInitial(r) ==
    /\ r.deployment.current = r.initial
    /\ r.status # Null /\ r.status.served = Release(r.initial)

\* refreshState and completedRefreshStatus before promotion
Recheck(j) ==
    /\ HasRead(j, "refresh", "recheck")
    /\ LET r == job[j] IN
         Steps(j, IF StillInitial(r) /\ IsValid(Completed(r.status, r.release, r.at))
                  THEN [Rereads(r, "load") EXCEPT
                          !.input = Completed(r.status, r.release, r.at)]
                  ELSE Failing(r))

\* The catch block: the delayed status, if the state is still the initial one.
Delay(j) ==
    /\ HasRead(j, "refresh", "delay")
    /\ LET r == job[j] IN
         Steps(j, IF StillInitial(r) THEN Publishing(r, Failed(r.status, r.release, r.at))
                  ELSE Ended(r, "failed"))

\* After promotion: the status is read again and completed.
AfterPromotion(j) ==
    /\ At(j, "promoted")
    /\ LET r == job[j] IN
         Steps(j, IF status # Null /\ status.served \in {Release(r.initial), r.release}
                  THEN Publishing(r, Completed(status, r.release, r.at))
                  ELSE Ended(r, "failed"))

\* rollback: committed already, or to be activated.
Rollback(j) ==
    /\ HasRead(j, "rollback", "read")
    /\ LET r == job[j]
           d == r.deployment.current
           s == r.status
           committed == d.fallback.rollback /\ d.fallback.published = r.at
       IN \/ committed /\ Steps(j, Reconciling(r, d, s))
          \/ ~committed /\ Steps(j, IF s # Null /\ s.served = Release(d)
                                    THEN [r EXCEPT !.step = "load", !.initial = d,
                                                   !.deployment = Unread]
                                    ELSE Ended(r, "failed"))

\* promote-release: the status the promotion will carry.
Promote(j) ==
    /\ HasRead(j, "promote", "read")
    /\ LET r == job[j]
           d == r.deployment.current
           s == r.status
           input == IF s = Null THEN First(r.release, 1, r.at)
                    ELSE Promoted(s, r.release, r.at)
           agree == s # Null => s.served = Release(d)
       IN Steps(j, IF agree /\ IsValid(input)
                   THEN [Rereads(r, "load") EXCEPT !.input = input, !.initial = d]
                   ELSE Ended(r, "failed"))

-----------------------------------------------------------------------------
(* ReleasePublisher: load the pointer, prepare the new one, swap.          *)

\* The preconditions of promote(): only a refresh states them.
Expected(r) ==
    r.kind = "refresh" => deployment.current = r.initial /\ ReleaseOf[r.candidate] = r.release

\* Fault: only a deployment the command has seen is compared.
MatchesInitial(r) == r.initial.candidate = r.candidate

\* candidateMatchesDeployment
Matches(r) == deployment.current.candidate = r.candidate

\* promote() up to its activation.  Validation of the candidate, of the stored
\* bytes or of the retention headroom may fail.
LoadPromotion(j) ==
    /\ At(j, "load") /\ job[j].kind # "rollback"
    /\ LET r == job[j] IN
         \/ Steps(j, Failing(r))
         \/ /\ Expected(r) /\ Matches(r)
            /\ Steps(j, IF r.initial = deployment.current THEN Ended(r, "done")
                        ELSE Publishing(r, r.input))
         \/ /\ Expected(r) /\ ~Matches(r)
            /\ Steps(j, [r EXCEPT !.step = "activate", !.deployment = deployment,
                                  !.fresh = TRUE])

\* Fault: whatever is active by now is rolled back.
RestorableAnyway(r) == deployment.history # <<>>

\* The preconditions of rollback()
Restorable(r) == deployment.history # <<>> /\ deployment.current = r.initial

\* rollback() up to its activation: the immediate predecessor, with the status
\* the command read.
LoadRollback(j) ==
    /\ At(j, "load") /\ job[j].kind = "rollback"
    /\ LET r == job[j] IN
         \/ Steps(j, Failing(r))
         \/ /\ Restorable(r)
            /\ LET previous == Head(deployment.history)
                   input == RolledBack(r.status, Release(previous), r.at)
               IN /\ IsValid(input)
                  /\ Steps(j, [r EXCEPT !.step = "activate", !.deployment = deployment,
                                        !.candidate = previous.candidate, !.input = input,
                                        !.fresh = TRUE])

\* nextRetentionHistory: most recent first, without the new current, each
\* pairing once, at most MaxHistory of them.
Retained(pairings, new) ==
    LET kept == {i \in DOMAIN pairings :
                   pairings[i] # new /\ \A k \in 1 .. i - 1 : pairings[k] # pairings[i]}
    IN [n \in DOMAIN FirstOf(kept, MaxHistory) |-> pairings[FirstOf(kept, MaxHistory)[n]]]

\* The pointer the job activates.
Activated(r) ==
    LET d == r.deployment
        new == [candidate |-> r.candidate, fallback |-> r.input]
        predecessors == IF r.kind = "rollback" THEN Tail(d.history) ELSE d.history
    IN [current |-> new, history |-> Retained(<<d.current>> \o predecessors, new)]

\* What a command does next once it knows of its activation.
AfterActivation(r, pairing) ==
    LET sure == [r EXCEPT !.activated = TRUE, !.fresh = FALSE]
    IN IF r.kind = "refresh" THEN Rereads(sure, "promoted")
       ELSE IF r.kind = "rollback" THEN Reconciling(sure, pairing, r.status)
       ELSE IF r.initial = pairing THEN Ended(sure, "done")
       ELSE Publishing(sure, r.input)

\* Fault: the last writer wins.
HasCurrentVersionOrNot(r) == TRUE

\* compareAndSwap: the version read is still the pointer's.
HasCurrentVersion(r) == r.fresh

\* activatePointer: refused (conflict or error), or committed.
Activate(j) ==
    /\ At(j, "activate")
    /\ \/ Steps(j, Failing([job[j] EXCEPT !.fresh = FALSE]))
       \/ /\ HasCurrentVersion(job[j])
          /\ deployment' = Activated(job[j])
          /\ UNCHANGED <<status, starts>>
          /\ \/ /\ Become(j, AfterActivation(job[j], deployment'.current), HoldsDeployment)
                /\ UNCHANGED losses
             \/ /\ losses < MaxLosses /\ losses' = losses + 1   \* the answer is lost
                /\ Become(j, Failing([job[j] EXCEPT !.activated = TRUE, !.fresh = FALSE]),
                          HoldsDeployment)

-----------------------------------------------------------------------------
(* SourceStatusPublisher and SourceMonitor.                                *)

\* publishAgainstCurrent throws before it writes.
Refused(input, current) == ~IsValid(input) \/ (current # Null /\ Regresses(input, current))

\* publishAgainstCurrent up to its swap, with the current status loaded
Prepared(r, input, current) ==
    IF Refused(input, current) THEN Ended(r, "failed")
    ELSE IF current = input THEN Ended(r, "done")
    ELSE [Rereads(r, "swap") EXCEPT !.input = input]

\* publish: loads the status anew, whatever the input was derived from.
Publish(j) ==
    /\ At(j, "publish")
    /\ Steps(j, [Prepared(job[j], job[j].input, status) EXCEPT !.fresh = TRUE])

\* latestHs12Release has answered.
StartCheck(j, observed, at) ==
    /\ ~Busy(j)
    /\ job' = [job EXCEPT ![j] = [Command("check", observed, Null, at) EXCEPT !.step = "current"]]
    /\ UNCHANGED <<deployment, status, starts, losses, overtaken, owed>>

\* publishTransition: the status and its version
LoadStatus(j) ==
    /\ At(j, "current")
    /\ Steps(j, [job[j] EXCEPT !.step = "compare", !.status = status, !.fresh = TRUE])

\* publishTransition: the monitor's transition reads the deployment.
Compare(j) ==
    /\ At(j, "compare")
    /\ LET r == job[j]
           s == r.status
           served == Release(deployment.current)
           describes == s # Null /\ s.served = served
           baseline == IF describes THEN s ELSE deployment.current.fallback
           older == r.release < served \/ (s # Null /\ r.release < s.latest)
       IN Steps(j, IF older THEN Ended(r, "failed")
                   ELSE Prepared(r, Checked(baseline, served, r.release, r.at), s))

\* Fault: the status computed before the conflict is published after it.
RetriedAsItIs(r) == [r EXCEPT !.fresh = TRUE, !.try = @ + 1]

\* publishTransition after STATUS_ACTIVATION_CONFLICT
Retried(r) == [Rereads(r, "current") EXCEPT !.try = @ + 1, !.input = Null]

\* compareAndSwap of the status pointer
Swap(j) ==
    /\ At(j, "swap")
    /\ LET r == job[j] IN
          \/ /\ ~HasCurrentVersion(r)
             /\ Steps(j, IF r.kind = "check" /\ r.try < MaxTries THEN Retried(r)
                         ELSE Ended(r, "failed"))
          \/ /\ HasCurrentVersion(r)
             /\ status' = r.input
             /\ UNCHANGED <<deployment, starts>>
             /\ \/ Become(j, Ended(r, "done"), HoldsStatus) /\ UNCHANGED losses
                \/ /\ Commanding(j) /\ losses < MaxLosses           \* the answer is lost
                   /\ losses' = losses + 1
                   /\ Become(j, Ended(r, "failed"), HoldsStatus)

\* The process ends, or a store call fails outside every catch.  A check that
\* dies leaves what a check that never started leaves.
Die(j) ==
    /\ Commanding(j) /\ losses < MaxLosses
    /\ losses' = losses + 1
    /\ UNCHANGED <<deployment, status, starts>>
    /\ Become(j, Ended(job[j], "failed"), {})

-----------------------------------------------------------------------------
Init ==
    /\ deployment = [current |-> [candidate |-> Origin,
                                  fallback |-> First(ReleaseOf[Origin], 1, 1)],
                     history |-> <<>>]
    /\ status \in {Null, deployment.current.fallback}
    /\ job = [j \in Jobs |-> Null]
    /\ starts = 0 /\ losses = 0 /\ overtaken = {} /\ owed = (status = Null)

CommandStep(j) ==
    \/ Read(j) \/ Refresh(j) \/ Build(j) \/ Recheck(j) \/ Delay(j) \/ AfterPromotion(j)
    \/ Rollback(j) \/ Promote(j) \/ LoadPromotion(j) \/ LoadRollback(j) \/ Activate(j)
    \/ Publish(j)

CheckStep(j) == LoadStatus(j) \/ Compare(j)

Next ==
    \E j \in Jobs :
      \/ Start(j) \/ CommandStep(j)
      \/ \E observed \in Releases, at \in Times : StartCheck(j, observed, at)
      \/ CheckStep(j) \/ Swap(j) \/ Die(j)

Spec == Init /\ [][Next]_vars

-----------------------------------------------------------------------------
(* The immediate predecessor is always another build, so that a rollback   *)
(* restores something else than what it replaces.                          *)
RollbackIsReal ==
    deployment.history # <<>> =>
      Head(deployment.history).candidate # deployment.current.candidate

(* No activation is lost: the deployment that was active is the immediate  *)
(* predecessor of the one that replaces it, whoever activates.             *)
NothingActivatedIsLost ==
    [][deployment' # deployment =>
         deployment'.history # <<>> /\ Head(deployment'.history) = deployment.current]_vars

(* A rollback that is run again, or twice at once, with the same time      *)
(* never goes back to the release it displaced.                            *)
RollbackNeverToggles ==
    [][\A j \in Jobs :
         At(j, "activate") /\ job[j].kind = "rollback" /\ job'[j] # job[j]
           /\ deployment' # deployment =>
             ~(deployment.current.fallback.rollback
               /\ deployment.current.fallback.published = job[j].at)]_vars

(* The published status never goes back in time, and a later check never   *)
(* forgets a release that was known.  Nor does a check clear the delay (a  *)
(* failed refresh or a rollback) of the release it finds served, even if   *)
(* the delay is published while it runs.                                   *)
StatusMovesForward ==
    /\ [][status # Null /\ status' # status =>
         /\ ~Regresses(status', status)
         /\ status'.checked > status.checked => status'.latest >= status.latest]_vars
    /\ [][\A j \in Jobs :
         /\ At(j, "swap") /\ ~Commanding(j) /\ job'[j] = Null
         /\ status # Null /\ status' # status /\ status'.served = status.served
         /\ status.failed \/ status.rollback
         => status'.failed \/ status'.rollback]_vars

(* With no command running, the status describes the active deployment,    *)
(* however commands and checks have interleaved, unless a command ended    *)
(* between its two swaps, or was overtaken between them by the activation  *)
(* of another, and no status that describes it was published since.        *)
InStepWhenQuiet ==
    (\A j \in Jobs : ~Commanding(j)) /\ ~owed => InStep

\* A refresh or a rollback that is run again finds its activation committed.
IsCommitted(j) ==
    LET d == job[j].deployment.current
    IN \/ /\ HasRead(j, "refresh", "read")
          /\ Release(d) = job[j].release /\ IsCompleted(d)
       \/ /\ HasRead(j, "rollback", "read")
          /\ d.fallback.rollback /\ d.fallback.published = job[j].at

(* A second run repairs what a run cut off between its two swaps left: it  *)
(* does not end at once while the status is another deployment's, and a    *)
(* command publishes no other status than one that describes the active    *)
(* deployment, unless it was overtaken.                                    *)
CommandsRepair ==
    [][\A j \in Jobs :
         Commanding(j) /\ j \notin overtaken /\ job'[j] = Null =>
           /\ At(j, "swap") /\ status' # status => InStep'
           /\ IsCommitted(j) /\ job[j].status = status /\ losses' = losses => InStep]_vars
=============================================================================
