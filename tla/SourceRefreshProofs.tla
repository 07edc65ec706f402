------------------------- MODULE SourceRefreshProofs -------------------------
(***************************************************************************)
(* Proofs about the activation of releases: whatever commands race, die    *)
(* or are run again, no activation is lost, a rollback restores another    *)
(* build, and a rollback that is run again does not toggle; the published  *)
(* status moves forward, and describes the active deployment when no       *)
(* command runs or left it behind; for any number of processes,            *)
(* candidates, releases and retries.                                       *)
(***************************************************************************)
EXTENDS SourceRefresh, TLAPS

(* The rollback at the time r.at was not committed when r began.           *)
NotCommitted(r) == ~(r.initial.fallback.rollback /\ r.initial.fallback.published = r.at)

(* What a job has read, built and derived by the step at which it is.      *)
JobOK(r) ==
  /\ r \in Progress
  /\ r.kind # "rollback" => r.release \in Nat
  /\ r.kind = "promote" => r.candidate \in Candidates
  /\ r.step = "recheck" => r.candidate \in Candidates
  /\ r.step = "load" /\ r.kind # "rollback" => r.candidate \in Candidates
  /\ r.step = "load" /\ r.kind # "rollback" => r.input \in Statuses
  /\ r.step \in {"activate", "publish", "swap"} => r.input \in Statuses
  /\ r.step = "promoted" => r.kind = "refresh"
  /\ r.step \in {"current", "compare"} => r.kind = "check"
  /\ r.step = "compare" => r.status # Unread
  /\ r.step = "load" => r.kind # "check"
  /\ r.step \in {"load", "activate"} /\ r.kind = "rollback" =>
       r.status \in Statuses /\ NotCommitted(r)
  /\ r.step = "activate" =>
       /\ r.kind # "check"
       /\ r.candidate \in Candidates /\ r.deployment \in Deployments
       /\ r.candidate # r.deployment.current.candidate
       /\ r.kind = "rollback" =>
            r.deployment.current = r.initial /\ r.deployment.history # <<>>

TypeOK ==
  /\ deployment \in Deployments
  /\ status \in Statuses \cup {Null}
  /\ \A j \in Jobs : Busy(j) => JobOK(job[j])
  /\ job \in [Jobs -> Progress \cup {Null}]

(* A job with the current version of the deployment pointer has its        *)
(* current content.                                                        *)
FreshOK ==
  \A j \in Jobs : At(j, "activate") /\ job[j].fresh => job[j].deployment = deployment

(* The inductive invariant.                                                *)
SInv ==
  /\ TypeOK
  /\ FreshOK
  /\ RollbackIsReal

(* A status that is no later news than the published one: no source check  *)
(* after the published status' made it.                                    *)
KnownUnder(s, current) ==
  1 <= s.checked /\ s.checked <= (IF current = Null THEN 1 ELSE current.checked)
Known(s) == KnownUnder(s, status)

(* What a check learnt from s, and i passes on.                            *)
Informed(i, s) ==
  s # Null =>
    /\ i.latest >= s.latest
    /\ i.served = s.served /\ (s.failed \/ s.rollback) => (i.failed \/ i.rollback)

(* A command passes on known statuses only, and a job with the current     *)
(* version of the status pointer has compared with its current content.    *)
KnowsOK(r) ==
  /\ r.kind # "check" =>
       /\ r.status \in Statuses => Known(r.status)
       /\ r.input \in Statuses => Known(r.input)
       /\ r.deployment \in Deployments => Known(r.deployment.current.fallback)
  /\ r.step = "publish" => r.kind # "check"
  /\ r.step = "swap" => 1 <= r.input.checked
  /\ r.step = "compare" /\ r.fresh => r.status = status
  /\ r.step = "swap" /\ r.fresh =>
       /\ ~Refused(r.input, status)
       /\ r.kind = "check" => Informed(r.input, status)

(* What the published status relies on.                                    *)
KInv ==
  /\ status # Null => Known(status)
  /\ Known(deployment.current.fallback)
  /\ \A j \in Jobs : Busy(j) => KnowsOK(job[j])

-----------------------------------------------------------------------------
(* The records that the model's operators make.                            *)

LEMMA StatusIsStatus ==
  \A checked, served, latest, detected, published \in Nat : \A failed, rollback \in BOOLEAN :
    Status(checked, served, latest, detected, failed, rollback, published) \in Statuses
BY DEF Status, Statuses

(* Every rule that derives a status from statuses makes a status.          *)
LEMMA DerivedStatuses ==
  ASSUME NEW c \in Statuses, NEW f \in Statuses, NEW release \in Nat,
         NEW observed \in Nat, NEW at \in Nat
  PROVE  /\ Completed(c, release, at) \in Statuses
         /\ Failed(c, release, at) \in Statuses
         /\ RolledBack(c, release, at) \in Statuses
         /\ Promoted(c, release, at) \in Statuses
         /\ First(release, 1, at) \in Statuses
         /\ Checked(c, release, observed, at) \in Statuses
         /\ Reconciled(c, release, f) \in Statuses
<1>1. /\ c.checked \in Nat /\ c.served \in Nat /\ c.latest \in Nat /\ c.detected \in Nat
      /\ c.failed \in BOOLEAN /\ c.rollback \in BOOLEAN /\ c.published \in Nat
      /\ f.checked \in Nat /\ f.served \in Nat /\ f.latest \in Nat /\ f.detected \in Nat
      /\ f.failed \in BOOLEAN /\ f.rollback \in BOOLEAN /\ f.published \in Nat
  BY DEF Statuses
<1>2. Never \in Nat /\ \A t, u \in Nat : Detected(t, u) \in Nat /\ Earliest(t, u) \in Nat
  BY DEF Never, Detected, Earliest
<1>3. Completed(c, release, at) \in Statuses
  BY <1>1, <1>2, StatusIsStatus DEF Completed
<1>4. Failed(c, release, at) \in Statuses
  <2>1. (IF c.latest = release THEN at ELSE Never) \in Nat
    BY <1>2
  <2> QED BY <1>1, <1>2, <2>1, StatusIsStatus DEF Failed
<1>5. RolledBack(c, release, at) \in Statuses
  BY <1>1, <1>2, StatusIsStatus DEF RolledBack
<1>6. Promoted(c, release, at) \in Statuses
  <2> DEFINE latest == IF release > c.latest THEN release ELSE c.latest
             isLatest == release = latest
             detected == IF isLatest THEN Never ELSE Detected(c.detected, at)
  <2>1. latest \in Nat /\ detected \in Nat
    BY <1>1, <1>2
  <2>2. (~isLatest /\ c.failed) \in BOOLEAN /\ (~isLatest /\ c.rollback) \in BOOLEAN
    OBVIOUS
  <2>3. Promoted(c, release, at) =
          Status(c.checked, release, latest, detected,
                 ~isLatest /\ c.failed, ~isLatest /\ c.rollback, at)
    BY DEF Promoted
  <2> DEFINE failed == ~isLatest /\ c.failed
             rollback == ~isLatest /\ c.rollback
  <2> HIDE DEF latest, detected
  <2>4. \A b, d \in BOOLEAN :
          Status(c.checked, release, latest, detected, b, d, at) \in Statuses
    BY <1>1, <2>1, StatusIsStatus
  <2>5. failed \in BOOLEAN /\ rollback \in BOOLEAN
    OBVIOUS
  <2>6. Promoted(c, release, at) =
          Status(c.checked, release, latest, detected, failed, rollback, at)
    BY <2>3
  <2> HIDE DEF failed, rollback
  <2> QED BY <2>4, <2>5, <2>6, Zenon
<1>7. First(release, 1, at) \in Statuses
  BY <1>2, StatusIsStatus DEF First
<1>8. Checked(c, release, observed, at) \in Statuses
  <2>1. (IF observed > release THEN Detected(c.detected, at) ELSE Never) \in Nat
    BY <1>1, <1>2
  <2> QED BY <1>1, <2>1, StatusIsStatus DEF Checked
<1>9. Reconciled(c, release, f) \in Statuses
  <2> DEFINE detected == IF c.latest = release THEN Never
                         ELSE Detected(Earliest(c.detected, f.detected), f.published)
             failed == f.failed \/ (c.served = release /\ c.failed)
             rollback == f.rollback \/ (c.served = release /\ c.rollback)
  <2>1. detected \in Nat
    BY <1>1, <1>2
  <2>2. failed \in BOOLEAN /\ rollback \in BOOLEAN
    OBVIOUS
  <2>3. Reconciled(c, release, f) =
          IF NewEnough(c, f)
          THEN Status(c.checked, release, c.latest, detected, failed, rollback, c.published)
          ELSE f
    BY DEF Reconciled
  <2> HIDE DEF detected, failed, rollback
  <2>4. \A b, d \in BOOLEAN :
          Status(c.checked, release, c.latest, detected, b, d, c.published) \in Statuses
    BY <1>1, <2>1, StatusIsStatus
  <2>5. Status(c.checked, release, c.latest, detected, failed, rollback, c.published)
          \in Statuses
    BY <2>2, <2>4, Zenon
  <2> QED BY <2>3, <2>5, Zenon
<1> QED BY <1>3, <1>4, <1>5, <1>6, <1>7, <1>8, <1>9

LEMMA Endings ==
  ASSUME NEW r, JobOK(r), NEW step \in {"done", "failed"}
  PROVE  JobOK(Ended(r, step)) /\ Ended(r, step).step = step
<1>1. r \in Progress
  BY DEF JobOK
<1>2. /\ Ended(r, step) \in Progress /\ Ended(r, step).step = step
      /\ Ended(r, step).kind = r.kind /\ Ended(r, step).release = r.release
      /\ Ended(r, step).candidate = r.candidate
  BY <1>1 DEF Ended, Progress
<1> QED BY <1>2 DEF JobOK

LEMMA Rereadings ==
  ASSUME NEW r \in Progress,
         NEW step \in {"build", "recheck", "delay", "load", "promoted", "publish",
                       "current", "swap"}
  PROVE  LET n == Rereads(r, step) IN
         /\ n \in Progress /\ n.step = step /\ n.kind = r.kind /\ n.release = r.release
         /\ n.candidate = r.candidate /\ n.at = r.at /\ n.initial = r.initial
         /\ n.input = r.input /\ n.fresh = r.fresh /\ n.try = r.try
         /\ n.activated = r.activated /\ n.status = Unread /\ n.deployment = Unread
<1> DEFINE n == Rereads(r, step)
           u == [r EXCEPT !.step = step]
           v == [u EXCEPT !.deployment = Unread]
<1>1. u \in Progress /\ u.step = step
      /\ u.kind = r.kind /\ u.release = r.release /\ u.candidate = r.candidate
      /\ u.at = r.at /\ u.initial = r.initial /\ u.input = r.input
      /\ u.fresh = r.fresh /\ u.try = r.try /\ u.activated = r.activated
  BY DEF Progress
<1> HIDE DEF u
<1>2. v \in Progress /\ v.step = u.step
      /\ v.kind = u.kind /\ v.release = u.release /\ v.candidate = u.candidate
      /\ v.at = u.at /\ v.initial = u.initial /\ v.input = u.input
      /\ v.fresh = u.fresh /\ v.try = u.try /\ v.activated = u.activated
      /\ v.deployment = Unread
  BY <1>1 DEF Progress
<1>3. n = [v EXCEPT !.status = Unread]
  BY DEF Rereads, u
<1> HIDE DEF v
<1>4. n \in Progress /\ n.step = v.step
      /\ n.kind = v.kind /\ n.release = v.release /\ n.candidate = v.candidate
      /\ n.at = v.at /\ n.initial = v.initial /\ n.input = v.input
      /\ n.fresh = v.fresh /\ n.try = v.try /\ n.activated = v.activated
      /\ n.status = Unread /\ n.deployment = Unread
  BY <1>2, <1>3 DEF Progress
<1> QED BY <1>1, <1>2, <1>4

LEMMA Publishings ==
  ASSUME NEW r, JobOK(r), NEW s \in Statuses
  PROVE  JobOK(Publishing(r, s)) /\ Publishing(r, s).step = "publish"
<1> DEFINE n == Rereads(r, "publish")
           p == [n EXCEPT !.input = s]
<1>1. r \in Progress
  BY DEF JobOK
<1>2. /\ n \in Progress /\ n.step = "publish" /\ n.kind = r.kind /\ n.release = r.release
      /\ n.candidate = r.candidate
  BY <1>1, Rereadings
<1>3. Publishing(r, s) = p
  BY DEF Publishing
<1> HIDE DEF n
<1>4. /\ p \in Progress /\ p.step = "publish" /\ p.kind = r.kind /\ p.release = r.release
      /\ p.candidate = r.candidate /\ p.input = s
  BY <1>2 DEF Progress
<1> HIDE DEF p
<1> QED BY <1>3, <1>4 DEF JobOK

LEMMA Failings ==
  ASSUME NEW r, JobOK(r)
  PROVE  JobOK(Failing(r)) /\ Failing(r).step # "activate"
<1>1. r \in Progress
  BY DEF JobOK
<1>2. CASE r.kind = "refresh"
  <2>1. Failing(r) = Rereads(r, "delay")
    BY <1>2 DEF Failing
  <2>2. /\ Rereads(r, "delay") \in Progress /\ Rereads(r, "delay").step = "delay"
        /\ Rereads(r, "delay").kind = r.kind /\ Rereads(r, "delay").release = r.release
    BY <1>1, Rereadings
  <2> QED BY <1>2, <2>1, <2>2 DEF JobOK
<1>3. CASE r.kind # "refresh"
  BY <1>3, Endings DEF Failing
<1> QED BY <1>2, <1>3

LEMMA ReleaseIsNumber == \A p \in Pairings : Release(p) \in Nat /\ p.fallback \in Statuses
BY SourceRefreshAssumption DEF Release, Pairings

LEMMA Reconcilings ==
  ASSUME NEW r, JobOK(r), NEW p \in Pairings, NEW s \in Statuses \cup {Null}
  PROVE  JobOK(Reconciling(r, p, s)) /\ Reconciling(r, p, s).step # "activate"
<1>1. Release(p) \in Nat /\ p.fallback \in Statuses
  BY ReleaseIsNumber
<1>2. CASE s = Null
  BY <1>1, <1>2, Publishings DEF Reconciling
<1>3. CASE s # Null
  <2>1. Reconciled(s, Release(p), p.fallback) \in Statuses
    BY <1>1, <1>3, DerivedStatuses
  <2> QED BY <1>3, <2>1, Publishings, Endings DEF Reconciling
<1> QED BY <1>2, <1>3

(* publishAgainstCurrent: refused, the same already, or to be swapped.     *)
LEMMA Preparations ==
  ASSUME NEW r, JobOK(r), NEW input \in Statuses, NEW current, NEW fresh \in BOOLEAN
  PROVE  /\ JobOK(Prepared(r, input, current))
         /\ JobOK([Prepared(r, input, current) EXCEPT !.fresh = fresh])
         /\ Prepared(r, input, current).step # "activate"
         /\ [Prepared(r, input, current) EXCEPT !.fresh = fresh].step # "activate"
<1> DEFINE m == Prepared(r, input, current)
<1>1. JobOK(m) /\ m.step # "activate"
  <2>1. CASE Refused(input, current) \/ current = input
    BY <2>1, Endings DEF Prepared
  <2>2. CASE ~(Refused(input, current) \/ current = input)
    <3> DEFINE n == Rereads(r, "swap")
               p == [n EXCEPT !.input = input]
    <3>1. r \in Progress
      BY DEF JobOK
    <3>2. /\ n \in Progress /\ n.step = "swap" /\ n.kind = r.kind /\ n.release = r.release
          /\ n.candidate = r.candidate
      BY <3>1, Rereadings
    <3>3. m = p
      BY <2>2 DEF Prepared
    <3> HIDE DEF n, m
    <3>4. /\ p \in Progress /\ p.step = "swap" /\ p.kind = r.kind /\ p.release = r.release
          /\ p.candidate = r.candidate /\ p.input = input
      BY <3>2 DEF Progress
    <3> HIDE DEF p
    <3> QED BY <3>3, <3>4 DEF JobOK
  <2> QED BY <2>1, <2>2
<1> HIDE DEF m
<1>2. m \in Progress
  BY <1>1 DEF JobOK
<1>3. /\ [m EXCEPT !.fresh = fresh] \in Progress
      /\ [m EXCEPT !.fresh = fresh].step = m.step /\ [m EXCEPT !.fresh = fresh].kind = m.kind
      /\ [m EXCEPT !.fresh = fresh].release = m.release
      /\ [m EXCEPT !.fresh = fresh].candidate = m.candidate
      /\ [m EXCEPT !.fresh = fresh].input = m.input
      /\ [m EXCEPT !.fresh = fresh].status = m.status
      /\ [m EXCEPT !.fresh = fresh].at = m.at
      /\ [m EXCEPT !.fresh = fresh].initial = m.initial
  BY <1>2 DEF Progress
<1>4. JobOK([m EXCEPT !.fresh = fresh])
  BY <1>1, <1>3 DEF JobOK, NotCommitted
<1> QED BY <1>1, <1>3, <1>4 DEF m

-----------------------------------------------------------------------------
(* A job's step, as long as it leaves the two pointers alone.              *)

(* Job j goes on as r, and jobs that hold an outdated version lose it.     *)
LEMMA JobsAfter ==
  ASSUME SInv, NEW j \in Jobs, NEW r, JobOK(r), NEW outdated, Become(j, r, outdated)
  PROVE  /\ job' \in [Jobs -> Progress \cup {Null}]
         /\ Busy(j)' => job'[j] = r /\ JobOK(job'[j])
         /\ \A k \in Jobs \ {j} :
              /\ Busy(k)' => /\ Busy(k) /\ JobOK(job'[k]) /\ job'[k].step = job[k].step
                             /\ job'[k].deployment = job[k].deployment
                             /\ job'[k].fresh => job[k].fresh /\ job[k].step \notin outdated
              /\ job[k].step \notin outdated => job'[k] = job[k]
<1>1. job' = [k \in Jobs |->
         IF k = j THEN IF r.step \in {"done", "failed"} THEN Null ELSE r
         ELSE IF Busy(k) /\ job[k].step \in outdated THEN [job[k] EXCEPT !.fresh = FALSE]
         ELSE job[k]]
  BY DEF Become
<1>2. r \in Progress
  BY DEF JobOK
<1>3. Busy(j)' => job'[j] = r
  BY <1>1 DEF Busy
<1>4. ASSUME NEW k \in Jobs \ {j}, Busy(k), job[k].step \in outdated
      PROVE  /\ job'[k] \in Progress /\ JobOK(job'[k]) /\ job'[k].step = job[k].step
             /\ job'[k].deployment = job[k].deployment /\ job'[k].fresh = FALSE
  <2> DEFINE q == job[k]
             n == [q EXCEPT !.fresh = FALSE]
  <2>1. JobOK(q) /\ q \in Progress
    BY <1>4 DEF SInv, TypeOK, JobOK
  <2>2. job'[k] = n
    BY <1>1, <1>4
  <2> HIDE DEF q
  <2>3. /\ n \in Progress /\ n.step = q.step /\ n.kind = q.kind /\ n.release = q.release
        /\ n.candidate = q.candidate /\ n.input = q.input /\ n.status = q.status
        /\ n.at = q.at /\ n.initial = q.initial /\ n.deployment = q.deployment
        /\ n.fresh = FALSE
    BY <2>1 DEF Progress
  <2> HIDE DEF n
  <2>4. JobOK(n)
    BY <2>1, <2>3 DEF JobOK, NotCommitted
  <2> QED BY <2>2, <2>3, <2>4 DEF q
<1>5. ASSUME NEW k \in Jobs \ {j}, ~(Busy(k) /\ job[k].step \in outdated)
      PROVE  job'[k] = job[k]
  BY <1>1, <1>5
<1>6. ASSUME NEW k \in Jobs \ {j}
      PROVE  /\ Busy(k)' => /\ Busy(k) /\ JobOK(job'[k]) /\ job'[k].step = job[k].step
                            /\ job'[k].deployment = job[k].deployment
                            /\ job'[k].fresh => job[k].fresh /\ job[k].step \notin outdated
             /\ job[k].step \notin outdated => job'[k] = job[k]
             /\ job'[k] \in Progress \cup {Null}
  <2>1. CASE Busy(k) /\ job[k].step \in outdated
    BY <1>4, <2>1
  <2>2. CASE ~(Busy(k) /\ job[k].step \in outdated)
    BY <1>5, <2>2 DEF SInv, TypeOK, Busy
  <2> QED BY <2>1, <2>2
<1>7. job' \in [Jobs -> Progress \cup {Null}]
  <2>1. \A k \in Jobs : job'[k] \in Progress \cup {Null}
    BY <1>1, <1>2, <1>6
  <2>2. job' = [k \in Jobs |-> job'[k]]
    BY <1>1
  <2> QED BY <2>1, <2>2
<1> QED BY <1>3, <1>6, <1>7

LEMMA StepsKeepSInv ==
  ASSUME SInv, NEW j \in Jobs, NEW r, JobOK(r), UNCHANGED deployment,
         r.step = "activate" => r.deployment = deployment,
         status' \in Statuses \cup {Null}, NEW outdated, Become(j, r, outdated)
  PROVE  SInv'
<1>1. /\ job' \in [Jobs -> Progress \cup {Null}]
      /\ Busy(j)' => job'[j] = r /\ JobOK(job'[j])
      /\ \A k \in Jobs \ {j} : Busy(k)' =>
           /\ Busy(k) /\ JobOK(job'[k]) /\ job'[k].step = job[k].step
           /\ job'[k].deployment = job[k].deployment /\ (job'[k].fresh => job[k].fresh)
  BY JobsAfter
<1>2. TypeOK'
  BY <1>1 DEF SInv, TypeOK
<1>3. FreshOK'
  <2> SUFFICES ASSUME NEW k \in Jobs, Busy(k)', job'[k].step = "activate", job'[k].fresh
               PROVE  job'[k].deployment = deployment
    BY DEF FreshOK, At
  <2>1. CASE k = j
    BY <1>1, <2>1
  <2>2. CASE k # j
    BY <1>1, <2>2 DEF SInv, FreshOK, At
  <2> QED BY <2>1, <2>2
<1>4. RollbackIsReal'
  BY DEF SInv, RollbackIsReal
<1> QED BY <1>2, <1>3, <1>4 DEF SInv

(* What a busy job is known to be.                                         *)
LEMMA JobIsOK ==
  ASSUME SInv, NEW j \in Jobs, Busy(j)
  PROVE  JobOK(job[j]) /\ job[j] \in Progress
BY DEF SInv, TypeOK, JobOK

LEMMA CurrentIsPairing == SInv => deployment \in Deployments /\ deployment.current \in Pairings
BY DEF SInv, TypeOK, Deployments

-----------------------------------------------------------------------------
(* The steps, one lemma each.                                              *)

LEMMA StartKeepsSInv ==
  ASSUME SInv, NEW j \in Jobs, Start(j)
  PROVE  SInv'
<1>1. PICK at \in Times, c \in Candidates :
        \E r \in {Command("refresh", ReleaseOf[c], Null, at),
                  Command("rollback", Null, Null, at),
                  Command("promote", ReleaseOf[c], c, at)} :
          job' = [job EXCEPT ![j] = r]
  BY DEF Start
<1>2. PICK r \in {Command("refresh", ReleaseOf[c], Null, at),
                  Command("rollback", Null, Null, at),
                  Command("promote", ReleaseOf[c], c, at)} :
          job' = [job EXCEPT ![j] = r]
  BY <1>1
<1>3. at \in Nat \ {0} /\ ReleaseOf[c] \in Nat
  BY SourceRefreshAssumption DEF Times
<1>4. JobOK(r) /\ r \in Progress /\ r.step = "read"
  <2>1. CASE r = Command("refresh", ReleaseOf[c], Null, at)
    BY <1>3, <2>1 DEF JobOK, Command, Progress
  <2>2. CASE r = Command("rollback", Null, Null, at)
    BY <1>3, <2>2 DEF JobOK, Command, Progress
  <2>3. CASE r = Command("promote", ReleaseOf[c], c, at)
    BY <1>3, <2>3 DEF JobOK, Command, Progress
  <2> QED BY <1>2, <2>1, <2>2, <2>3
<1>5. UNCHANGED <<deployment, status>>
  BY DEF Start
<1> QED BY <1>2, <1>4, <1>5 DEF SInv, TypeOK, FreshOK, RollbackIsReal, Busy, At

LEMMA StartCheckKeepsSInv ==
  ASSUME SInv, NEW j \in Jobs, NEW observed \in Releases, NEW at \in Times,
         StartCheck(j, observed, at)
  PROVE  SInv'
<1> DEFINE r == [Command("check", observed, Null, at) EXCEPT !.step = "current"]
<1>1. job' = [job EXCEPT ![j] = r] /\ UNCHANGED <<deployment, status>>
  BY DEF StartCheck
<1>2. at \in Nat \ {0} /\ observed \in Nat
  BY SourceRefreshAssumption DEF Times, Releases
<1>3. JobOK(r) /\ r \in Progress /\ r.step = "current"
  BY <1>2 DEF JobOK, Command, Progress
<1> HIDE DEF r
<1> QED BY <1>1, <1>3 DEF SInv, TypeOK, FreshOK, RollbackIsReal, Busy, At

LEMMA QuietStep ==
  ASSUME SInv, NEW j \in Jobs, NEW r, Steps(j, r), JobOK(r),
         r.step = "activate" => r.deployment = deployment
  PROVE  SInv'
BY StepsKeepSInv DEF Steps, SInv, TypeOK

LEMMA ReadKeepsSInv ==
  ASSUME SInv, NEW j \in Jobs, Read(j)
  PROVE  SInv'
<1> DEFINE r == job[j]
           u == [r EXCEPT !.deployment = deployment]
           v == [r EXCEPT !.status = status]
<1>1. Busy(j) /\ r.step \in {"read", "recheck", "delay"} /\ (Steps(j, u) \/ Steps(j, v))
  BY DEF Read
<1>2. JobOK(r) /\ r \in Progress
  BY <1>1, JobIsOK
<1>3. deployment \in Deployments /\ status \in Statuses \cup {Null}
  BY DEF SInv, TypeOK
<1> HIDE DEF r
<1>4. JobOK(u) /\ u.step # "activate"
  <2>1. /\ u \in Progress /\ u.step = r.step /\ u.kind = r.kind /\ u.release = r.release
        /\ u.candidate = r.candidate
    BY <1>2, <1>3 DEF Progress
  <2> HIDE DEF u
  <2> QED BY <1>1, <1>2, <2>1 DEF JobOK
<1>5. JobOK(v) /\ v.step # "activate"
  <2>1. /\ v \in Progress /\ v.step = r.step /\ v.kind = r.kind /\ v.release = r.release
        /\ v.candidate = r.candidate
    BY <1>2, <1>3 DEF Progress
  <2> HIDE DEF v
  <2> QED BY <1>1, <1>2, <2>1 DEF JobOK
<1> QED BY <1>1, <1>4, <1>5, QuietStep

(* What a job that has read both pointers knows.                           *)
LEMMA HasReadThem ==
  ASSUME SInv, NEW j \in Jobs, NEW kind, NEW step, HasRead(j, kind, step)
  PROVE  /\ JobOK(job[j]) /\ job[j] \in Progress /\ job[j].kind = kind /\ job[j].step = step
         /\ job[j].deployment \in Deployments /\ job[j].deployment.current \in Pairings
         /\ job[j].status \in Statuses \cup {Null} /\ job[j].at \in Nat
<1>1. JobOK(job[j]) /\ job[j] \in Progress
  BY JobIsOK DEF HasRead, At
<1>2. job[j].deployment \in Deployments
  BY <1>1 DEF HasRead, Progress
<1> QED BY <1>1, <1>2 DEF HasRead, At, Progress, Deployments

LEMMA RefreshKeepsSInv ==
  ASSUME SInv, NEW j \in Jobs, Refresh(j)
  PROVE  SInv'
<1> DEFINE r == job[j]
           d == r.deployment.current
           n == Rereads(r, "build")
           b == [n EXCEPT !.initial = d]
<1>1. /\ JobOK(r) /\ r \in Progress /\ d \in Pairings /\ r.status \in Statuses \cup {Null}
  BY HasReadThem DEF Refresh
<1>2. \/ Steps(j, Reconciling(r, d, r.status))
      \/ Steps(j, Ended(r, "failed"))
      \/ Steps(j, b)
  BY DEF Refresh
<1> HIDE DEF r, d
<1>3. /\ n \in Progress /\ n.step = "build" /\ n.kind = r.kind /\ n.release = r.release
      /\ n.candidate = r.candidate
  BY <1>1, Rereadings
<1> HIDE DEF n
<1>4. /\ b \in Progress /\ b.step = "build" /\ b.kind = r.kind /\ b.release = r.release
      /\ b.candidate = r.candidate
  BY <1>1, <1>3 DEF Progress
<1> HIDE DEF b
<1>5. JobOK(b) /\ b.step # "activate"
  BY <1>1, <1>4 DEF JobOK
<1>6. JobOK(Ended(r, "failed")) /\ Ended(r, "failed").step # "activate"
  BY <1>1, Endings
<1>7. JobOK(Reconciling(r, d, r.status)) /\ Reconciling(r, d, r.status).step # "activate"
  BY <1>1, Reconcilings
<1> QED BY <1>2, <1>5, <1>6, <1>7, QuietStep

LEMMA BuildKeepsSInv ==
  ASSUME SInv, NEW j \in Jobs, Build(j)
  PROVE  SInv'
<1> DEFINE r == job[j]
           n == Rereads(r, "recheck")
<1>1. JobOK(r) /\ r \in Progress
  BY JobIsOK DEF Build, At
<1>2. \/ Steps(j, Failing(r))
      \/ \E c \in Candidates : Steps(j, [n EXCEPT !.candidate = c])
  BY DEF Build
<1> HIDE DEF r
<1>3. n \in Progress /\ n.step = "recheck" /\ n.kind = r.kind /\ n.release = r.release
  BY <1>1, Rereadings
<1> HIDE DEF n
<1>4. ASSUME NEW c \in Candidates, Steps(j, [n EXCEPT !.candidate = c])
      PROVE  SInv'
  <2> DEFINE b == [n EXCEPT !.candidate = c]
  <2>1. /\ b \in Progress /\ b.step = "recheck" /\ b.kind = r.kind /\ b.release = r.release
        /\ b.candidate = c
    BY <1>3 DEF Progress
  <2>2. Steps(j, b)
    BY <1>4
  <2> HIDE DEF b
  <2>3. JobOK(b) /\ b.step # "activate"
    BY <1>1, <2>1 DEF JobOK
  <2> QED BY <2>2, <2>3, QuietStep
<1>5. ASSUME Steps(j, Failing(r)) PROVE SInv'
  BY <1>1, <1>5, Failings, QuietStep
<1> QED BY <1>2, <1>4, <1>5

LEMMA RecheckKeepsSInv ==
  ASSUME SInv, NEW j \in Jobs, Recheck(j)
  PROVE  SInv'
<1> DEFINE r == job[j]
           s == Completed(r.status, r.release, r.at)
           n == Rereads(r, "load")
           b == [n EXCEPT !.input = s]
<1>1. /\ JobOK(r) /\ r \in Progress /\ r.kind = "refresh" /\ r.step = "recheck"
      /\ r.status \in Statuses \cup {Null} /\ r.at \in Nat
  BY HasReadThem DEF Recheck
<1>2. \/ StillInitial(r) /\ Steps(j, b)
      \/ Steps(j, Failing(r))
  BY DEF Recheck
<1> HIDE DEF r
<1>3. ASSUME StillInitial(r), Steps(j, b) PROVE SInv'
  <2>1. r.status \in Statuses /\ r.release \in Nat
    BY <1>1, <1>3 DEF StillInitial, JobOK
  <2>2. s \in Statuses
    BY <1>1, <2>1, DerivedStatuses
  <2> HIDE DEF s
  <2>3. /\ n \in Progress /\ n.step = "load" /\ n.kind = r.kind /\ n.release = r.release
        /\ n.candidate = r.candidate
    BY <1>1, Rereadings
  <2> HIDE DEF n
  <2>4. /\ b \in Progress /\ b.step = "load" /\ b.kind = r.kind /\ b.release = r.release
        /\ b.candidate = r.candidate /\ b.input = s
    BY <2>2, <2>3 DEF Progress
  <2> HIDE DEF b
  <2>5. JobOK(b) /\ b.step # "activate"
    BY <1>1, <2>2, <2>4 DEF JobOK
  <2> QED BY <1>3, <2>5, QuietStep
<1>4. ASSUME Steps(j, Failing(r)) PROVE SInv'
  BY <1>1, <1>4, Failings, QuietStep
<1> QED BY <1>2, <1>3, <1>4

LEMMA DelayKeepsSInv ==
  ASSUME SInv, NEW j \in Jobs, Delay(j)
  PROVE  SInv'
<1> DEFINE r == job[j]
           s == Failed(r.status, r.release, r.at)
<1>1. /\ JobOK(r) /\ r.kind = "refresh" /\ r.status \in Statuses \cup {Null} /\ r.at \in Nat
  BY HasReadThem DEF Delay
<1>2. \/ StillInitial(r) /\ Steps(j, Publishing(r, s))
      \/ Steps(j, Ended(r, "failed"))
  BY DEF Delay
<1> HIDE DEF r
<1>3. ASSUME StillInitial(r), Steps(j, Publishing(r, s)) PROVE SInv'
  <2>1. r.status \in Statuses /\ r.release \in Nat
    BY <1>1, <1>3 DEF StillInitial, JobOK
  <2>2. s \in Statuses
    BY <1>1, <2>1, DerivedStatuses
  <2> HIDE DEF s
  <2> QED BY <1>1, <1>3, <2>2, Publishings, QuietStep
<1>4. ASSUME Steps(j, Ended(r, "failed")) PROVE SInv'
  BY <1>1, <1>4, Endings, QuietStep
<1> QED BY <1>2, <1>3, <1>4

LEMMA AfterPromotionKeepsSInv ==
  ASSUME SInv, NEW j \in Jobs, AfterPromotion(j)
  PROVE  SInv'
<1> DEFINE r == job[j]
           s == Completed(status, r.release, r.at)
<1>1. JobOK(r) /\ r \in Progress /\ r.step = "promoted"
  BY JobIsOK DEF AfterPromotion, At
<1>2. r.kind = "refresh" /\ r.release \in Nat /\ r.at \in Nat
  BY <1>1 DEF JobOK, Progress
<1>3. \/ status # Null /\ Steps(j, Publishing(r, s))
      \/ Steps(j, Ended(r, "failed"))
  BY DEF AfterPromotion
<1> HIDE DEF r
<1>4. ASSUME status # Null, Steps(j, Publishing(r, s)) PROVE SInv'
  <2>1. status \in Statuses
    BY <1>4 DEF SInv, TypeOK
  <2>2. s \in Statuses
    BY <1>2, <2>1, DerivedStatuses
  <2> HIDE DEF s
  <2> QED BY <1>1, <1>4, <2>2, Publishings, QuietStep
<1>5. ASSUME Steps(j, Ended(r, "failed")) PROVE SInv'
  BY <1>1, <1>5, Endings, QuietStep
<1> QED BY <1>3, <1>4, <1>5

LEMMA RollbackKeepsSInv ==
  ASSUME SInv, NEW j \in Jobs, Rollback(j)
  PROVE  SInv'
<1> DEFINE r == job[j]
           d == r.deployment.current
           b == [r EXCEPT !.step = "load", !.initial = d, !.deployment = Unread]
           committed == d.fallback.rollback /\ d.fallback.published = r.at
<1>1. /\ JobOK(r) /\ r \in Progress /\ d \in Pairings /\ r.status \in Statuses \cup {Null}
      /\ r.kind = "rollback"
  BY HasReadThem DEF Rollback
<1>2. \/ Steps(j, Reconciling(r, d, r.status))
      \/ ~committed /\ r.status # Null /\ Steps(j, b)
      \/ Steps(j, Ended(r, "failed"))
  BY DEF Rollback
<1> HIDE DEF r, d
<1>3. ASSUME ~committed, r.status # Null, Steps(j, b) PROVE SInv'
  <2>1. /\ b \in Progress /\ b.step = "load" /\ b.kind = "rollback"
        /\ b.release = r.release /\ b.candidate = r.candidate
        /\ b.initial = d /\ b.status = r.status /\ b.at = r.at
    BY <1>1 DEF Progress
  <2> HIDE DEF b
  <2>2. NotCommitted(b)
    BY <1>3, <2>1 DEF NotCommitted
  <2>3. JobOK(b) /\ b.step # "activate"
    BY <1>1, <1>3, <2>1, <2>2 DEF JobOK
  <2> QED BY <1>3, <2>3, QuietStep
<1>4. ASSUME Steps(j, Ended(r, "failed")) PROVE SInv'
  BY <1>1, <1>4, Endings, QuietStep
<1>5. ASSUME Steps(j, Reconciling(r, d, r.status)) PROVE SInv'
  BY <1>1, <1>5, Reconcilings, QuietStep
<1> QED BY <1>2, <1>3, <1>4, <1>5

LEMMA PromoteKeepsSInv ==
  ASSUME SInv, NEW j \in Jobs, Promote(j)
  PROVE  SInv'
<1> DEFINE r == job[j]
           d == r.deployment.current
           input == IF r.status = Null THEN First(r.release, 1, r.at)
                    ELSE Promoted(r.status, r.release, r.at)
           n == Rereads(r, "load")
           b == [n EXCEPT !.input = input, !.initial = d]
<1>1. /\ JobOK(r) /\ r \in Progress /\ d \in Pairings /\ r.status \in Statuses \cup {Null}
      /\ r.kind = "promote" /\ r.at \in Nat
  BY HasReadThem DEF Promote
<1>2. Steps(j, b) \/ Steps(j, Ended(r, "failed"))
  BY DEF Promote
<1> HIDE DEF r, d
<1>3. r.release \in Nat /\ r.candidate \in Candidates
  BY <1>1 DEF JobOK
<1>4. input \in Statuses
  <2>1. d.fallback \in Statuses
    BY <1>1, ReleaseIsNumber
  <2>2. CASE r.status = Null
    BY <1>1, <1>3, <2>1, <2>2, DerivedStatuses
  <2>3. CASE r.status # Null
    BY <1>1, <1>3, <2>3, DerivedStatuses
  <2> QED BY <2>2, <2>3
<1> HIDE DEF input
<1>5. /\ n \in Progress /\ n.step = "load" /\ n.kind = r.kind /\ n.release = r.release
      /\ n.candidate = r.candidate
  BY <1>1, Rereadings
<1> HIDE DEF n
<1>6. /\ b \in Progress /\ b.step = "load" /\ b.kind = r.kind /\ b.release = r.release
      /\ b.candidate = r.candidate /\ b.input = input
  <2>1. b \in Progress
    BY <1>1, <1>4, <1>5 DEF Progress
  <2>2. /\ b.step = "load" /\ b.kind = r.kind /\ b.release = r.release
        /\ b.candidate = r.candidate /\ b.input = input
    BY <1>1, <1>4, <1>5 DEF Progress
  <2> QED BY <2>1, <2>2
<1> HIDE DEF b
<1>7. JobOK(b) /\ b.step # "activate"
  BY <1>1, <1>3, <1>4, <1>6 DEF JobOK
<1>8. JobOK(Ended(r, "failed")) /\ Ended(r, "failed").step # "activate"
  BY <1>1, Endings
<1> QED BY <1>2, <1>7, <1>8, QuietStep

(* What load puts into a job before it activates.                          *)
LEMMA LoadedJob ==
  ASSUME SInv, NEW r, JobOK(r), r.kind # "check", NEW c \in Candidates, NEW s \in Statuses,
         c # deployment.current.candidate,
         r.kind = "rollback" => r.status \in Statuses /\ NotCommitted(r)
                                /\ deployment.current = r.initial
                                /\ deployment.history # <<>>
  PROVE  LET b == [r EXCEPT !.step = "activate", !.deployment = deployment,
                            !.candidate = c, !.input = s, !.fresh = TRUE]
         IN JobOK(b) /\ b.deployment = deployment
<1> DEFINE u == [r EXCEPT !.step = "activate", !.deployment = deployment]
           b == [u EXCEPT !.candidate = c, !.input = s, !.fresh = TRUE]
<1>1. r \in Progress /\ deployment \in Deployments
  BY DEF JobOK, SInv, TypeOK
<1>2. /\ u \in Progress /\ u.step = "activate" /\ u.kind = r.kind /\ u.release = r.release
      /\ u.status = r.status /\ u.at = r.at /\ u.initial = r.initial
      /\ u.deployment = deployment
  BY <1>1 DEF Progress
<1>3. b = [r EXCEPT !.step = "activate", !.deployment = deployment,
                    !.candidate = c, !.input = s, !.fresh = TRUE]
  OBVIOUS
<1> HIDE DEF u
<1>4. /\ b \in Progress /\ b.step = "activate" /\ b.kind = r.kind /\ b.release = r.release
      /\ b.status = r.status /\ b.at = r.at /\ b.initial = r.initial
      /\ b.deployment = deployment /\ b.candidate = c /\ b.input = s
  BY <1>2 DEF Progress
<1> HIDE DEF b
<1>5. r.kind = "rollback" => NotCommitted(b)
  BY <1>4 DEF NotCommitted
<1>6. JobOK(b)
  BY <1>1, <1>4, <1>5 DEF JobOK
<1> QED BY <1>3, <1>4, <1>6

LEMMA LoadPromotionKeepsSInv ==
  ASSUME SInv, NEW j \in Jobs, LoadPromotion(j)
  PROVE  SInv'
<1> DEFINE r == job[j]
           b == [r EXCEPT !.step = "activate", !.deployment = deployment, !.fresh = TRUE]
<1>1. JobOK(r) /\ r \in Progress /\ r.step = "load" /\ r.kind # "rollback"
  BY JobIsOK DEF LoadPromotion, At
<1>2. /\ r.candidate \in Candidates /\ r.input \in Statuses
      /\ deployment \in Deployments
  BY <1>1 DEF JobOK, SInv, TypeOK
<1>3. \/ Steps(j, Failing(r))
      \/ Steps(j, Ended(r, "done"))
      \/ Steps(j, Publishing(r, r.input))
      \/ ~Matches(r) /\ Steps(j, b)
  BY DEF LoadPromotion
<1> HIDE DEF r
<1>4. ASSUME ~Matches(r), Steps(j, b) PROVE SInv'
  <2>1. /\ b \in Progress /\ b.step = "activate" /\ b.kind = r.kind /\ b.release = r.release
        /\ b.deployment = deployment /\ b.candidate = r.candidate /\ b.input = r.input
    BY <1>1, <1>2 DEF Progress
  <2> HIDE DEF b
  <2>2. JobOK(b)
    BY <1>1, <1>2, <1>4, <2>1 DEF JobOK, Matches
  <2> QED BY <1>4, <2>1, <2>2, QuietStep
<1>5. ASSUME Steps(j, Failing(r)) PROVE SInv'
  BY <1>1, <1>5, Failings, QuietStep
<1>6. ASSUME Steps(j, Ended(r, "done")) PROVE SInv'
  BY <1>1, <1>6, Endings, QuietStep
<1>7. ASSUME Steps(j, Publishing(r, r.input)) PROVE SInv'
  BY <1>1, <1>2, <1>7, Publishings, QuietStep
<1> QED BY <1>3, <1>4, <1>5, <1>6, <1>7

LEMMA LoadRollbackKeepsSInv ==
  ASSUME SInv, NEW j \in Jobs, LoadRollback(j)
  PROVE  SInv'
<1> DEFINE r == job[j]
           previous == Head(deployment.history)
           input == RolledBack(r.status, Release(previous), r.at)
           b == [r EXCEPT !.step = "activate", !.deployment = deployment,
                          !.candidate = previous.candidate, !.input = input,
                          !.fresh = TRUE]
<1>1. JobOK(r) /\ r \in Progress /\ r.step = "load" /\ r.kind = "rollback"
  BY JobIsOK DEF LoadRollback, At
<1>2. r.status \in Statuses /\ NotCommitted(r) /\ r.at \in Nat
  BY <1>1 DEF JobOK, Progress
<1>3. \/ Steps(j, Failing(r))
      \/ Restorable(r) /\ Steps(j, b)
  BY DEF LoadRollback
<1>4. ASSUME Restorable(r), Steps(j, b) PROVE SInv'
  <2>1. deployment.history # <<>> /\ deployment.current = r.initial
    BY <1>4 DEF Restorable
  <2>2. previous \in Pairings
    BY <2>1 DEF SInv, TypeOK, Deployments
  <2>3. previous.candidate # deployment.current.candidate
    BY <2>1 DEF SInv, RollbackIsReal
  <2>4. previous.candidate \in Candidates /\ Release(previous) \in Nat
    BY <2>2, ReleaseIsNumber DEF Pairings
  <2>5. input \in Statuses
    BY <1>2, <2>4, DerivedStatuses
  <2> HIDE DEF r, previous, input
  <2>6. JobOK(b) /\ b.deployment = deployment
    BY <1>1, <1>2, <2>1, <2>3, <2>4, <2>5, LoadedJob
  <2> HIDE DEF b
  <2> QED BY <1>4, <2>6, QuietStep
<1>5. ASSUME Steps(j, Failing(r)) PROVE SInv'
  BY <1>1, <1>5, Failings, QuietStep
<1> QED BY <1>3, <1>4, <1>5

-----------------------------------------------------------------------------
(* The activation.                                                         *)

(* nextRetentionHistory keeps its first predecessor first.                 *)
LEMMA RetainedBegins ==
  ASSUME NEW T, NEW s \in Seq(T), NEW x \in T, NEW new, x # new
  PROVE  /\ Retained(<<x>> \o s, new) \in Seq(T)
         /\ Retained(<<x>> \o s, new) # <<>>
         /\ Head(Retained(<<x>> \o s, new)) = x
<1> DEFINE p == <<x>> \o s
           kept == {i \in DOMAIN p : p[i] # new /\ \A k \in 1 .. i - 1 : p[k] # p[i]}
           f == FirstOf(kept, MaxHistory)
           h == Retained(p, new)
<1>1. p \in Seq(T) /\ DOMAIN p = 1 .. Len(p) /\ Len(p) \in Nat /\ 1 \in DOMAIN p /\ p[1] = x
  OBVIOUS
<1> HIDE DEF p
<1>2. kept \in SUBSET Nat /\ IsFiniteSet(kept) /\ kept \subseteq DOMAIN p
  <2>1. IsFiniteSet(1 .. Len(p))
    BY <1>1, FS_Interval
  <2>2. kept \subseteq 1 .. Len(p)
    BY <1>1
  <2>3. IsFiniteSet(kept)
    <3> HIDE DEF kept
    <3> QED BY <2>1, <2>2, FS_Subset
  <2> QED BY <1>1, <2>2, <2>3
<1>3. 1 \in kept /\ \A i \in kept : 1 <= i
  BY <1>1
<1>4. h = [n \in DOMAIN f |-> p[f[n]]]
  BY DEF Retained
<1>5. MaxHistory \in Nat \ {0}
  BY SourceRefreshAssumption
<1> HIDE DEF kept
<1>6. f \in Seq(kept)
  BY <1>2, <1>5, FirstOfElements
<1>7. 1 \in DOMAIN f /\ f[1] = 1
  BY <1>2, <1>3, <1>5, FirstOfBegins
<1> HIDE DEF f, h
<1>8. \A n \in DOMAIN f : p[f[n]] \in T
  <2>1. \A i \in 1 .. Len(p) : p[i] \in T
    BY <1>1
  <2>2. \A n \in DOMAIN f : f[n] \in kept
    BY <1>6
  <2>3. \A i \in kept : i \in 1 .. Len(p)
    BY <1>1, <1>2
  <2> QED BY <2>1, <2>2, <2>3
<1>9. h \in Seq(T) /\ DOMAIN h = DOMAIN f /\ h[1] = x
  <2>1. Len(f) \in Nat /\ DOMAIN f = 1 .. Len(f)
    BY <1>6
  <2>2. h = [n \in 1 .. Len(f) |-> p[f[n]]]
    BY <1>4, <2>1
  <2>3. h \in [1 .. Len(f) -> T]
    BY <1>8, <2>1, <2>2
  <2>4. h \in Seq(T) /\ DOMAIN h = DOMAIN f
    BY <2>1, <2>3
  <2>5. h[1] = p[1]
    BY <1>4, <1>7
  <2> QED BY <1>1, <2>4, <2>5
<1>10. h # <<>> /\ Head(h) = x
  BY <1>7, <1>9
<1> QED BY <1>9, <1>10 DEF h, p

LEMMA ActivatedDeployment ==
  ASSUME NEW r, JobOK(r), r.step = "activate"
  PROVE  /\ Activated(r) \in Deployments
         /\ Activated(r).history # <<>>
         /\ Head(Activated(r).history) = r.deployment.current
         /\ Activated(r).current.candidate = r.candidate
         /\ Activated(r).current # r.deployment.current
<1> DEFINE d == r.deployment
           new == [candidate |-> r.candidate, fallback |-> r.input]
           predecessors == IF r.kind = "rollback" THEN Tail(d.history) ELSE d.history
           history == Retained(<<d.current>> \o predecessors, new)
<1>1. /\ d \in Deployments /\ d.current \in Pairings /\ d.history \in Seq(Pairings)
      /\ new \in Pairings /\ new.candidate = r.candidate /\ new # d.current
  BY DEF JobOK, Deployments, Pairings
<1>2. predecessors \in Seq(Pairings)
  <2>1. r.kind = "rollback" => d.history # <<>>
    BY DEF JobOK
  <2> HIDE DEF d
  <2> QED BY <1>1, <2>1
<1>3. Activated(r) = [current |-> new, history |-> history]
  BY DEF Activated
<1> HIDE DEF d, new, predecessors
<1>4. history \in Seq(Pairings) /\ history # <<>> /\ Head(history) = d.current
  BY <1>1, <1>2, RetainedBegins
<1> HIDE DEF history
<1>5. Activated(r) \in Deployments /\ Activated(r).current = new
      /\ Activated(r).history = history
  BY <1>1, <1>3, <1>4 DEF Deployments
<1> QED BY <1>1, <1>4, <1>5 DEF d

(* What a command does next once its activation is committed.              *)
LEMMA AfterActivations ==
  ASSUME NEW r, JobOK(r), r.step = "activate", NEW p \in Pairings
  PROVE  JobOK(AfterActivation(r, p)) /\ AfterActivation(r, p).step # "activate"
<1> DEFINE u == [r EXCEPT !.activated = TRUE, !.fresh = FALSE]
<1>1. r \in Progress /\ r.kind # "check" /\ r.input \in Statuses
  BY DEF JobOK
<1>2. /\ u \in Progress /\ u.step = r.step /\ u.kind = r.kind /\ u.release = r.release
      /\ u.candidate = r.candidate /\ u.at = r.at /\ u.initial = r.initial
      /\ u.status = r.status /\ u.deployment = r.deployment /\ u.input = r.input
  BY <1>1 DEF Progress
<1>3. AfterActivation(r, p) =
        IF r.kind = "refresh" THEN Rereads(u, "promoted")
        ELSE IF r.kind = "rollback" THEN Reconciling(u, p, r.status)
        ELSE IF r.initial = p THEN Ended(u, "done")
        ELSE Publishing(u, r.input)
  BY DEF AfterActivation
<1> HIDE DEF u
<1>4. JobOK(u)
  BY <1>2 DEF JobOK, NotCommitted
<1>5. CASE r.kind = "refresh"
  <2>1. /\ Rereads(u, "promoted") \in Progress /\ Rereads(u, "promoted").step = "promoted"
        /\ Rereads(u, "promoted").kind = "refresh"
        /\ Rereads(u, "promoted").release = u.release
    BY <1>2, <1>5, Rereadings
  <2>2. JobOK(Rereads(u, "promoted"))
    BY <1>4, <1>2, <1>5, <2>1 DEF JobOK
  <2> QED BY <1>3, <1>5, <2>1, <2>2
<1>6. CASE r.kind = "rollback"
  <2>1. r.status \in Statuses
    BY <1>6 DEF JobOK
  <2> QED BY <1>3, <1>4, <1>6, <2>1, Reconcilings
<1>7. CASE r.kind \notin {"refresh", "rollback"}
  BY <1>1, <1>3, <1>4, <1>7, Endings, Publishings
<1> QED BY <1>5, <1>6, <1>7

LEMMA LostAnswers ==
  ASSUME NEW r, JobOK(r), NEW activated \in BOOLEAN
  PROVE  /\ JobOK(Failing([r EXCEPT !.fresh = FALSE]))
         /\ JobOK(Failing([r EXCEPT !.activated = activated, !.fresh = FALSE]))
         /\ Failing([r EXCEPT !.fresh = FALSE]).step # "activate"
         /\ Failing([r EXCEPT !.activated = activated, !.fresh = FALSE]).step # "activate"
<1> DEFINE u == [r EXCEPT !.fresh = FALSE]
           v == [r EXCEPT !.activated = activated, !.fresh = FALSE]
<1>1. r \in Progress
  BY DEF JobOK
<1>2. /\ u \in Progress /\ u.step = r.step /\ u.kind = r.kind /\ u.release = r.release
      /\ u.candidate = r.candidate /\ u.at = r.at /\ u.initial = r.initial
      /\ u.status = r.status /\ u.deployment = r.deployment /\ u.input = r.input
  <2>1. u \in Progress
    BY <1>1 DEF Progress
  <2>2. /\ u.step = r.step /\ u.kind = r.kind /\ u.release = r.release
        /\ u.candidate = r.candidate /\ u.at = r.at /\ u.initial = r.initial
        /\ u.status = r.status /\ u.deployment = r.deployment
        /\ u.input = r.input
    BY <1>1 DEF Progress
  <2> QED BY <2>1, <2>2
<1>3. /\ v \in Progress /\ v.step = r.step /\ v.kind = r.kind /\ v.release = r.release
      /\ v.candidate = r.candidate /\ v.at = r.at /\ v.initial = r.initial
      /\ v.status = r.status /\ v.deployment = r.deployment /\ v.input = r.input
  <2>1. v \in Progress
    BY <1>1 DEF Progress
  <2>2. /\ v.step = r.step /\ v.kind = r.kind /\ v.release = r.release
        /\ v.candidate = r.candidate /\ v.at = r.at /\ v.initial = r.initial
        /\ v.status = r.status /\ v.deployment = r.deployment
        /\ v.input = r.input
    BY <1>1 DEF Progress
  <2> QED BY <2>1, <2>2
<1> HIDE DEF u, v
<1>4. JobOK(u)
  BY <1>2 DEF JobOK, NotCommitted
<1>5. JobOK(v)
  BY <1>3 DEF JobOK, NotCommitted
<1>6. JobOK(Failing(u)) /\ Failing(u).step # "activate"
      /\ JobOK(Failing(v)) /\ Failing(v).step # "activate"
  BY <1>4, <1>5, Failings
<1> QED BY <1>6 DEF u, v

(* A swap of the deployment pointer: by a job that holds its version.      *)
LEMMA SwappedDeployment ==
  ASSUME SInv, NEW j \in Jobs, At(j, "activate"), job[j].fresh,
         deployment' = Activated(job[j]), UNCHANGED status,
         NEW r, JobOK(r), r.step # "activate", Become(j, r, HoldsDeployment)
  PROVE  SInv'
<1>1. JobOK(job[j]) /\ job[j].step = "activate" /\ job[j].deployment = deployment
  BY JobIsOK DEF At, SInv, FreshOK
<1>2. /\ deployment' \in Deployments
      /\ Head(deployment'.history) = deployment.current
      /\ deployment'.current.candidate = job[j].candidate
  BY <1>1, ActivatedDeployment
<1>3. /\ job' \in [Jobs -> Progress \cup {Null}]
      /\ Busy(j)' => job'[j] = r /\ JobOK(job'[j])
      /\ \A k \in Jobs \ {j} : Busy(k)' =>
           /\ Busy(k) /\ JobOK(job'[k]) /\ job'[k].step = job[k].step
           /\ job'[k].fresh => job[k].step \notin HoldsDeployment
  BY JobsAfter
<1>4. TypeOK'
  BY <1>2, <1>3 DEF SInv, TypeOK
<1>5. FreshOK'
  <2> SUFFICES ASSUME NEW k \in Jobs, Busy(k)', job'[k].step = "activate", job'[k].fresh
               PROVE  FALSE
    BY DEF FreshOK, At
  <2> QED BY <1>3 DEF HoldsDeployment
<1>6. RollbackIsReal'
  <2>1. job[j].candidate # deployment.current.candidate
    BY <1>1 DEF JobOK
  <2> QED BY <1>2, <2>1 DEF RollbackIsReal
<1> QED BY <1>4, <1>5, <1>6 DEF SInv

LEMMA ActivateKeepsSInv ==
  ASSUME SInv, NEW j \in Jobs, Activate(j)
  PROVE  SInv'
<1> DEFINE r == job[j]
           refused == Failing([r EXCEPT !.fresh = FALSE])
           lost == Failing([r EXCEPT !.activated = TRUE, !.fresh = FALSE])
<1>1. JobOK(r) /\ At(j, "activate") /\ r.step = "activate"
  BY JobIsOK DEF Activate, At
<1>2. \/ Steps(j, refused)
      \/ /\ r.fresh /\ deployment' = Activated(r) /\ UNCHANGED status
         /\ \/ Become(j, AfterActivation(r, deployment'.current), HoldsDeployment)
            \/ Become(j, lost, HoldsDeployment)
  BY DEF Activate, HasCurrentVersion
<1>3. /\ JobOK(refused) /\ refused.step # "activate"
      /\ JobOK(lost) /\ lost.step # "activate"
  <2> HIDE DEF r
  <2> QED BY <1>1, LostAnswers
<1> HIDE DEF refused, lost
<1>4. ASSUME Steps(j, refused) PROVE SInv'
  BY <1>3, <1>4, QuietStep
<1>5. ASSUME r.fresh, deployment' = Activated(r), UNCHANGED status,
             Become(j, AfterActivation(r, deployment'.current), HoldsDeployment)
      PROVE  SInv'
  <2>1. deployment'.current \in Pairings
    BY <1>1, <1>5, ActivatedDeployment DEF Deployments
  <2>2. PICK p \in Pairings : p = deployment'.current
    BY <2>1
  <2>3. JobOK(AfterActivation(r, p)) /\ AfterActivation(r, p).step # "activate"
    BY <1>1, AfterActivations
  <2> QED BY <1>1, <1>5, <2>2, <2>3, SwappedDeployment
<1>6. ASSUME r.fresh, deployment' = Activated(r), UNCHANGED status,
             Become(j, lost, HoldsDeployment)
      PROVE  SInv'
  BY <1>1, <1>3, <1>6, SwappedDeployment
<1> QED BY <1>2, <1>4, <1>5, <1>6

-----------------------------------------------------------------------------
(* The status publisher, the monitor, and the deaths.                      *)

LEMMA PublishKeepsSInv ==
  ASSUME SInv, NEW j \in Jobs, Publish(j)
  PROVE  SInv'
<1> DEFINE r == job[j]
           b == [Prepared(r, r.input, status) EXCEPT !.fresh = TRUE]
<1>1. JobOK(r) /\ r.input \in Statuses /\ Steps(j, b)
  BY JobIsOK DEF Publish, At, JobOK
<1> HIDE DEF r
<1>2. JobOK(b) /\ b.step # "activate"
  BY <1>1, Preparations
<1> HIDE DEF b
<1> QED BY <1>1, <1>2, QuietStep

LEMMA LoadStatusKeepsSInv ==
  ASSUME SInv, NEW j \in Jobs, LoadStatus(j)
  PROVE  SInv'
<1> DEFINE r == job[j]
           b == [r EXCEPT !.step = "compare", !.status = status, !.fresh = TRUE]
<1>1. JobOK(r) /\ r \in Progress /\ r.step = "current" /\ Steps(j, b)
  BY JobIsOK DEF LoadStatus, At
<1>2. r.kind = "check" /\ status \in Statuses \cup {Null}
  BY <1>1 DEF JobOK, SInv, TypeOK
<1> HIDE DEF r
<1>3. /\ b \in Progress /\ b.step = "compare" /\ b.kind = r.kind /\ b.release = r.release
      /\ b.status = status
  <2>1. b \in Progress
    BY <1>1, <1>2 DEF Progress
  <2>2. /\ b.step = "compare" /\ b.kind = r.kind /\ b.release = r.release
        /\ b.status = status
    BY <1>1, <1>2 DEF Progress
  <2> QED BY <2>1, <2>2
<1> HIDE DEF b
<1>4. JobOK(b)
  BY <1>1, <1>2, <1>3, SourceRefreshAssumption DEF JobOK
<1> QED BY <1>1, <1>3, <1>4, QuietStep

LEMMA CompareKeepsSInv ==
  ASSUME SInv, NEW j \in Jobs, Compare(j)
  PROVE  SInv'
<1> DEFINE r == job[j]
           s == r.status
           served == Release(deployment.current)
           baseline == IF s # Null /\ s.served = served THEN s
                       ELSE deployment.current.fallback
           c == Checked(baseline, served, r.release, r.at)
           b == Prepared(r, c, s)
<1>1. JobOK(r) /\ r \in Progress /\ r.step = "compare"
  BY JobIsOK DEF Compare, At
<1>2. r.kind = "check" /\ r.release \in Nat /\ s \in Statuses \cup {Null} /\ r.at \in Nat
  BY <1>1 DEF JobOK, Progress
<1>3. Steps(j, Ended(r, "failed")) \/ Steps(j, b)
  BY DEF Compare
<1>4. served \in Nat /\ deployment.current.fallback \in Statuses
  BY CurrentIsPairing, ReleaseIsNumber
<1>5. c \in Statuses
  <2>1. baseline \in Statuses
    BY <1>2, <1>4
  <2> HIDE DEF r, s, served, baseline
  <2> QED BY <1>2, <1>4, <2>1, DerivedStatuses
<1> HIDE DEF r, s, c
<1>6. JobOK(b) /\ b.step # "activate"
  BY <1>1, <1>5, Preparations
<1>7. JobOK(Ended(r, "failed")) /\ Ended(r, "failed").step # "activate"
  BY <1>1, Endings
<1> HIDE DEF b
<1> QED BY <1>3, <1>6, <1>7, QuietStep

LEMMA SwapKeepsSInv ==
  ASSUME SInv, NEW j \in Jobs, Swap(j)
  PROVE  SInv'
<1> DEFINE r == job[j]
           n == Rereads(r, "current")
           b == [n EXCEPT !.try = @ + 1, !.input = Null]
<1>1. JobOK(r) /\ r \in Progress /\ r.step = "swap" /\ r.input \in Statuses
  BY JobIsOK DEF Swap, At, JobOK
<1>2. \/ r.kind = "check" /\ Steps(j, b)
      \/ Steps(j, Ended(r, "failed"))
      \/ /\ status' = r.input /\ UNCHANGED deployment
         /\ \/ Become(j, Ended(r, "done"), HoldsStatus)
            \/ Become(j, Ended(r, "failed"), HoldsStatus)
  BY DEF Swap, Retried
<1>3. \A step \in {"done", "failed"} : JobOK(Ended(r, step)) /\ Ended(r, step).step # "activate"
  <2> HIDE DEF r
  <2> QED BY <1>1, Endings
<1> HIDE DEF r
<1>4. ASSUME r.kind = "check", Steps(j, b) PROVE SInv'
  <2>1. /\ n \in Progress /\ n.step = "current" /\ n.kind = r.kind /\ n.release = r.release
    BY <1>1, Rereadings
  <2> HIDE DEF n
  <2> DEFINE next == n.try + 1
             u == [n EXCEPT !.try = next]
  <2>5. next \in Nat
    BY <2>1 DEF Progress
  <2>6. b = [u EXCEPT !.input = Null]
    OBVIOUS
  <2> HIDE DEF next
  <2>7. u \in Progress /\ u.step = n.step /\ u.kind = n.kind /\ u.release = n.release
    BY <2>1, <2>5 DEF Progress
  <2> HIDE DEF u, b
  <2>2. /\ b \in Progress /\ b.step = "current" /\ b.kind = r.kind /\ b.release = r.release
    BY <2>1, <2>6, <2>7 DEF Progress
  <2> HIDE DEF b
  <2>3. JobOK(b) /\ b.step # "activate"
    BY <1>1, <1>4, <2>2 DEF JobOK
  <2> QED BY <1>4, <2>3, QuietStep
<1>5. ASSUME Steps(j, Ended(r, "failed")) PROVE SInv'
  BY <1>3, <1>5, QuietStep
<1>6. ASSUME status' = r.input, UNCHANGED deployment, NEW step \in {"done", "failed"},
             Become(j, Ended(r, step), HoldsStatus)
      PROVE  SInv'
  <2>1. status' \in Statuses \cup {Null}
    BY <1>1, <1>6
  <2>2. JobOK(Ended(r, step)) /\ Ended(r, step).step # "activate"
    BY <1>3
  <2> QED BY <1>6, <2>1, <2>2, StepsKeepSInv
<1> QED BY <1>2, <1>4, <1>5, <1>6

LEMMA DieKeepsSInv ==
  ASSUME SInv, NEW j \in Jobs, Die(j)
  PROVE  SInv'
<1>1. JobOK(job[j]) /\ UNCHANGED <<deployment, status>>
      /\ Become(j, Ended(job[j], "failed"), {})
  BY JobIsOK DEF Die, Commanding
<1>2. JobOK(Ended(job[j], "failed")) /\ Ended(job[j], "failed").step # "activate"
  BY <1>1, Endings
<1>3. status' \in Statuses \cup {Null}
  BY <1>1 DEF SInv, TypeOK
<1> QED BY <1>1, <1>2, <1>3, StepsKeepSInv

LEMMA InitSInv == Init => SInv
<1> SUFFICES ASSUME Init PROVE SInv
  OBVIOUS
<1> DEFINE f == First(ReleaseOf[Origin], 1, 1)
           p == [candidate |-> Origin, fallback |-> f]
<1>1. f \in Statuses
  BY SourceRefreshAssumption, StatusIsStatus DEF First, Never
<1>2. deployment = [current |-> p, history |-> <<>>]
  BY DEF Init
<1> HIDE DEF f
<1>3. p \in Pairings /\ p.fallback = f
  BY <1>1, SourceRefreshAssumption DEF Pairings
<1> HIDE DEF p
<1>4. deployment \in Deployments /\ deployment.current = p /\ deployment.history = <<>>
  BY <1>2, <1>3 DEF Deployments
<1>5. status \in Statuses \cup {Null} /\ job = [j \in Jobs |-> Null]
  BY <1>1, <1>3, <1>4 DEF Init
<1> QED BY <1>4, <1>5 DEF SInv, TypeOK, FreshOK, RollbackIsReal, Busy, At

LEMMA NextKeepsSInv ==
  ASSUME SInv, [Next]_vars
  PROVE  SInv'
<1>1. CASE UNCHANGED vars
  BY <1>1 DEF vars, SInv, TypeOK, FreshOK, RollbackIsReal, Busy, At
<1>2. ASSUME NEW j \in Jobs, CommandStep(j) PROVE SInv'
  BY <1>2, ReadKeepsSInv, RefreshKeepsSInv, BuildKeepsSInv, RecheckKeepsSInv,
     DelayKeepsSInv, AfterPromotionKeepsSInv, RollbackKeepsSInv, PromoteKeepsSInv,
     LoadPromotionKeepsSInv, LoadRollbackKeepsSInv, ActivateKeepsSInv, PublishKeepsSInv
     DEF CommandStep
<1>3. ASSUME NEW j \in Jobs, CheckStep(j) PROVE SInv'
  BY <1>3, LoadStatusKeepsSInv, CompareKeepsSInv DEF CheckStep
<1>4. ASSUME NEW j \in Jobs, Start(j) \/ Swap(j) \/ Die(j) PROVE SInv'
  BY <1>4, StartKeepsSInv, SwapKeepsSInv, DieKeepsSInv
<1>5. ASSUME NEW j \in Jobs, NEW observed \in Releases, NEW at \in Times,
             StartCheck(j, observed, at)
      PROVE  SInv'
  BY <1>5, StartCheckKeepsSInv
<1> QED BY <1>1, <1>2, <1>3, <1>4, <1>5 DEF Next

-----------------------------------------------------------------------------

(* Every reachable state of the activation satisfies the invariant: what   *)
(* each command has read and derived by its step, versions that are of     *)
(* what they seem to be of, and a predecessor that is another build.       *)
THEOREM ActivationInductive == Spec => []SInv
<1>1. Init => SInv
  BY InitSInv
<1>2. SInv /\ [Next]_vars => SInv'
  BY NextKeepsSInv
<1> QED BY <1>1, <1>2, PTL DEF Spec

(* Whatever promotions and rollbacks race, rollback() finds a build other  *)
(* than the active one at the head of the retained history.                *)
THEOREM RollbackRestoresAnother == Spec => []RollbackIsReal
<1>1. SInv => RollbackIsReal
  BY DEF SInv
<1> QED BY <1>1, ActivationInductive, PTL

(* Only Activate changes the deployment pointer, by a job that holds its   *)
(* current content, and of the other jobs at that step only those that     *)
(* hold it too are affected.                                               *)
LEMMA DeploymentChanges ==
  ASSUME SInv, [Next]_vars, deployment' # deployment
  PROVE  /\ \E j \in Jobs : /\ At(j, "activate") /\ JobOK(job[j])
                            /\ job[j].deployment = deployment
                            /\ deployment' = Activated(job[j])
         /\ \A j \in Jobs : At(j, "activate") /\ job'[j] # job[j] =>
              JobOK(job[j]) /\ job[j].deployment = deployment
<1>1. PICK j \in Jobs : Activate(j)
  <2>1. ASSUME NEW j \in Jobs, Start(j) \/ Swap(j) \/ Die(j) \/ CheckStep(j)
        PROVE  deployment' = deployment
    BY <2>1 DEF Start, Swap, Die, CheckStep, LoadStatus, Compare, Steps
  <2>2. ASSUME NEW j \in Jobs, CommandStep(j), ~Activate(j)
        PROVE  deployment' = deployment
    BY <2>2 DEF CommandStep, Read, Refresh, Build, Recheck, Delay, AfterPromotion, Rollback,
                Promote, LoadPromotion, LoadRollback, Publish, Steps
  <2>3. ASSUME NEW j \in Jobs, NEW observed \in Releases, NEW at \in Times,
               StartCheck(j, observed, at)
        PROVE  deployment' = deployment
    BY <2>3 DEF StartCheck
  <2> QED BY <2>1, <2>2, <2>3 DEF Next, vars
<1>2. /\ At(j, "activate") /\ job[j].fresh /\ deployment' = Activated(job[j])
      /\ \E r : Become(j, r, HoldsDeployment)
  BY <1>1 DEF Activate, HasCurrentVersion, Steps
<1>3. JobOK(job[j]) /\ job[j].deployment = deployment
  BY <1>2, JobIsOK DEF At, SInv, FreshOK
<1>4. ASSUME NEW k \in Jobs, At(k, "activate"), job'[k] # job[k]
      PROVE  JobOK(job[k]) /\ job[k].deployment = deployment
  <2>1. CASE k = j
    BY <1>3, <2>1
  <2>2. CASE k # j
    <3>1. job'[k] = [job[k] EXCEPT !.fresh = FALSE]
      BY <1>2, <1>4, <2>2 DEF Become
    <3>2. JobOK(job[k]) /\ job[k] \in Progress
      BY <1>4, JobIsOK DEF At
    <3>3. job[k].fresh
      <4>1. ASSUME ~job[k].fresh PROVE FALSE
        <5> DEFINE q == job[k]
        <5>1. q \in Progress /\ q.fresh = FALSE
          BY <3>2, <4>1 DEF Progress
        <5>2. job'[k] = [q EXCEPT !.fresh = FALSE]
          BY <3>1
        <5>3. job'[k] # q
          BY <1>4
        <5> HIDE DEF q
        <5> QED BY <5>1, <5>2, <5>3 DEF Progress
      <4> QED BY <4>1
    <3> QED BY <1>4, <3>2, <3>3 DEF SInv, FreshOK
  <2> QED BY <2>1, <2>2
<1> QED BY <1>2, <1>3, <1>4

(* Two writers of the pointer never displace the same deployment: the one  *)
(* that was active heads the history of the one that replaces it.          *)
THEOREM NoActivationIsLost == Spec => NothingActivatedIsLost
<1>1. SInv /\ [Next]_vars =>
        (deployment' # deployment =>
           deployment'.history # <<>> /\ Head(deployment'.history) = deployment.current)
  <2> SUFFICES ASSUME SInv, [Next]_vars, deployment' # deployment
               PROVE  /\ deployment'.history # <<>>
                      /\ Head(deployment'.history) = deployment.current
    OBVIOUS
  <2>1. PICK j \in Jobs : /\ At(j, "activate") /\ JobOK(job[j])
                          /\ job[j].deployment = deployment
                          /\ deployment' = Activated(job[j])
    BY DeploymentChanges
  <2> QED BY <2>1, ActivatedDeployment DEF At
<1> QED BY <1>1, ActivationInductive, PTL DEF Spec, NothingActivatedIsLost

(* A rollback decides at its first reading that it was not committed; the  *)
(* compare-and-swap makes that true of the deployment it displaces.        *)
THEOREM NoRollbackToggles == Spec => RollbackNeverToggles
<1>1. SInv /\ [Next]_vars =>
        \A j \in Jobs :
          At(j, "activate") /\ job[j].kind = "rollback" /\ job'[j] # job[j]
            /\ deployment' # deployment =>
              ~(deployment.current.fallback.rollback
                /\ deployment.current.fallback.published = job[j].at)
  <2> SUFFICES ASSUME SInv, [Next]_vars, deployment' # deployment, NEW j \in Jobs,
                      At(j, "activate"), job[j].kind = "rollback", job'[j] # job[j]
               PROVE  ~(deployment.current.fallback.rollback
                        /\ deployment.current.fallback.published = job[j].at)
    OBVIOUS
  <2>1. JobOK(job[j]) /\ job[j].deployment = deployment
    BY DeploymentChanges
  <2>2. deployment.current = job[j].initial /\ NotCommitted(job[j])
    BY <2>1 DEF JobOK, At
  <2> QED BY <2>2 DEF NotCommitted
<1> QED BY <1>1, ActivationInductive, PTL DEF Spec, RollbackNeverToggles

-----------------------------------------------------------------------------
(* The second invariant: what the published status relies on.              *)

(* Where the fields of a derived status come from.                         *)
LEMMA DerivedFields ==
  \A c, f, release, observed, at :
    /\ Completed(c, release, at).checked = c.checked
    /\ Failed(c, release, at).checked = c.checked
    /\ RolledBack(c, release, at).checked = c.checked
    /\ Promoted(c, release, at).checked = c.checked
    /\ First(release, 1, at).checked = 1
    /\ Reconciled(c, release, f).checked \in {c.checked, f.checked}
    /\ Checked(c, release, observed, at).checked = at
    /\ Checked(c, release, observed, at).served = release
    /\ Checked(c, release, observed, at).latest = observed
    /\ Checked(c, release, observed, at).failed = c.failed
    /\ Checked(c, release, observed, at).rollback = c.rollback
BY DEF Completed, Failed, RolledBack, Promoted, First, Reconciled, Checked, Status

LEMMA KnownDerived ==
  ASSUME NEW c, Known(c)
  PROVE  \A release, at :
           /\ Known(Completed(c, release, at)) /\ Known(Failed(c, release, at))
           /\ Known(RolledBack(c, release, at)) /\ Known(Promoted(c, release, at))
           /\ \A f : Known(f) => Known(Reconciled(c, release, f))
BY DerivedFields DEF Known, KnownUnder

LEMMA KnownFirst ==
  ASSUME KInv, SInv, NEW release, NEW at
  PROVE  Known(First(release, 1, at))
<1>1. First(release, 1, at).checked = 1
  BY DerivedFields
<1>2. status # Null => 1 <= status.checked
  BY DEF KInv, Known, KnownUnder
<1> QED BY <1>1, <1>2 DEF Known, KnownUnder

(* A step of a job that leaves both pointers alone.                        *)
LEMMA QuietlyKnown ==
  ASSUME KInv, NEW j \in Jobs, NEW r, UNCHANGED <<deployment, status>>,
         Become(j, r, {}), KnowsOK(r)
  PROVE  KInv'
<1>1. \A k \in Jobs : k # j => job'[k] = job[k]
  BY DEF Become
<1>2. Busy(j)' => job'[j] = r
  BY DEF Become, Busy
<1>3. ASSUME NEW k \in Jobs, Busy(k)' PROVE KnowsOK(job[k])'
  <2>1. CASE k = j
    BY <1>2, <1>3, <2>1 DEF KnowsOK, Known, KnownUnder
  <2>2. CASE k # j
    BY <1>1, <1>3, <2>2 DEF KInv, KnowsOK, Known, KnownUnder, Busy
  <2> QED BY <2>1, <2>2
<1> QED BY <1>3 DEF KInv, Known, KnownUnder

LEMMA EndingsKnow ==
  ASSUME NEW r \in Progress, KnowsOK(r), NEW step \in {"done", "failed"}
  PROVE  KnowsOK(Ended(r, step))
<1>1. /\ Ended(r, step).step = step /\ Ended(r, step).kind = r.kind
      /\ Ended(r, step).status = r.status /\ Ended(r, step).input = r.input
      /\ Ended(r, step).deployment = r.deployment
  BY DEF Ended, Progress
<1> QED BY <1>1 DEF KnowsOK

LEMMA RereadingsKnow ==
  ASSUME NEW r \in Progress, KnowsOK(r),
         NEW step \in {"build", "recheck", "delay", "load", "promoted", "current"}
  PROVE  KnowsOK(Rereads(r, step))
<1> DEFINE n == Rereads(r, step)
<1>1. /\ n.step = step /\ n.kind = r.kind /\ n.input = r.input
      /\ n.status = Unread /\ n.deployment = Unread
  BY Rereadings
<1> HIDE DEF n
<1>2. KnowsOK(n)
  BY <1>1, SourceRefreshAssumption DEF KnowsOK
<1> QED BY <1>2 DEF n

LEMMA PublishingsKnow ==
  ASSUME NEW r \in Progress, r.kind # "check", NEW s \in Statuses, Known(s)
  PROVE  KnowsOK(Publishing(r, s))
<1> DEFINE n == Rereads(r, "publish")
           p == [n EXCEPT !.input = s]
<1>1. /\ n \in Progress /\ n.step = "publish" /\ n.kind = r.kind
      /\ n.status = Unread /\ n.deployment = Unread
  BY Rereadings
<1>2. Publishing(r, s) = p
  BY DEF Publishing
<1> HIDE DEF n
<1>3. /\ p.step = "publish" /\ p.kind = r.kind
      /\ p.status = Unread /\ p.deployment = Unread /\ p.input = s
  BY <1>1 DEF Progress
<1> HIDE DEF p
<1> QED BY <1>2, <1>3, SourceRefreshAssumption DEF KnowsOK

LEMMA FailingsKnow ==
  ASSUME NEW r \in Progress, KnowsOK(r)
  PROVE  KnowsOK(Failing(r))
BY EndingsKnow, RereadingsKnow DEF Failing

LEMMA ReconcilingsKnow ==
  ASSUME NEW r \in Progress, KnowsOK(r), r.kind # "check",
         NEW p \in Pairings, Known(p.fallback),
         NEW s \in Statuses \cup {Null}, s # Null => Known(s)
  PROVE  KnowsOK(Reconciling(r, p, s))
<1>1. Release(p) \in Nat /\ p.fallback \in Statuses
  BY ReleaseIsNumber
<1>2. CASE s = Null
  BY <1>1, <1>2, PublishingsKnow DEF Reconciling
<1>3. CASE s # Null
  <2>1. /\ Reconciled(s, Release(p), p.fallback) \in Statuses
        /\ Known(Reconciled(s, Release(p), p.fallback))
    BY <1>1, <1>3, DerivedStatuses, KnownDerived
  <2> QED BY <1>3, <2>1, PublishingsKnow, EndingsKnow DEF Reconciling
<1> QED BY <1>2, <1>3

(* A job about to swap has compared its input with the current status.     *)
LEMMA PreparationsKnow ==
  ASSUME NEW r \in Progress, KnowsOK(r), NEW input \in Statuses, NEW current,
         NEW fresh \in BOOLEAN,
         1 <= input.checked, r.kind # "check" => Known(input),
         fresh => current = status,
         r.kind = "check" => Informed(input, current)
  PROVE  KnowsOK([Prepared(r, input, current) EXCEPT !.fresh = fresh])
<1> DEFINE m == Prepared(r, input, current)
           q == [m EXCEPT !.fresh = fresh]
<1>1. CASE Refused(input, current) \/ current = input
  <2>1. PICK step \in {"done", "failed"} : m = Ended(r, step)
    BY <1>1 DEF Prepared
  <2> HIDE DEF m
  <2>2. /\ m \in Progress /\ m.step = step /\ m.kind = r.kind /\ m.status = r.status
        /\ m.input = r.input /\ m.deployment = r.deployment
    BY <2>1 DEF Ended, Progress
  <2>3. /\ q.step = step /\ q.kind = r.kind /\ q.status = r.status
        /\ q.input = r.input /\ q.deployment = r.deployment
    BY <2>2 DEF Progress
  <2> HIDE DEF q
  <2>4. KnowsOK(q)
    BY <2>3 DEF KnowsOK
  <2> QED BY <2>4 DEF q, m
<1>2. CASE ~(Refused(input, current) \/ current = input)
  <2> DEFINE n == Rereads(r, "swap")
  <2>1. /\ n \in Progress /\ n.step = "swap" /\ n.kind = r.kind
        /\ n.status = Unread /\ n.deployment = Unread
    BY Rereadings
  <2>2. m = [n EXCEPT !.input = input]
    BY <1>2 DEF Prepared
  <2> HIDE DEF n, m
  <2>3. /\ m \in Progress /\ m.step = "swap" /\ m.kind = r.kind
        /\ m.status = Unread /\ m.deployment = Unread /\ m.input = input
    BY <2>1, <2>2 DEF Progress
  <2>4. /\ q.step = "swap" /\ q.kind = r.kind /\ q.status = Unread
        /\ q.deployment = Unread /\ q.input = input /\ q.fresh = fresh
    BY <2>3 DEF Progress
  <2> HIDE DEF q
  <2>5. KnowsOK(q)
    BY <1>2, <2>4, SourceRefreshAssumption DEF KnowsOK
  <2> QED BY <2>5 DEF q, m
<1> QED BY <1>1, <1>2

-----------------------------------------------------------------------------
(* What each step leaves known.                                            *)

LEMMA JobKnows ==
  ASSUME SInv, KInv, NEW j \in Jobs, Busy(j)
  PROVE  /\ KnowsOK(job[j]) /\ JobOK(job[j]) /\ job[j] \in Progress
         /\ Known(deployment.current.fallback) /\ deployment.current \in Pairings
         /\ deployment \in Deployments
         /\ status \in Statuses \cup {Null} /\ (status # Null => Known(status))
BY JobIsOK, CurrentIsPairing DEF KInv, SInv, TypeOK

LEMMA ReadThemKnows ==
  ASSUME SInv, KInv, NEW j \in Jobs, NEW kind \in {"refresh", "rollback", "promote"},
         NEW step, HasRead(j, kind, step)
  PROVE  /\ job[j].kind = kind /\ job[j].kind # "check" /\ KnowsOK(job[j])
         /\ Known(job[j].deployment.current.fallback)
         /\ job[j].status # Null => job[j].status \in Statuses /\ Known(job[j].status)
<1>1. /\ job[j].kind = kind /\ job[j].deployment \in Deployments
      /\ job[j].status \in Statuses \cup {Null}
  BY HasReadThem
<1>2. KnowsOK(job[j])
  BY JobKnows DEF HasRead, At
<1> QED BY <1>1, <1>2 DEF KnowsOK

(* A new job holds nothing.                                                *)
LEMMA StartedKnows ==
  ASSUME KInv, NEW j \in Jobs, NEW r, job' = [job EXCEPT ![j] = r],
         UNCHANGED <<deployment, status>>, r.step \in {"read", "current"},
         r.status = Unread, r.deployment = Unread, r.input = Null,
         job \in [Jobs -> Progress \cup {Null}]
  PROVE  KInv'
<1>1. /\ r.status \notin Statuses /\ r.deployment \notin Deployments
      /\ r.input \notin Statuses
  BY SourceRefreshAssumption
<1>2. KnowsOK(r)
  BY <1>1 DEF KnowsOK
<1>3. ASSUME NEW k \in Jobs, Busy(k)' PROVE KnowsOK(job[k])'
  <2>1. CASE k = j
    <3>1. job'[k] = r
      BY <2>1
    <3> QED BY <1>2, <3>1 DEF KnowsOK, Known, KnownUnder
  <2>2. CASE k # j
    <3>1. job'[k] = job[k]
      BY <2>2
    <3>2. KnowsOK(job[k])
      BY <1>3, <3>1 DEF KInv, Busy
    <3> QED BY <3>1, <3>2 DEF KnowsOK, Known, KnownUnder
  <2> QED BY <2>1, <2>2
<1> QED BY <1>3 DEF KInv, Known, KnownUnder

LEMMA StartKnows ==
  ASSUME SInv, KInv, NEW j \in Jobs, Start(j)
  PROVE  KInv'
<1>1. PICK at \in Times, c \in Candidates :
        \E r \in {Command("refresh", ReleaseOf[c], Null, at),
                  Command("rollback", Null, Null, at),
                  Command("promote", ReleaseOf[c], c, at)} :
          job' = [job EXCEPT ![j] = r]
  BY DEF Start
<1>2. PICK r \in {Command("refresh", ReleaseOf[c], Null, at),
                  Command("rollback", Null, Null, at),
                  Command("promote", ReleaseOf[c], c, at)} :
          job' = [job EXCEPT ![j] = r]
  BY <1>1
<1>3. r.step = "read" /\ r.status = Unread /\ r.deployment = Unread /\ r.input = Null
  BY <1>2 DEF Command
<1>4. UNCHANGED <<deployment, status>> /\ job \in [Jobs -> Progress \cup {Null}]
  BY DEF Start, SInv, TypeOK
<1> QED BY <1>2, <1>3, <1>4, StartedKnows

LEMMA StartCheckKnows ==
  ASSUME SInv, KInv, NEW j \in Jobs, NEW observed \in Releases, NEW at \in Times,
         StartCheck(j, observed, at)
  PROVE  KInv'
<1> DEFINE r == [Command("check", observed, Null, at) EXCEPT !.step = "current"]
<1>1. job' = [job EXCEPT ![j] = r] /\ UNCHANGED <<deployment, status>>
  BY DEF StartCheck
<1>2. r.step = "current" /\ r.status = Unread /\ r.deployment = Unread /\ r.input = Null
  BY DEF Command
<1>3. job \in [Jobs -> Progress \cup {Null}]
  BY DEF SInv, TypeOK
<1> HIDE DEF r
<1> QED BY <1>1, <1>2, <1>3, StartedKnows

LEMMA QuietStepKnows ==
  ASSUME KInv, NEW j \in Jobs, NEW r, Steps(j, r), KnowsOK(r)
  PROVE  KInv'
BY QuietlyKnown DEF Steps

LEMMA ReadKnows ==
  ASSUME SInv, KInv, NEW j \in Jobs, Read(j)
  PROVE  KInv'
<1> DEFINE r == job[j]
           u == [r EXCEPT !.deployment = deployment]
           v == [r EXCEPT !.status = status]
<1>1. Busy(j) /\ r.step \in {"read", "recheck", "delay"} /\ (Steps(j, u) \/ Steps(j, v))
  BY DEF Read
<1>2. /\ KnowsOK(r) /\ r \in Progress /\ Known(deployment.current.fallback)
      /\ status # Null => Known(status)
  BY <1>1, JobKnows
<1> HIDE DEF r
<1>3. KnowsOK(u)
  <2>1. /\ u.step = r.step /\ u.kind = r.kind /\ u.status = r.status /\ u.input = r.input
        /\ u.deployment = deployment
    BY <1>2 DEF Progress
  <2> HIDE DEF u
  <2> QED BY <1>1, <1>2, <2>1 DEF KnowsOK
<1>4. KnowsOK(v)
  <2>1. /\ v.step = r.step /\ v.kind = r.kind /\ v.status = status /\ v.input = r.input
        /\ v.deployment = r.deployment
    BY <1>2 DEF Progress
  <2> HIDE DEF v
  <2> QED BY <1>1, <1>2, <2>1, SourceRefreshAssumption DEF KnowsOK
<1> QED BY <1>1, <1>3, <1>4, QuietStepKnows

LEMMA RefreshKnows ==
  ASSUME SInv, KInv, NEW j \in Jobs, Refresh(j)
  PROVE  KInv'
<1> DEFINE r == job[j]
           d == r.deployment.current
           n == Rereads(r, "build")
           b == [n EXCEPT !.initial = d]
<1>1. /\ r \in Progress /\ d \in Pairings /\ r.status \in Statuses \cup {Null}
  BY HasReadThem DEF Refresh
<1>2. /\ KnowsOK(r) /\ r.kind # "check" /\ Known(d.fallback)
      /\ r.status # Null => Known(r.status)
  BY ReadThemKnows DEF Refresh
<1>3. \/ Steps(j, Reconciling(r, d, r.status))
      \/ Steps(j, Ended(r, "failed"))
      \/ Steps(j, b)
  BY DEF Refresh
<1> HIDE DEF r, d
<1>4. n \in Progress /\ KnowsOK(n) /\ n.step = "build"
  BY <1>1, <1>2, Rereadings, RereadingsKnow
<1> HIDE DEF n
<1>5. /\ b.step = n.step /\ b.kind = n.kind /\ b.status = n.status
      /\ b.deployment = n.deployment /\ b.input = n.input
  BY <1>4 DEF Progress
<1> HIDE DEF b
<1>6. KnowsOK(b)
  BY <1>4, <1>5 DEF KnowsOK
<1>7. KnowsOK(Ended(r, "failed"))
  BY <1>1, <1>2, EndingsKnow
<1>8. KnowsOK(Reconciling(r, d, r.status))
  BY <1>1, <1>2, ReconcilingsKnow
<1> QED BY <1>3, <1>6, <1>7, <1>8, QuietStepKnows

LEMMA BuildKnows ==
  ASSUME SInv, KInv, NEW j \in Jobs, Build(j)
  PROVE  KInv'
<1> DEFINE r == job[j]
           n == Rereads(r, "recheck")
<1>1. KnowsOK(r) /\ r \in Progress
  BY JobKnows DEF Build, At
<1>2. \/ Steps(j, Failing(r))
      \/ \E c \in Candidates : Steps(j, [n EXCEPT !.candidate = c])
  BY DEF Build
<1> HIDE DEF r
<1>3. n \in Progress /\ KnowsOK(n)
  BY <1>1, Rereadings, RereadingsKnow
<1> HIDE DEF n
<1>4. ASSUME NEW c \in Candidates, Steps(j, [n EXCEPT !.candidate = c])
      PROVE  KInv'
  <2> DEFINE b == [n EXCEPT !.candidate = c]
  <2>1. /\ b.step = n.step /\ b.kind = n.kind /\ b.status = n.status
        /\ b.deployment = n.deployment /\ b.input = n.input /\ b.fresh = n.fresh
    BY <1>3 DEF Progress
  <2>2. Steps(j, b)
    BY <1>4
  <2> HIDE DEF b
  <2>3. KnowsOK(b)
    BY <1>3, <2>1 DEF KnowsOK
  <2> QED BY <2>2, <2>3, QuietStepKnows
<1>5. ASSUME Steps(j, Failing(r)) PROVE KInv'
  BY <1>1, <1>5, FailingsKnow, QuietStepKnows
<1> QED BY <1>2, <1>4, <1>5

LEMMA RecheckKnows ==
  ASSUME SInv, KInv, NEW j \in Jobs, Recheck(j)
  PROVE  KInv'
<1> DEFINE r == job[j]
           s == Completed(r.status, r.release, r.at)
           n == Rereads(r, "load")
           b == [n EXCEPT !.input = s]
<1>1. r \in Progress
  BY HasReadThem DEF Recheck
<1>2. KnowsOK(r) /\ r.kind # "check" /\ (r.status # Null => Known(r.status))
  BY ReadThemKnows DEF Recheck
<1>3. \/ StillInitial(r) /\ Steps(j, b)
      \/ Steps(j, Failing(r))
  BY DEF Recheck
<1> HIDE DEF r
<1>4. ASSUME StillInitial(r), Steps(j, b) PROVE KInv'
  <2>1. Known(s)
    BY <1>2, <1>4, KnownDerived DEF StillInitial
  <2> HIDE DEF s
  <2>2. /\ n \in Progress /\ KnowsOK(n) /\ n.step = "load"
    BY <1>1, <1>2, Rereadings, RereadingsKnow
  <2> HIDE DEF n
  <2>3. /\ b.step = n.step /\ b.kind = n.kind /\ b.status = n.status
        /\ b.deployment = n.deployment /\ b.input = s
    BY <2>2 DEF Progress
  <2> HIDE DEF b
  <2>4. KnowsOK(b)
    BY <2>1, <2>2, <2>3 DEF KnowsOK
  <2> QED BY <1>4, <2>4, QuietStepKnows
<1>5. ASSUME Steps(j, Failing(r)) PROVE KInv'
  BY <1>1, <1>2, <1>5, FailingsKnow, QuietStepKnows
<1> QED BY <1>3, <1>4, <1>5

LEMMA DelayKnows ==
  ASSUME SInv, KInv, NEW j \in Jobs, Delay(j)
  PROVE  KInv'
<1> DEFINE r == job[j]
           s == Failed(r.status, r.release, r.at)
<1>1. /\ JobOK(r) /\ r \in Progress /\ r.kind = "refresh"
      /\ r.status \in Statuses \cup {Null} /\ r.at \in Nat
  BY HasReadThem DEF Delay
<1>2. KnowsOK(r) /\ r.kind # "check" /\ (r.status # Null => Known(r.status))
  BY ReadThemKnows DEF Delay
<1>3. \/ StillInitial(r) /\ Steps(j, Publishing(r, s))
      \/ Steps(j, Ended(r, "failed"))
  BY DEF Delay
<1> HIDE DEF r
<1>4. ASSUME StillInitial(r), Steps(j, Publishing(r, s)) PROVE KInv'
  <2>1. r.status \in Statuses /\ r.release \in Nat
    BY <1>1, <1>4 DEF StillInitial, JobOK
  <2>2. s \in Statuses /\ Known(s)
    BY <1>1, <1>2, <1>4, <2>1, DerivedStatuses, KnownDerived DEF StillInitial
  <2> HIDE DEF s
  <2> QED BY <1>1, <1>2, <1>4, <2>2, PublishingsKnow, QuietStepKnows
<1>5. ASSUME Steps(j, Ended(r, "failed")) PROVE KInv'
  BY <1>1, <1>2, <1>5, EndingsKnow, QuietStepKnows
<1> QED BY <1>3, <1>4, <1>5

LEMMA AfterPromotionKnows ==
  ASSUME SInv, KInv, NEW j \in Jobs, AfterPromotion(j)
  PROVE  KInv'
<1> DEFINE r == job[j]
           s == Completed(status, r.release, r.at)
<1>1. /\ KnowsOK(r) /\ JobOK(r) /\ r \in Progress /\ r.step = "promoted"
      /\ status \in Statuses \cup {Null} /\ (status # Null => Known(status))
  BY JobKnows DEF AfterPromotion, At
<1>2. r.kind = "refresh" /\ r.release \in Nat /\ r.at \in Nat
  BY <1>1 DEF JobOK, Progress
<1>3. \/ status # Null /\ Steps(j, Publishing(r, s))
      \/ Steps(j, Ended(r, "failed"))
  BY DEF AfterPromotion
<1> HIDE DEF r
<1>4. ASSUME status # Null, Steps(j, Publishing(r, s)) PROVE KInv'
  <2>1. s \in Statuses /\ Known(s)
    BY <1>1, <1>2, <1>4, DerivedStatuses, KnownDerived
  <2> HIDE DEF s
  <2> QED BY <1>1, <1>2, <1>4, <2>1, PublishingsKnow, QuietStepKnows
<1>5. ASSUME Steps(j, Ended(r, "failed")) PROVE KInv'
  BY <1>1, <1>5, EndingsKnow, QuietStepKnows
<1> QED BY <1>3, <1>4, <1>5

LEMMA RollbackKnows ==
  ASSUME SInv, KInv, NEW j \in Jobs, Rollback(j)
  PROVE  KInv'
<1> DEFINE r == job[j]
           d == r.deployment.current
           b == [r EXCEPT !.step = "load", !.initial = d, !.deployment = Unread]
<1>1. r \in Progress /\ d \in Pairings /\ r.status \in Statuses \cup {Null}
  BY HasReadThem DEF Rollback
<1>2. /\ KnowsOK(r) /\ r.kind # "check" /\ Known(d.fallback)
      /\ r.status # Null => Known(r.status)
  BY ReadThemKnows DEF Rollback
<1>3. \/ Steps(j, Reconciling(r, d, r.status))
      \/ Steps(j, b)
      \/ Steps(j, Ended(r, "failed"))
  BY DEF Rollback
<1> HIDE DEF r, d
<1>4. KnowsOK(b)
  <2>1. /\ b.step = "load" /\ b.kind = r.kind /\ b.status = r.status
        /\ b.deployment = Unread /\ b.input = r.input
    BY <1>1 DEF Progress
  <2> HIDE DEF b
  <2> QED BY <1>2, <2>1, SourceRefreshAssumption DEF KnowsOK
<1>5. KnowsOK(Ended(r, "failed")) /\ KnowsOK(Reconciling(r, d, r.status))
  BY <1>1, <1>2, EndingsKnow, ReconcilingsKnow
<1> QED BY <1>3, <1>4, <1>5, QuietStepKnows

LEMMA PromoteKnows ==
  ASSUME SInv, KInv, NEW j \in Jobs, Promote(j)
  PROVE  KInv'
<1> DEFINE r == job[j]
           d == r.deployment.current
           input == IF r.status = Null THEN First(r.release, 1, r.at)
                    ELSE Promoted(r.status, r.release, r.at)
           n == Rereads(r, "load")
           b == [n EXCEPT !.input = input, !.initial = d]
<1>1. r \in Progress
  BY HasReadThem DEF Promote
<1>2. KnowsOK(r) /\ r.kind # "check" /\ (r.status # Null => Known(r.status))
  BY ReadThemKnows DEF Promote
<1>3. Steps(j, b) \/ Steps(j, Ended(r, "failed"))
  BY DEF Promote
<1> HIDE DEF r, d
<1>4. Known(input)
  BY <1>2, KnownFirst, KnownDerived
<1> HIDE DEF input
<1>5. /\ n \in Progress /\ KnowsOK(n) /\ n.step = "load"
  BY <1>1, <1>2, Rereadings, RereadingsKnow
<1> HIDE DEF n
<1>6. /\ b.step = n.step /\ b.kind = n.kind /\ b.status = n.status
      /\ b.deployment = n.deployment /\ b.input = input
  BY <1>5 DEF Progress
<1> HIDE DEF b
<1>7. KnowsOK(b)
  BY <1>4, <1>5, <1>6 DEF KnowsOK
<1>8. KnowsOK(Ended(r, "failed"))
  BY <1>1, <1>2, EndingsKnow
<1> QED BY <1>3, <1>7, <1>8, QuietStepKnows

LEMMA LoadPromotionKnows ==
  ASSUME SInv, KInv, NEW j \in Jobs, LoadPromotion(j)
  PROVE  KInv'
<1> DEFINE r == job[j]
           b == [r EXCEPT !.step = "activate", !.deployment = deployment, !.fresh = TRUE]
<1>1. /\ KnowsOK(r) /\ JobOK(r) /\ r \in Progress /\ Known(deployment.current.fallback)
      /\ r.step = "load" /\ r.kind # "rollback"
  BY JobKnows DEF LoadPromotion, At
<1>2. r.kind # "check" /\ r.input \in Statuses
  BY <1>1 DEF JobOK
<1>3. \/ Steps(j, Failing(r))
      \/ Steps(j, Ended(r, "done"))
      \/ Steps(j, Publishing(r, r.input))
      \/ Steps(j, b)
  BY DEF LoadPromotion
<1> HIDE DEF r
<1>4. KnowsOK(b)
  <2>1. /\ b.step = "activate" /\ b.kind = r.kind /\ b.status = r.status
        /\ b.deployment = deployment /\ b.input = r.input
    BY <1>1 DEF Progress
  <2> HIDE DEF b
  <2> QED BY <1>1, <2>1 DEF KnowsOK
<1>5. KnowsOK(Failing(r)) /\ KnowsOK(Ended(r, "done"))
  BY <1>1, FailingsKnow, EndingsKnow
<1>6. KnowsOK(Publishing(r, r.input))
  <2>1. Known(r.input)
    BY <1>1, <1>2 DEF KnowsOK
  <2> QED BY <1>1, <1>2, <2>1, PublishingsKnow
<1> QED BY <1>3, <1>4, <1>5, <1>6, QuietStepKnows

LEMMA LoadRollbackKnows ==
  ASSUME SInv, KInv, NEW j \in Jobs, LoadRollback(j)
  PROVE  KInv'
<1> DEFINE r == job[j]
           previous == Head(deployment.history)
           input == RolledBack(r.status, Release(previous), r.at)
           u == [r EXCEPT !.step = "activate", !.deployment = deployment]
           b == [r EXCEPT !.step = "activate", !.deployment = deployment,
                          !.candidate = previous.candidate, !.input = input,
                          !.fresh = TRUE]
<1>1. /\ KnowsOK(r) /\ JobOK(r) /\ r \in Progress /\ Known(deployment.current.fallback)
      /\ r.step = "load" /\ r.kind = "rollback"
  BY JobKnows DEF LoadRollback, At
<1>2. Known(r.status)
  BY <1>1 DEF JobOK, KnowsOK
<1>3. Steps(j, Failing(r)) \/ Steps(j, b)
  BY DEF LoadRollback
<1> DEFINE candidate == previous.candidate
<1>4. b = [u EXCEPT !.candidate = candidate, !.input = input, !.fresh = TRUE]
  OBVIOUS
<1> HIDE DEF r, candidate
<1>5. Known(input)
  BY <1>2, KnownDerived
<1> HIDE DEF input
<1>6. /\ u.step = "activate" /\ u.kind = r.kind /\ u.status = r.status
      /\ u.deployment = deployment /\ DOMAIN u = DOMAIN r
  BY <1>1 DEF Progress
<1>7. "input" \in DOMAIN u
  BY <1>1, <1>6 DEF Progress
<1> HIDE DEF u, b
<1>8. /\ b.step = u.step /\ b.kind = u.kind /\ b.status = u.status
      /\ b.deployment = u.deployment /\ b.input = input
  BY <1>4, <1>7
<1>9. KnowsOK(b)
  BY <1>1, <1>5, <1>6, <1>8 DEF KnowsOK
<1>10. KnowsOK(Failing(r))
  BY <1>1, FailingsKnow
<1> QED BY <1>3, <1>9, <1>10, QuietStepKnows

(* What a job keeps when another one takes a step.                         *)
LEMMA Others ==
  ASSUME SInv, NEW j \in Jobs, NEW r, NEW outdated, Become(j, r, outdated),
         NEW k \in Jobs, k # j
  PROVE  /\ Busy(k)' <=> Busy(k)
         /\ Busy(k) =>
              /\ job'[k].kind = job[k].kind /\ job'[k].release = job[k].release
              /\ job'[k].candidate = job[k].candidate /\ job'[k].step = job[k].step
              /\ job'[k].deployment = job[k].deployment /\ job'[k].status = job[k].status
              /\ job'[k].initial = job[k].initial /\ job'[k].input = job[k].input
              /\ job'[k].activated = job[k].activated
              /\ job'[k].fresh => job[k].fresh /\ job[k].step \notin outdated
<1> DEFINE q == job[k]
           n == [q EXCEPT !.fresh = FALSE]
<1>1. job'[k] = IF Busy(k) /\ q.step \in outdated THEN n ELSE q
  BY DEF Become
<1>2. CASE ~Busy(k)
  BY <1>1, <1>2 DEF Busy
<1>3. CASE Busy(k)
  <2>1. q \in Progress
    BY <1>3, JobIsOK
  <2> HIDE DEF q
  <2>2. /\ n.kind = q.kind /\ n.release = q.release /\ n.candidate = q.candidate
        /\ n.step = q.step /\ n.deployment = q.deployment /\ n.status = q.status
        /\ n.initial = q.initial /\ n.input = q.input /\ n.activated = q.activated
        /\ n.fresh = FALSE /\ n \in Progress
    <3>1. n \in Progress /\ n.fresh = FALSE
      BY <2>1 DEF Progress
    <3>2. /\ n.kind = q.kind /\ n.release = q.release /\ n.candidate = q.candidate
          /\ n.step = q.step /\ n.deployment = q.deployment
      BY <2>1 DEF Progress
    <3>3. /\ n.status = q.status /\ n.initial = q.initial /\ n.input = q.input
          /\ n.activated = q.activated
      BY <2>1 DEF Progress
    <3> QED BY <3>1, <3>2, <3>3
  <2> HIDE DEF n
  <2>3. Busy(k)'
    BY <1>1, <2>1, <2>2, SourceRefreshAssumption DEF Busy
  <2>4. /\ job'[k].kind = q.kind /\ job'[k].release = q.release
        /\ job'[k].candidate = q.candidate /\ job'[k].step = q.step
        /\ job'[k].deployment = q.deployment /\ job'[k].status = q.status
        /\ job'[k].initial = q.initial /\ job'[k].input = q.input
        /\ job'[k].activated = q.activated
        /\ job'[k].fresh => q.fresh /\ q.step \notin outdated
    BY <1>1, <1>3, <2>2
  <2> QED BY <1>3, <2>3, <2>4 DEF q
<1> QED BY <1>2, <1>3

(* ... and what it still knows.                                            *)
LEMMA Bystanders ==
  ASSUME SInv, KInv, NEW j \in Jobs, NEW r, NEW outdated, Become(j, r, outdated),
         NEW k \in Jobs, k # j, Busy(k)'
  PROVE  /\ Busy(k) /\ KnowsOK(job[k])
         /\ job'[k].step = job[k].step /\ job'[k].kind = job[k].kind
         /\ job'[k].status = job[k].status /\ job'[k].input = job[k].input
         /\ job'[k].deployment = job[k].deployment
         /\ job'[k].fresh => job[k].fresh /\ job[k].step \notin outdated
BY Others, JobKnows

(* The deployment pointer swapped by a job that then goes on as r.         *)
LEMMA DeploymentSwapKnows ==
  ASSUME SInv, KInv, NEW j \in Jobs, NEW r, KnowsOK(r), UNCHANGED status,
         Known(deployment'.current.fallback), Become(j, r, HoldsDeployment)
  PROVE  KInv'
<1>1. Busy(j)' => job'[j] = r
  BY DEF Become, Busy
<1>2. ASSUME NEW k \in Jobs, Busy(k)' PROVE KnowsOK(job[k])'
  <2>1. CASE k = j
    BY <1>1, <1>2, <2>1 DEF KnowsOK, Known, KnownUnder
  <2>2. CASE k # j
    <3>1. /\ KnowsOK(job[k]) /\ job'[k].step = job[k].step /\ job'[k].kind = job[k].kind
          /\ job'[k].status = job[k].status /\ job'[k].input = job[k].input
          /\ job'[k].deployment = job[k].deployment
          /\ job'[k].fresh => job[k].fresh
      BY <1>2, <2>2, Bystanders
    <3> QED BY <3>1 DEF KnowsOK, Known, KnownUnder
  <2> QED BY <2>1, <2>2
<1> QED BY <1>2 DEF KInv, Known, KnownUnder

LEMMA ActivateKnows ==
  ASSUME SInv, KInv, NEW j \in Jobs, Activate(j)
  PROVE  KInv'
<1> DEFINE r == job[j]
           u == [r EXCEPT !.fresh = FALSE]
           v == [r EXCEPT !.activated = TRUE, !.fresh = FALSE]
           p == [candidate |-> r.candidate, fallback |-> r.input]
<1>1. KnowsOK(r) /\ JobOK(r) /\ r \in Progress /\ r.step = "activate"
  BY JobKnows DEF Activate, At
<1>2. /\ r.kind # "check" /\ r.input \in Statuses /\ r.candidate \in Candidates
      /\ r.kind = "rollback" => r.status \in Statuses
  BY <1>1 DEF JobOK
<1>3. Known(r.input) /\ (r.kind = "rollback" => Known(r.status))
  BY <1>1, <1>2 DEF KnowsOK
<1>4. \/ Steps(j, Failing(u))
      \/ /\ deployment'.current = p /\ UNCHANGED status
         /\ \/ Become(j, AfterActivation(r, p), HoldsDeployment)
            \/ Become(j, Failing(v), HoldsDeployment)
  BY DEF Activate, HasCurrentVersion, Activated
<1> HIDE DEF r
<1>5. p \in Pairings /\ p.fallback = r.input
  BY <1>2 DEF Pairings
<1> HIDE DEF p
<1>6. /\ u \in Progress /\ u.step = r.step /\ u.kind = r.kind /\ u.status = r.status
      /\ u.deployment = r.deployment /\ u.input = r.input
  <2>1. u \in Progress
    BY <1>1 DEF Progress
  <2>2. /\ u.step = r.step /\ u.kind = r.kind /\ u.status = r.status
        /\ u.deployment = r.deployment /\ u.input = r.input
    BY <1>1 DEF Progress
  <2> QED BY <2>1, <2>2
<1>7. /\ v \in Progress /\ v.step = r.step /\ v.kind = r.kind /\ v.status = r.status
      /\ v.deployment = r.deployment /\ v.input = r.input
  <2>1. v \in Progress
    BY <1>1 DEF Progress
  <2>2. /\ v.step = r.step /\ v.kind = r.kind /\ v.status = r.status
        /\ v.deployment = r.deployment /\ v.input = r.input
    BY <1>1 DEF Progress
  <2> QED BY <2>1, <2>2
<1>8. AfterActivation(r, p) =
        IF r.kind = "refresh" THEN Rereads(v, "promoted")
        ELSE IF r.kind = "rollback" THEN Reconciling(v, p, r.status)
        ELSE IF r.initial = p THEN Ended(v, "done")
        ELSE Publishing(v, r.input)
  BY DEF AfterActivation
<1> HIDE DEF u, v
<1>9. KnowsOK(u) /\ KnowsOK(v)
  BY <1>1, <1>6, <1>7 DEF KnowsOK
<1>10. KnowsOK(Failing(u)) /\ KnowsOK(Failing(v))
  BY <1>6, <1>7, <1>9, FailingsKnow
<1>11. KnowsOK(AfterActivation(r, p))
  <2>1. r.kind = "refresh" => KnowsOK(Rereads(v, "promoted"))
    BY <1>7, <1>9, RereadingsKnow
  <2>2. r.kind = "rollback" => KnowsOK(Reconciling(v, p, r.status))
    BY <1>2, <1>3, <1>5, <1>7, <1>9, ReconcilingsKnow
  <2>3. KnowsOK(Ended(v, "done"))
    BY <1>7, <1>9, EndingsKnow
  <2>4. KnowsOK(Publishing(v, r.input))
    BY <1>2, <1>3, <1>7, PublishingsKnow
  <2> QED BY <1>8, <2>1, <2>2, <2>3, <2>4
<1>12. ASSUME deployment'.current = p, UNCHANGED status,
              NEW n, KnowsOK(n), Become(j, n, HoldsDeployment)
       PROVE  KInv'
  <2>1. Known(deployment'.current.fallback)
    BY <1>3, <1>5, <1>12
  <2> QED BY <1>12, <2>1, DeploymentSwapKnows
<1> QED BY <1>4, <1>10, <1>11, <1>12, QuietStepKnows

LEMMA PublishKnows ==
  ASSUME SInv, KInv, NEW j \in Jobs, Publish(j)
  PROVE  KInv'
<1> DEFINE r == job[j]
           b == [Prepared(r, r.input, status) EXCEPT !.fresh = TRUE]
<1>1. /\ KnowsOK(r) /\ JobOK(r) /\ r \in Progress /\ r.step = "publish" /\ Steps(j, b)
  BY JobKnows DEF Publish, At
<1> HIDE DEF r
<1>2. r.kind # "check" /\ r.input \in Statuses /\ Known(r.input)
  BY <1>1 DEF JobOK, KnowsOK
<1>3. 1 <= r.input.checked
  BY <1>2 DEF Known, KnownUnder
<1>4. KnowsOK(b)
  BY <1>1, <1>2, <1>3, PreparationsKnow
<1> HIDE DEF b
<1> QED BY <1>1, <1>4, QuietStepKnows

LEMMA LoadStatusKnows ==
  ASSUME SInv, KInv, NEW j \in Jobs, LoadStatus(j)
  PROVE  KInv'
<1> DEFINE r == job[j]
           b == [r EXCEPT !.step = "compare", !.status = status, !.fresh = TRUE]
<1>1. /\ KnowsOK(r) /\ JobOK(r) /\ r \in Progress /\ r.step = "current" /\ Steps(j, b)
  BY JobKnows DEF LoadStatus, At
<1>2. r.kind = "check"
  BY <1>1 DEF JobOK
<1> HIDE DEF r
<1>3. b.step = "compare" /\ b.kind = r.kind /\ b.status = status
  BY <1>1 DEF Progress
<1> HIDE DEF b
<1>4. KnowsOK(b)
  BY <1>2, <1>3 DEF KnowsOK
<1> QED BY <1>1, <1>4, QuietStepKnows

LEMMA CompareKnows ==
  ASSUME SInv, KInv, NEW j \in Jobs, Compare(j)
  PROVE  KInv'
<1> DEFINE r == job[j]
           s == r.status
           served == Release(deployment.current)
           baseline == IF s # Null /\ s.served = served THEN s
                       ELSE deployment.current.fallback
           c == Checked(baseline, served, r.release, r.at)
           m == Prepared(r, c, s)
           b == [m EXCEPT !.fresh = r.fresh]
<1>1. /\ KnowsOK(r) /\ JobOK(r) /\ r \in Progress /\ r.step = "compare"
  BY JobKnows DEF Compare, At
<1>2. /\ r.kind = "check" /\ r.release \in Nat /\ s \in Statuses \cup {Null}
      /\ r.at \in Nat /\ 1 <= r.at /\ r.fresh \in BOOLEAN
  BY <1>1 DEF JobOK, Progress
<1>3. \/ Steps(j, Ended(r, "failed"))
      \/ /\ ~(r.release < served \/ (s # Null /\ r.release < s.latest))
         /\ Steps(j, m)
  BY DEF Compare
<1>4. served \in Nat /\ deployment.current.fallback \in Statuses
  BY CurrentIsPairing, ReleaseIsNumber
<1>5. baseline \in Statuses /\ (s # Null /\ s.served = served => baseline = s)
  BY <1>2, <1>4
<1>6. KnowsOK(Ended(r, "failed"))
  BY <1>1, EndingsKnow
<1> HIDE DEF r, s, served, baseline
<1>7. /\ c \in Statuses /\ c.checked = r.at /\ c.served = served /\ c.latest = r.release
      /\ c.failed = baseline.failed /\ c.rollback = baseline.rollback
  <2>1. c \in Statuses
    BY <1>2, <1>4, <1>5, DerivedStatuses
  <2> QED BY <2>1, DerivedFields
<1> HIDE DEF c
<1>8. ASSUME ~(r.release < served \/ (s # Null /\ r.release < s.latest)), Steps(j, m)
      PROVE  KInv'
  <2>1. Informed(c, s)
    <3> SUFFICES ASSUME s # Null
                 PROVE  /\ c.latest >= s.latest
                        /\ c.served = s.served /\ (s.failed \/ s.rollback) =>
                             c.failed \/ c.rollback
      BY DEF Informed
    <3>1. s.latest \in Nat
      BY <1>2 DEF Statuses
    <3>2. c.latest >= s.latest
      BY <1>2, <1>7, <1>8, <3>1
    <3>3. c.served = s.served => c.failed = s.failed /\ c.rollback = s.rollback
      BY <1>5, <1>7
    <3> QED BY <3>2, <3>3
  <2>2. r.fresh => s = status
    BY <1>1 DEF KnowsOK, s
  <2>3. KnowsOK(b)
    BY <1>1, <1>2, <1>7, <2>1, <2>2, PreparationsKnow
  <2>4. m \in Progress /\ m.fresh = r.fresh
    <3> DEFINE n == Rereads(r, "swap")
               e == Ended(r, "failed")
               g == Ended(r, "done")
    <3>1. n \in Progress /\ n.fresh = r.fresh
      BY <1>1, Rereadings
    <3>2. e \in Progress /\ e.fresh = r.fresh /\ g \in Progress /\ g.fresh = r.fresh
      BY <1>1 DEF Ended, Progress
    <3>3. m \in {e, g, [n EXCEPT !.input = c]}
      BY DEF Prepared
    <3> HIDE DEF n, e, g
    <3>4. [n EXCEPT !.input = c] \in Progress /\ [n EXCEPT !.input = c].fresh = n.fresh
      BY <1>7, <3>1 DEF Progress
    <3> QED BY <3>1, <3>2, <3>3, <3>4
  <2> HIDE DEF m
  <2>5. b = m
    BY <2>4 DEF Progress
  <2> HIDE DEF b
  <2> QED BY <1>8, <2>3, <2>5, QuietStepKnows
<1> QED BY <1>3, <1>6, <1>8, QuietStepKnows

(* A swap of the status: to a status that was compared with it, and that   *)
(* leaves the known ones known.                                            *)
LEMMA SwappedStatus ==
  ASSUME SInv, KInv, NEW j \in Jobs, At(j, "swap"), job[j].fresh, status' = job[j].input
  PROVE  /\ status' \in Statuses /\ ~Refused(status', status)
         /\ 1 <= status'.checked
         /\ status # Null => status'.checked >= status.checked
         /\ \A s \in Statuses : Known(s) => KnownUnder(s, status')
<1>1. /\ KnowsOK(job[j]) /\ JobOK(job[j]) /\ status \in Statuses \cup {Null}
  BY JobKnows DEF At
<1>2. /\ status' \in Statuses /\ ~Refused(status', status) /\ 1 <= status'.checked
  BY <1>1 DEF JobOK, KnowsOK, At
<1>3. ASSUME status # Null PROVE status'.checked >= status.checked
  <2>1. status'.checked \in Nat /\ status.checked \in Nat
    BY <1>1, <1>2, <1>3 DEF Statuses
  <2> QED BY <1>2, <1>3, <2>1 DEF Refused, Regresses
<1>4. ASSUME NEW s \in Statuses, Known(s) PROVE KnownUnder(s, status')
  <2>1. status' # Null
    BY <1>2, SourceRefreshAssumption
  <2>2. /\ status'.checked \in Nat /\ s.checked \in Nat
        /\ status # Null => status.checked \in Nat
    BY <1>1, <1>2 DEF Statuses
  <2>3. 1 <= s.checked /\ s.checked <= (IF status = Null THEN 1 ELSE status.checked)
    BY <1>4 DEF Known, KnownUnder
  <2> QED BY <1>2, <1>3, <2>1, <2>2, <2>3 DEF KnownUnder
<1> QED BY <1>2, <1>3, <1>4

LEMMA SwapKnows ==
  ASSUME SInv, KInv, NEW j \in Jobs, Swap(j)
  PROVE  KInv'
<1> DEFINE r == job[j]
           n == Rereads(r, "current")
           b == [n EXCEPT !.try = @ + 1, !.input = Null]
<1>1. /\ At(j, "swap") /\ KnowsOK(r) /\ r \in Progress /\ r.step = "swap"
      /\ Known(deployment.current.fallback)
  BY JobKnows DEF Swap, At
<1>2. \/ Steps(j, b)
      \/ Steps(j, Ended(r, "failed"))
      \/ /\ r.fresh /\ status' = r.input /\ UNCHANGED deployment
         /\ \E step \in {"done", "failed"} : Become(j, Ended(r, step), HoldsStatus)
  BY DEF Swap, Retried, HasCurrentVersion
<1>3. ASSUME Steps(j, b) PROVE KInv'
  <2> DEFINE next == n.try + 1
             u == [n EXCEPT !.try = next]
  <2>1. n \in Progress /\ KnowsOK(n) /\ n.step = "current"
    <3> HIDE DEF r
    <3> QED BY <1>1, Rereadings, RereadingsKnow
  <2>2. b = [u EXCEPT !.input = Null]
    OBVIOUS
  <2> HIDE DEF n, next
  <2>3. /\ u.step = n.step /\ u.kind = n.kind /\ u.status = n.status
        /\ u.deployment = n.deployment /\ DOMAIN u = DOMAIN n /\ "input" \in DOMAIN n
    BY <2>1 DEF Progress
  <2> HIDE DEF u, b
  <2>4. /\ b.step = u.step /\ b.kind = u.kind /\ b.status = u.status
        /\ b.deployment = u.deployment /\ b.input = Null
    BY <2>2, <2>3
  <2>5. KnowsOK(b)
    BY <2>1, <2>3, <2>4, SourceRefreshAssumption DEF KnowsOK
  <2> QED BY <1>3, <2>5, QuietStepKnows
<1>4. ASSUME Steps(j, Ended(r, "failed")) PROVE KInv'
  BY <1>1, <1>4, EndingsKnow, QuietStepKnows
<1>5. ASSUME r.fresh, status' = r.input, UNCHANGED deployment,
             NEW step \in {"done", "failed"}, Become(j, Ended(r, step), HoldsStatus)
      PROVE  KInv'
  <2>1. /\ status' \in Statuses /\ 1 <= status'.checked
        /\ \A s \in Statuses : Known(s) => KnownUnder(s, status')
    BY <1>1, <1>5, SwappedStatus
  <2>2. Known(status)'
    <3>1. status' # Null
      BY <2>1, SourceRefreshAssumption
    <3>2. status'.checked \in Nat
      BY <2>1 DEF Statuses
    <3> QED BY <2>1, <3>1, <3>2 DEF Known, KnownUnder
  <2>3. Known(deployment.current.fallback)'
    <3>1. deployment.current.fallback \in Statuses
      BY CurrentIsPairing, ReleaseIsNumber
    <3> QED BY <1>1, <1>5, <2>1, <3>1 DEF Known
  <2>4. ASSUME NEW k \in Jobs, Busy(k)' PROVE KnowsOK(job[k])'
    <3>1. k # j
      <4>1. Ended(r, step).step = step
        BY <1>1 DEF Ended, Progress
      <4> QED BY <1>5, <2>4, <4>1 DEF Become, Busy
    <3>2. /\ KnowsOK(job[k]) /\ job'[k].step = job[k].step /\ job'[k].kind = job[k].kind
          /\ job'[k].status = job[k].status /\ job'[k].input = job[k].input
          /\ job'[k].deployment = job[k].deployment
          /\ job'[k].fresh => job[k].step \notin HoldsStatus
      BY <1>5, <2>4, <3>1, Bystanders
    <3>3. ASSUME NEW d \in Deployments, Known(d.current.fallback)
          PROVE  KnownUnder(d.current.fallback, status')
      <4>1. d.current.fallback \in Statuses
        BY ReleaseIsNumber DEF Deployments
      <4> QED BY <2>1, <3>3, <4>1
    <3>4. job'[k].kind # "check" =>
            /\ job'[k].status \in Statuses => KnownUnder(job'[k].status, status')
            /\ job'[k].input \in Statuses => KnownUnder(job'[k].input, status')
            /\ job'[k].deployment \in Deployments =>
                 KnownUnder(job'[k].deployment.current.fallback, status')
      BY <2>1, <3>2, <3>3 DEF KnowsOK
    <3>5. job'[k].step \in {"compare", "swap"} => ~job'[k].fresh
      BY <3>2 DEF HoldsStatus
    <3> QED BY <3>2, <3>4, <3>5 DEF KnowsOK, Known
  <2> QED BY <2>2, <2>3, <2>4 DEF KInv
<1> QED BY <1>2, <1>3, <1>4, <1>5

LEMMA DieKnows ==
  ASSUME SInv, KInv, NEW j \in Jobs, Die(j)
  PROVE  KInv'
<1>1. /\ KnowsOK(job[j]) /\ job[j] \in Progress /\ UNCHANGED <<deployment, status>>
      /\ Become(j, Ended(job[j], "failed"), {})
  BY JobKnows DEF Die, Commanding
<1>2. KnowsOK(Ended(job[j], "failed"))
  BY <1>1, EndingsKnow
<1> QED BY <1>1, <1>2, QuietlyKnown

LEMMA InitKInv == Init => KInv
<1> SUFFICES ASSUME Init PROVE KInv
  OBVIOUS
<1> DEFINE f == First(ReleaseOf[Origin], 1, 1)
<1>1. f.checked = 1
  BY DEF First, Status
<1>2. /\ deployment = [current |-> [candidate |-> Origin, fallback |-> f],
                       history |-> <<>>]
      /\ status \in {Null, deployment.current.fallback} /\ job = [j \in Jobs |-> Null]
  BY DEF Init
<1> HIDE DEF f
<1>3. deployment.current.fallback = f
  BY <1>2
<1> QED BY <1>1, <1>2, <1>3 DEF KInv, Known, KnownUnder, Busy

LEMMA NextKeepsKInv ==
  ASSUME SInv, KInv, [Next]_vars
  PROVE  KInv'
<1>1. CASE UNCHANGED vars
  BY <1>1 DEF vars, KInv, Known, KnownUnder, KnowsOK, Busy
<1>2. ASSUME NEW j \in Jobs, CommandStep(j) PROVE KInv'
  BY <1>2, ReadKnows, RefreshKnows, BuildKnows, RecheckKnows, DelayKnows,
     AfterPromotionKnows, RollbackKnows, PromoteKnows, LoadPromotionKnows,
     LoadRollbackKnows, ActivateKnows, PublishKnows
     DEF CommandStep
<1>3. ASSUME NEW j \in Jobs, CheckStep(j) PROVE KInv'
  BY <1>3, LoadStatusKnows, CompareKnows DEF CheckStep
<1>4. ASSUME NEW j \in Jobs, Start(j) \/ Swap(j) \/ Die(j) PROVE KInv'
  BY <1>4, StartKnows, SwapKnows, DieKnows
<1>5. ASSUME NEW j \in Jobs, NEW observed \in Releases, NEW at \in Times,
             StartCheck(j, observed, at)
      PROVE  KInv'
  BY <1>5, StartCheckKnows
<1> QED BY <1>1, <1>2, <1>3, <1>4, <1>5 DEF Next

(* Whatever a command is about to publish, no source check after the       *)
(* published one made it; and a version of the status pointer is of the    *)
(* status that a check has compared with.                                  *)
THEOREM StatusInductive == Spec => []KInv
<1>1. Init => SInv /\ KInv
  BY InitSInv, InitKInv
<1>2. SInv /\ KInv /\ [Next]_vars => (SInv /\ KInv)'
  BY NextKeepsSInv, NextKeepsKInv
<1>3. SInv /\ KInv => KInv
  OBVIOUS
<1> QED BY <1>1, <1>2, <1>3, PTL DEF Spec

(* Only Swap changes the status, by a job that holds its version, and the  *)
(* other jobs at that step stay busy.                                      *)
LEMMA StatusChanges ==
  ASSUME SInv, [Next]_vars, status' # status
  PROVE  /\ deployment' = deployment
         /\ \E j \in Jobs : /\ At(j, "swap") /\ job[j].fresh /\ status' = job[j].input
                            /\ \A k \in Jobs : At(k, "swap") /\ job'[k] = Null => k = j
<1>1. PICK j \in Jobs : Swap(j)
  <2>1. ASSUME NEW j \in Jobs, Start(j) \/ Die(j) \/ CheckStep(j)
        PROVE  status' = status
    BY <2>1 DEF Start, Die, CheckStep, LoadStatus, Compare, Steps
  <2>2. ASSUME NEW j \in Jobs, CommandStep(j)
        PROVE  status' = status
    BY <2>2 DEF CommandStep, Read, Refresh, Build, Recheck, Delay, AfterPromotion, Rollback,
                Promote, LoadPromotion, LoadRollback, Activate, Publish, Steps
  <2>3. ASSUME NEW j \in Jobs, NEW observed \in Releases, NEW at \in Times,
               StartCheck(j, observed, at)
        PROVE  status' = status
    BY <2>3 DEF StartCheck
  <2> QED BY <2>1, <2>2, <2>3 DEF Next, vars
<1>2. /\ At(j, "swap") /\ job[j].fresh /\ status' = job[j].input
      /\ deployment' = deployment /\ \E r : Become(j, r, HoldsStatus)
  BY <1>1 DEF Swap, HasCurrentVersion, Steps
<1>3. ASSUME NEW k \in Jobs, k # j, At(k, "swap") PROVE job'[k] # Null
  <2> DEFINE q == job[k]
             n == [q EXCEPT !.fresh = FALSE]
  <2>1. job'[k] = n
    BY <1>2, <1>3 DEF Become, HoldsStatus, At
  <2>2. q \in Progress
    BY <1>3, JobIsOK DEF At
  <2> HIDE DEF q
  <2>3. n \in Progress
    BY <2>2 DEF Progress
  <2> HIDE DEF n
  <2> QED BY <2>1, <2>3, SourceRefreshAssumption
<1> QED BY <1>2, <1>3

(* Whatever checks and commands race, die or are run again, a status       *)
(* replaces an earlier one only, a check forgets no release, and no check  *)
(* clears a delay of the release it finds served.                          *)
THEOREM PublishedStatusMovesForward == Spec => StatusMovesForward
<1> DEFINE forward ==
             status # Null /\ status' # status =>
               /\ ~Regresses(status', status)
               /\ status'.checked > status.checked => status'.latest >= status.latest
           delayed ==
             \A j \in Jobs :
               /\ At(j, "swap") /\ ~Commanding(j) /\ job'[j] = Null
               /\ status # Null /\ status' # status /\ status'.served = status.served
               /\ status.failed \/ status.rollback
               => status'.failed \/ status'.rollback
<1>1. SInv /\ KInv /\ [Next]_vars => forward
  <2> SUFFICES ASSUME SInv, KInv, [Next]_vars, status # Null, status' # status
               PROVE  /\ ~Regresses(status', status)
                      /\ status'.checked > status.checked => status'.latest >= status.latest
    OBVIOUS
  <2>1. PICK j \in Jobs : At(j, "swap") /\ job[j].fresh /\ status' = job[j].input
    BY StatusChanges
  <2>2. ~Regresses(status', status)
    BY <2>1, SwappedStatus DEF Refused
  <2>3. KnowsOK(job[j]) /\ status \in Statuses /\ status' \in Statuses
    BY <2>1, JobKnows, SwappedStatus DEF At
  <2>4. CASE job[j].kind = "check"
    <3>1. Informed(job[j].input, status)
      BY <2>1, <2>3, <2>4 DEF KnowsOK, At
    <3> QED BY <2>1, <2>2, <3>1 DEF Informed
  <2>5. CASE job[j].kind # "check"
    <3>1. Known(status')
      BY <2>1, <2>3, <2>5 DEF KnowsOK
    <3>2. status'.checked \in Nat /\ status.checked \in Nat
      BY <2>3 DEF Statuses
    <3> QED BY <2>2, <3>1, <3>2 DEF Known, KnownUnder
  <2> QED BY <2>2, <2>4, <2>5
<1>2. SInv /\ KInv /\ [Next]_vars => delayed
  <2> SUFFICES ASSUME SInv, KInv, [Next]_vars, NEW j \in Jobs,
                      At(j, "swap"), ~Commanding(j), job'[j] = Null,
                      status # Null, status' # status, status'.served = status.served,
                      status.failed \/ status.rollback
               PROVE  status'.failed \/ status'.rollback
    OBVIOUS
  <2>1. job[j].fresh /\ status' = job[j].input
    BY StatusChanges
  <2>2. KnowsOK(job[j]) /\ job[j].kind = "check"
    BY JobKnows DEF At, Commanding
  <2> QED BY <2>1, <2>2 DEF KnowsOK, Informed, At
<1>3. Spec => [][forward]_vars /\ [][delayed]_vars
  BY <1>1, <1>2, ActivationInductive, StatusInductive, PTL DEF Spec
<1> QED BY <1>3 DEF StatusMovesForward
-----------------------------------------------------------------------------
(* The third invariant: what each command still owes.                      *)

(* What a job's record says of the release it is about; only one that      *)
(* knows of its activation and has yet to describe it is activated.        *)
BoundOK(r) ==
  /\ r.activated => /\ r.kind # "check"
                    /\ r.step \in {"promoted", "delay", "publish", "swap"}
  /\ r.step = "promoted" => r.activated
  /\ r.kind = "promote" => r.release = ReleaseOf[r.candidate]
  /\ r.step \in {"build", "recheck"} => r.kind = "refresh"
  /\ r.step = "load" /\ r.kind # "rollback" => r.input.served = r.release
  /\ r.step = "activate" => r.input.served = ReleaseOf[r.candidate]
  /\ r.step = "activate" /\ r.kind = "refresh" => r.release = ReleaseOf[r.candidate]
  /\ r.step \in {"load", "activate"} /\ r.kind = "rollback" =>
       r.status.served = Release(r.initial)

(* Unless another has overtaken it, the deployment a command goes by is    *)
(* still so, and what it is about to publish describes the deployment.     *)
UpToDate(r, d) ==
  /\ r.step \in {"read", "delay"} /\ r.deployment # Unread => r.deployment = d
  /\ r.kind = "promote" /\ r.step \in {"load", "activate"} =>
       r.initial = d.current
  /\ r.step \in {"publish", "swap"} => r.input.served = Release(d.current)
  /\ r.step = "promoted" => r.release = Release(d.current)

(* A check about to publish what describes the deployment.                 *)
CheckOK(r, d) ==
  r.step = "swap" /\ r.kind = "check" /\ r.fresh =>
    r.input.served = Release(d.current)

Owing == \E j \in Jobs : Commanding(j) /\ job[j].activated
Diverted == \E j \in Jobs : Commanding(j) /\ job[j].activated /\ j \in overtaken

QInv ==
  /\ deployment.current.fallback.served = Release(deployment.current)
  /\ \A j \in Jobs : Busy(j) => BoundOK(job[j])
  /\ \A j \in Jobs : Commanding(j) /\ j \notin overtaken => UpToDate(job[j], deployment)
  /\ ~owed /\ ~Owing => InStep
  /\ ~owed /\ InStep /\ ~Diverted =>
       \A j \in Jobs : Busy(j) => CheckOK(job[j], deployment)

(* What the job j goes on as, with the deployment d.                       *)
GoesOn(j, r, d) ==
  r.step \notin {"done", "failed"} =>
    /\ r \in Progress /\ BoundOK(r) /\ CheckOK(r, d)
    /\ r.kind # "check" /\ j \notin overtaken => UpToDate(r, d)

(* The active release is the given one, unless j was overtaken.            *)
Describes(j, release, d) == j \notin overtaken => release = Release(d.current)

(* The served release of a derived status.                                 *)
LEMMA DerivedServed ==
  \A c, f, release, at :
    /\ Completed(c, release, at).served = release
    /\ Failed(c, release, at).served = c.served
    /\ RolledBack(c, release, at).served = release
    /\ Promoted(c, release, at).served = release
    /\ First(release, 1, at).served = release
    /\ Reconciled(c, release, f).served \in {release, f.served}
BY DEF Completed, Failed, RolledBack, Promoted, First, Reconciled, Status

LEMMA EndingsGoOn ==
  ASSUME NEW j, NEW r \in Progress, NEW step \in {"done", "failed"}, NEW d
  PROVE  LET n == Ended(r, step) IN
         GoesOn(j, n, d) /\ n.kind = r.kind /\ n.activated = r.activated /\ n.step = step
BY DEF Ended, Progress, GoesOn

(* A job that knows nothing of its activation, or is about to describe it. *)
LEMMA RereadingsGoOn ==
  ASSUME NEW j, NEW n \in Progress, NEW d, n.step \in {"build", "recheck", "delay", "current"},
         n.deployment = Unread, n.kind = "promote" => n.release = ReleaseOf[n.candidate],
         n.step \in {"build", "recheck"} => n.kind = "refresh",
         n.activated => n.step = "delay" /\ n.kind # "check"
  PROVE  GoesOn(j, n, d)
BY DEF GoesOn, BoundOK, UpToDate, CheckOK

LEMMA FailingsGoOn ==
  ASSUME NEW j, NEW r \in Progress, NEW d
  PROVE  LET n == Failing(r) IN
         /\ GoesOn(j, n, d) /\ n.kind = r.kind /\ n.activated = r.activated
         /\ n.step # "done"
<1>1. CASE r.kind = "refresh"
  <2> DEFINE n == Rereads(r, "delay")
  <2>1. /\ n \in Progress /\ n.step = "delay" /\ n.kind = r.kind /\ n.activated = r.activated
        /\ n.deployment = Unread
    BY Rereadings
  <2>2. Failing(r) = n
    BY <1>1 DEF Failing
  <2> HIDE DEF n
  <2>3. GoesOn(j, n, d)
    BY <1>1, <2>1, RereadingsGoOn
  <2> QED BY <2>1, <2>2, <2>3
<1>2. CASE r.kind # "refresh"
  BY <1>2, EndingsGoOn DEF Failing
<1> QED BY <1>1, <1>2

LEMMA PublishingsGoOn ==
  ASSUME NEW j, NEW r \in Progress, NEW s \in Statuses, NEW d, r.kind # "check",
         r.kind = "promote" => r.release = ReleaseOf[r.candidate],
         Describes(j, s.served, d)
  PROVE  LET n == Publishing(r, s) IN
         /\ GoesOn(j, n, d) /\ n.kind = r.kind /\ n.activated = r.activated
         /\ n.step = "publish"
<1> DEFINE n == Rereads(r, "publish")
           p == [n EXCEPT !.input = s]
<1>1. /\ n \in Progress /\ n.step = "publish" /\ n.kind = r.kind /\ n.release = r.release
      /\ n.candidate = r.candidate /\ n.activated = r.activated /\ n.deployment = Unread
  BY Rereadings
<1>2. Publishing(r, s) = p
  BY DEF Publishing
<1> HIDE DEF n
<1>3. /\ p \in Progress /\ p.step = "publish" /\ p.kind = r.kind /\ p.release = r.release
      /\ p.candidate = r.candidate /\ p.activated = r.activated
      /\ p.deployment = Unread /\ p.input = s
  BY <1>1 DEF Progress
<1> HIDE DEF p
<1>4. GoesOn(j, p, d)
  BY <1>3 DEF GoesOn, BoundOK, UpToDate, CheckOK, Describes
<1> QED BY <1>2, <1>3, <1>4

LEMMA ReconcilingsGoOn ==
  ASSUME NEW j, NEW r \in Progress, r.kind \notin {"check", "promote"}, NEW p \in Pairings,
         NEW s \in Statuses \cup {Null}, NEW d,
         Describes(j, p.fallback.served, d), Describes(j, Release(p), d)
  PROVE  LET n == Reconciling(r, p, s) IN
         /\ GoesOn(j, n, d) /\ n.kind = r.kind /\ n.activated = r.activated
         /\ n.step # "failed" /\ (n.step = "done" => s # Null /\ s.served = Release(p))
<1> DEFINE i == IF s = Null THEN p.fallback ELSE Reconciled(s, Release(p), p.fallback)
           done == s # Null /\ IsReconciled(s, Release(p), p.fallback)
<1>1. Release(p) \in Nat /\ p.fallback \in Statuses
  BY ReleaseIsNumber
<1>2. i \in Statuses
  BY <1>1, DerivedStatuses
<1>3. Describes(j, i.served, d)
  BY DerivedServed DEF Describes
<1>4. Reconciling(r, p, s) = IF done THEN Ended(r, "done") ELSE Publishing(r, i)
  BY DEF Reconciling
<1>5. done => s # Null /\ s.served = Release(p)
  BY DEF IsReconciled
<1> HIDE DEF i, done
<1>6. CASE done
  BY <1>4, <1>5, <1>6, EndingsGoOn
<1>7. CASE ~done
  BY <1>2, <1>3, <1>4, <1>7, PublishingsGoOn
<1> QED BY <1>6, <1>7

(* publishAgainstCurrent: refused, the same already, or to be swapped.     *)
LEMMA PreparationsGoOn ==
  ASSUME NEW j, NEW r \in Progress, NEW input \in Statuses, NEW current, NEW d,
         NEW fresh \in BOOLEAN, r.activated => r.kind # "check",
         r.kind = "promote" => r.release = ReleaseOf[r.candidate],
         Describes(j, input.served, d),
         r.kind = "check" => input.served = Release(d.current)
  PROVE  LET n == [Prepared(r, input, current) EXCEPT !.fresh = fresh] IN
         /\ GoesOn(j, n, d) /\ n.kind = r.kind /\ n.activated = r.activated
         /\ n.step = "done" => current = input
<1> DEFINE m == Prepared(r, input, current)
           q == [m EXCEPT !.fresh = fresh]
<1>1. CASE Refused(input, current) \/ current = input
  <2>1. PICK step \in {"done", "failed"} :
          m = Ended(r, step) /\ (step = "done" => current = input)
    BY <1>1 DEF Prepared
  <2> HIDE DEF m
  <2>2. m \in Progress /\ m.step = step /\ m.kind = r.kind /\ m.activated = r.activated
    BY <2>1 DEF Ended, Progress
  <2>3. q.step = step /\ q.kind = r.kind /\ q.activated = r.activated
    BY <2>2 DEF Progress
  <2> HIDE DEF q
  <2> QED BY <2>1, <2>3 DEF GoesOn, q, m
<1>2. CASE ~(Refused(input, current) \/ current = input)
  <2> DEFINE n == Rereads(r, "swap")
  <2>1. /\ n \in Progress /\ n.step = "swap" /\ n.kind = r.kind /\ n.release = r.release
        /\ n.candidate = r.candidate /\ n.activated = r.activated /\ n.deployment = Unread
    BY Rereadings
  <2>2. m = [n EXCEPT !.input = input]
    BY <1>2 DEF Prepared
  <2> HIDE DEF n, m
  <2>3. /\ m \in Progress /\ m.step = "swap" /\ m.kind = n.kind /\ m.release = n.release
        /\ m.candidate = n.candidate /\ m.activated = n.activated
        /\ m.deployment = Unread /\ m.input = input
    BY <2>1, <2>2 DEF Progress
  <2>4. /\ q \in Progress /\ q.step = "swap" /\ q.kind = r.kind /\ q.release = r.release
        /\ q.candidate = r.candidate /\ q.activated = r.activated
        /\ q.deployment = Unread /\ q.input = input
    BY <2>1, <2>3 DEF Progress
  <2> HIDE DEF q
  <2>5. GoesOn(j, q, d)
    BY <2>4 DEF GoesOn, BoundOK, UpToDate, CheckOK, Describes
  <2> QED BY <2>4, <2>5 DEF q, m
<1> QED BY <1>1, <1>2

-----------------------------------------------------------------------------
(* The steps that leave both pointers alone.                               *)

(* A command that goes by no deployment cannot be out of date.             *)
LEMMA UnreliantUpToDate ==
  ASSUME NEW r, NEW d, r.kind # "check", BoundOK(r), ~Relies(r)
  PROVE  UpToDate(r, d)
BY DEF BoundOK, Relies, UpToDate

(* What the other jobs keep, with the deployment as it was.                *)
LEMMA OthersGoOn ==
  ASSUME SInv, QInv, NEW j \in Jobs, NEW r, NEW outdated, Become(j, r, outdated),
         NEW k \in Jobs, k # j, Busy(k)'
  PROVE  /\ BoundOK(job'[k])
         /\ Commanding(k)' /\ k \notin overtaken => UpToDate(job'[k], deployment)
         /\ ~owed /\ InStep /\ ~Diverted => CheckOK(job'[k], deployment)
         /\ job'[k].activated = job[k].activated
         /\ job'[k].fresh => job[k].step \notin outdated
         /\ job'[k].step = job[k].step
         /\ Relies(job'[k]) <=> Relies(job[k])
<1>1. /\ Busy(k)
      /\ job'[k].kind = job[k].kind /\ job'[k].release = job[k].release
      /\ job'[k].candidate = job[k].candidate /\ job'[k].step = job[k].step
      /\ job'[k].deployment = job[k].deployment /\ job'[k].status = job[k].status
      /\ job'[k].initial = job[k].initial /\ job'[k].input = job[k].input
      /\ job'[k].activated = job[k].activated
      /\ job'[k].fresh => job[k].fresh /\ job[k].step \notin outdated
  BY Others
<1>2. Commanding(k)' <=> Commanding(k)
  BY <1>1 DEF Commanding
<1>3. BoundOK(job[k])
  BY <1>1 DEF QInv
<1>4. BoundOK(job'[k])
  BY <1>1, <1>3 DEF BoundOK
<1>5. ASSUME Commanding(k), k \notin overtaken PROVE UpToDate(job'[k], deployment)
  <2>1. UpToDate(job[k], deployment)
    BY <1>5 DEF QInv
  <2> QED BY <1>1, <2>1 DEF UpToDate
<1>6. ASSUME ~owed, InStep, ~Diverted PROVE CheckOK(job'[k], deployment)
  <2>1. CheckOK(job[k], deployment)
    BY <1>1, <1>6 DEF QInv
  <2> QED BY <1>1, <2>1 DEF CheckOK
<1>7. Relies(job'[k]) <=> Relies(job[k])
  BY <1>1 DEF Relies
<1> QED BY <1>1, <1>2, <1>4, <1>5, <1>6, <1>7

(* Who is a command, and overtaken, after the job j has gone on as r.      *)
LEMMA CommandsAfter ==
  ASSUME SInv, NEW j \in Jobs, NEW r, NEW outdated, Become(j, r, outdated)
  PROVE  /\ j \in overtaken' <=> j \in overtaken /\ Relies(r)
         /\ \A k \in Jobs : k # j =>
              /\ Commanding(k)' <=> Commanding(k)
              /\ Commanding(k) => job'[k].activated = job[k].activated
              /\ k \in overtaken' <=> \/ k \in overtaken
                                      \/ deployment' # deployment /\ Busy(k) /\ Relies(job[k])
<1>1. overtaken' = {k \in Jobs : IF k = j THEN j \in overtaken /\ Relies(r)
                                 ELSE \/ k \in overtaken
                                      \/ deployment' # deployment /\ Busy(k) /\ Relies(job[k])}
  BY DEF Become
<1>2. ASSUME NEW k \in Jobs, k # j
      PROVE  /\ Commanding(k)' <=> Commanding(k)
             /\ Commanding(k) => job'[k].activated = job[k].activated
  BY <1>2, Others DEF Commanding
<1> QED BY <1>1, <1>2

(* What remains to be described, and what was overtaken, once j ends or    *)
(* goes on as r.                                                           *)
LEMMA OwingAfter ==
  ASSUME SInv, NEW j \in Jobs, NEW r, NEW outdated, Become(j, r, outdated)
  PROVE  /\ ~Owing' => \A k \in Jobs : k # j => ~(Commanding(k) /\ job[k].activated)
         /\ ~Diverted' => \A k \in Jobs : k # j =>
              ~(Commanding(k) /\ job[k].activated /\ k \in overtaken)
BY CommandsAfter DEF Owing, Diverted

LEMMA QuietlyOwed ==
  ASSUME SInv, QInv, NEW j \in Jobs, Busy(j), NEW r,
         UNCHANGED <<deployment, status>>, Become(j, r, {}),
         GoesOn(j, r, deployment), r.kind = job[j].kind, r.activated = job[j].activated,
         j \notin overtaken /\ r.activated /\ r.step = "done" => InStep
  PROVE  QInv'
<1>1. /\ job'[j] = IF r.step \in {"done", "failed"} THEN Null ELSE r
      /\ owed' = (\/ owed \/ (r.step = "failed" /\ r.activated)
                  \/ j \in overtaken /\ r.step = "done")
  BY DEF Become
<1>2. Busy(j)' => job'[j] = r /\ r.step \notin {"done", "failed"}
  BY <1>1 DEF Busy
<1>3. r.step \notin {"done", "failed"} => Busy(j)' /\ job'[j] = r
  BY <1>1, SourceRefreshAssumption DEF GoesOn, Busy
<1>4. /\ j \in overtaken' <=> j \in overtaken /\ Relies(r)
      /\ \A k \in Jobs : k # j => (k \in overtaken' <=> k \in overtaken)
  BY CommandsAfter
<1>5. (\A k \in Jobs : Busy(k) => BoundOK(job[k]))'
  BY <1>2, OthersGoOn DEF GoesOn
<1>6. ASSUME NEW k \in Jobs, Commanding(k)', k \notin overtaken'
      PROVE  UpToDate(job'[k], deployment)
  <2>1. CASE k = j
    <3>1. /\ job'[j] = r /\ r.kind # "check" /\ BoundOK(r)
          /\ j \notin overtaken => UpToDate(r, deployment)
      BY <1>2, <1>6, <2>1 DEF Commanding, GoesOn
    <3>2. j \notin overtaken \/ ~Relies(r)
      BY <1>4, <1>6, <2>1
    <3> QED BY <2>1, <3>1, <3>2, UnreliantUpToDate
  <2>2. CASE k # j
    BY <1>4, <1>6, <2>2, OthersGoOn DEF Commanding
  <2> QED BY <2>1, <2>2
<1>7. ASSUME ~owed', ~Owing' PROVE InStep'
  <2>1. ~owed
    BY <1>1, <1>7
  <2>2. CASE Commanding(j) /\ job[j].activated
    <3>1. r.step \in {"done", "failed"}
      BY <1>3, <1>7, <2>2 DEF Commanding, Owing
    <3>2. r.step = "done" /\ j \notin overtaken
      BY <1>1, <1>7, <2>2, <3>1
    <3> QED BY <2>2, <3>2 DEF InStep
  <2>3. CASE ~(Commanding(j) /\ job[j].activated)
    <3>1. InStep
      BY <1>7, <2>1, <2>3, OwingAfter DEF QInv, Owing
    <3> QED BY <3>1 DEF InStep
  <2> QED BY <2>2, <2>3
<1>8. ASSUME ~owed', InStep', ~Diverted', NEW k \in Jobs, Busy(k)'
      PROVE  CheckOK(job'[k], deployment)
  <2>1. ~owed /\ InStep
    BY <1>1, <1>8 DEF InStep
  <2>2. ~(Commanding(j) /\ job[j].activated /\ j \in overtaken)
    <3> SUFFICES ASSUME Commanding(j), job[j].activated, j \in overtaken PROVE FALSE
      OBVIOUS
    <3>1. r.kind # "check" /\ r.activated
      BY DEF Commanding
    <3>2. r.step \notin {"done", "failed"}
      BY <1>1, <1>8, <3>1
    <3>3. j \in overtaken'
      BY <1>4, <3>1 DEF Relies
    <3> QED BY <1>3, <1>8, <3>1, <3>2, <3>3 DEF Commanding, Diverted
  <2>3. ~Diverted
    BY <1>8, <2>2, OwingAfter DEF Diverted
  <2>4. CASE k = j
    BY <1>2, <1>8, <2>4 DEF GoesOn
  <2>5. CASE k # j
    BY <1>8, <2>1, <2>3, <2>5, OthersGoOn
  <2> QED BY <2>4, <2>5
<1>9. (deployment.current.fallback.served = Release(deployment.current))'
  BY DEF QInv, Release
<1> QED BY <1>5, <1>6, <1>7, <1>8, <1>9 DEF QInv, Release, UpToDate, CheckOK

LEMMA QuietStepOwed ==
  ASSUME SInv, QInv, NEW j \in Jobs, Busy(j), NEW r, Steps(j, r),
         GoesOn(j, r, deployment), r.kind = job[j].kind, r.activated = job[j].activated,
         j \notin overtaken /\ r.activated /\ r.step = "done" => InStep
  PROVE  QInv'
BY QuietlyOwed DEF Steps

(* What a job is bound to, and what a command goes by.                     *)
LEMMA JobOwes ==
  ASSUME SInv, QInv, NEW j \in Jobs, Busy(j)
  PROVE  /\ JobOK(job[j]) /\ job[j] \in Progress /\ BoundOK(job[j])
         /\ job[j].kind # "check" /\ j \notin overtaken => UpToDate(job[j], deployment)
BY JobIsOK DEF QInv, Commanding

LEMMA StartedOwes ==
  ASSUME SInv, QInv, NEW j \in Jobs, ~Busy(j), NEW r \in Progress,
         job' = [job EXCEPT ![j] = r], UNCHANGED <<deployment, status, overtaken, owed>>,
         r.step \in {"read", "current"}, r.deployment = Unread, ~r.activated,
         r.kind = "promote" => r.release = ReleaseOf[r.candidate]
  PROVE  QInv'
<1>1. job'[j] = r /\ \A k \in Jobs : k # j => job'[k] = job[k]
  BY DEF SInv, TypeOK
<1>2. BoundOK(r) /\ UpToDate(r, deployment) /\ CheckOK(r, deployment)
  BY DEF BoundOK, UpToDate, CheckOK
<1>3. \A k \in Jobs : k # j => /\ Busy(k)' <=> Busy(k)
                               /\ Commanding(k)' <=> Commanding(k)
  BY <1>1 DEF Busy, Commanding
<1>4. ~Commanding(j)
  BY DEF Commanding
<1>5. (\A k \in Jobs : Busy(k) => BoundOK(job[k]))'
  BY <1>1, <1>2, <1>3 DEF QInv
<1>6. ASSUME NEW k \in Jobs, Commanding(k)', k \notin overtaken'
      PROVE  UpToDate(job'[k], deployment)
  <2>1. CASE k = j
    BY <1>1, <1>2, <2>1
  <2>2. CASE k # j
    BY <1>1, <1>3, <1>6, <2>2 DEF QInv
  <2> QED BY <2>1, <2>2
<1>7. ASSUME ~owed', ~Owing' PROVE InStep'
  <2>1. ~Owing
    BY <1>1, <1>3, <1>4, <1>7 DEF Owing
  <2>2. InStep
    BY <1>7, <2>1 DEF QInv
  <2> QED BY <2>2 DEF InStep
<1>8. ASSUME ~owed', InStep', ~Diverted', NEW k \in Jobs, Busy(k)'
      PROVE  CheckOK(job'[k], deployment)
  <2>1. ~owed /\ InStep
    BY <1>8 DEF InStep
  <2>2. ~Diverted
    BY <1>1, <1>3, <1>4, <1>8 DEF Diverted
  <2>3. CASE k = j
    BY <1>1, <1>2, <2>3
  <2>4. CASE k # j
    BY <1>1, <1>3, <1>8, <2>1, <2>2, <2>4 DEF QInv
  <2> QED BY <2>3, <2>4
<1>9. (deployment.current.fallback.served = Release(deployment.current))'
  BY DEF QInv, Release
<1> QED BY <1>5, <1>6, <1>7, <1>8, <1>9 DEF QInv, Release, UpToDate, CheckOK

LEMMA StartOwes ==
  ASSUME SInv, QInv, NEW j \in Jobs, Start(j)
  PROVE  QInv'
<1>1. PICK at \in Times, c \in Candidates :
        \E r \in {Command("refresh", ReleaseOf[c], Null, at),
                  Command("rollback", Null, Null, at),
                  Command("promote", ReleaseOf[c], c, at)} :
          job' = [job EXCEPT ![j] = r]
  BY DEF Start
<1>2. PICK r \in {Command("refresh", ReleaseOf[c], Null, at),
                  Command("rollback", Null, Null, at),
                  Command("promote", ReleaseOf[c], c, at)} :
          job' = [job EXCEPT ![j] = r]
  BY <1>1
<1>3. /\ r.step = "read" /\ r.deployment = Unread /\ ~r.activated /\ r.kind # "check"
      /\ r.kind = "promote" => r.release = ReleaseOf[r.candidate]
  BY <1>2 DEF Command
<1>4. r \in Progress
  <2>1. at \in Nat \ {0} /\ ReleaseOf[c] \in Nat
    BY SourceRefreshAssumption DEF Times
  <2>2. CASE r = Command("refresh", ReleaseOf[c], Null, at)
    BY <2>1, <2>2 DEF Command, Progress
  <2>3. CASE r = Command("rollback", Null, Null, at)
    BY <2>1, <2>3 DEF Command, Progress
  <2>4. CASE r = Command("promote", ReleaseOf[c], c, at)
    BY <2>1, <2>4 DEF Command, Progress
  <2> QED BY <1>2, <2>2, <2>3, <2>4
<1>5. UNCHANGED <<deployment, status, overtaken, owed>> /\ ~Busy(j)
  BY DEF Start
<1> QED BY <1>2, <1>3, <1>4, <1>5, StartedOwes

LEMMA StartCheckOwes ==
  ASSUME SInv, QInv, NEW j \in Jobs, NEW observed \in Releases, NEW at \in Times,
         StartCheck(j, observed, at)
  PROVE  QInv'
<1> DEFINE r == [Command("check", observed, Null, at) EXCEPT !.step = "current"]
<1>1. /\ job' = [job EXCEPT ![j] = r] /\ ~Busy(j)
      /\ UNCHANGED <<deployment, status, overtaken, owed>>
  BY DEF StartCheck
<1>2. /\ r.step = "current" /\ r.deployment = Unread /\ ~r.activated /\ r.kind = "check"
  BY DEF Command
<1>3. r \in Progress
  <2>1. at \in Nat \ {0} /\ observed \in Nat
    BY SourceRefreshAssumption DEF Times, Releases
  <2> QED BY <2>1 DEF Command, Progress
<1> HIDE DEF r
<1> QED BY <1>1, <1>2, <1>3, StartedOwes

LEMMA ReadOwes ==
  ASSUME SInv, QInv, NEW j \in Jobs, Read(j)
  PROVE  QInv'
<1> DEFINE r == job[j]
           u == [r EXCEPT !.deployment = deployment]
           v == [r EXCEPT !.status = status]
<1>1. Busy(j) /\ r.step \in {"read", "recheck", "delay"} /\ (Steps(j, u) \/ Steps(j, v))
  BY DEF Read
<1>2. /\ r \in Progress /\ BoundOK(r)
      /\ r.kind # "check" /\ j \notin overtaken => UpToDate(r, deployment)
  BY <1>1, JobOwes
<1>3. deployment \in Deployments /\ status \in Statuses \cup {Null}
  BY DEF SInv, TypeOK
<1>4. ASSUME NEW n, n \in {u, v}
      PROVE  /\ n \in Progress /\ n.step = r.step /\ n.kind = r.kind
             /\ n.release = r.release /\ n.candidate = r.candidate
             /\ n.activated = r.activated /\ n.deployment \in {r.deployment, deployment}
  <2> HIDE DEF r
  <2>1. /\ u \in Progress /\ u.step = r.step /\ u.kind = r.kind
        /\ u.release = r.release /\ u.candidate = r.candidate
        /\ u.activated = r.activated /\ u.deployment = deployment
    BY <1>2, <1>3 DEF Progress
  <2>2. /\ v \in Progress /\ v.step = r.step /\ v.kind = r.kind
        /\ v.release = r.release /\ v.candidate = r.candidate
        /\ v.activated = r.activated /\ v.deployment = r.deployment
    BY <1>2, <1>3 DEF Progress
  <2> HIDE DEF u, v
  <2> QED BY <1>4, <2>1, <2>2
<1> HIDE DEF u, v
<1>5. ASSUME NEW n, n \in {u, v} PROVE GoesOn(j, n, deployment)
  BY <1>1, <1>2, <1>4, <1>5 DEF GoesOn, BoundOK, UpToDate, CheckOK
<1>6. r.step # "done"
  BY <1>1
<1> QED BY <1>1, <1>4, <1>5, <1>6, QuietStepOwed

LEMMA RefreshOwes ==
  ASSUME SInv, QInv, NEW j \in Jobs, Refresh(j)
  PROVE  QInv'
<1> DEFINE r == job[j]
           d == r.deployment.current
           n == Rereads(r, "build")
           b == [n EXCEPT !.initial = d]
<1>1. /\ r \in Progress /\ d \in Pairings /\ r.status \in Statuses \cup {Null}
      /\ r.kind = "refresh" /\ r.step = "read" /\ r.deployment # Unread /\ Busy(j)
  BY HasReadThem DEF Refresh, HasRead, At
<1>2. ~r.activated /\ (j \notin overtaken => d = deployment.current)
  <2>1. BoundOK(r) /\ (j \notin overtaken => UpToDate(r, deployment))
    BY <1>1, JobOwes
  <2> QED BY <1>1, <2>1 DEF BoundOK, UpToDate
<1>3. \/ IsCompleted(d) /\ Steps(j, Reconciling(r, d, r.status))
      \/ Steps(j, Ended(r, "failed"))
      \/ Steps(j, b)
  BY DEF Refresh
<1>4. job[j] = r
  OBVIOUS
<1> HIDE DEF r, d
<1>5. ASSUME IsCompleted(d), Steps(j, Reconciling(r, d, r.status)) PROVE QInv'
  <2>1. Describes(j, d.fallback.served, deployment) /\ Describes(j, Release(d), deployment)
    BY <1>2, <1>5 DEF IsCompleted, Describes
  <2>2. LET m == Reconciling(r, d, r.status) IN
        GoesOn(j, m, deployment) /\ m.kind = r.kind /\ m.activated = r.activated
    BY <1>1, <1>2, <2>1, ReconcilingsGoOn
  <2> QED BY <1>1, <1>2, <1>4, <1>5, <2>2, QuietStepOwed
<1>6. ASSUME Steps(j, Ended(r, "failed")) PROVE QInv'
  BY <1>1, <1>2, <1>4, <1>6, EndingsGoOn, QuietStepOwed
<1>7. ASSUME Steps(j, b) PROVE QInv'
  <2>1. /\ n \in Progress /\ n.step = "build" /\ n.kind = r.kind
        /\ n.activated = r.activated /\ n.deployment = Unread
    BY <1>1, Rereadings
  <2> HIDE DEF n
  <2>2. /\ b \in Progress /\ b.step = "build" /\ b.kind = r.kind
        /\ b.activated = r.activated /\ b.deployment = Unread
    BY <1>1, <2>1 DEF Progress
  <2> HIDE DEF b
  <2>3. GoesOn(j, b, deployment)
    BY <1>1, <1>2, <2>2, RereadingsGoOn
  <2> QED BY <1>1, <1>2, <1>4, <1>7, <2>2, <2>3, QuietStepOwed
<1> QED BY <1>3, <1>5, <1>6, <1>7

LEMMA BuildOwes ==
  ASSUME SInv, QInv, NEW j \in Jobs, Build(j)
  PROVE  QInv'
<1> DEFINE r == job[j]
           n == Rereads(r, "recheck")
<1>1. /\ r \in Progress /\ BoundOK(r) /\ r.step = "build" /\ Busy(j)
      /\ \/ Steps(j, Failing(r))
         \/ \E c \in Candidates : Steps(j, [n EXCEPT !.candidate = c])
  BY JobOwes DEF Build, At
<1>2. ~r.activated /\ r.kind = "refresh"
  BY <1>1 DEF BoundOK
<1>3. job[j] = r
  OBVIOUS
<1> HIDE DEF r
<1>4. /\ n \in Progress /\ n.step = "recheck" /\ n.kind = r.kind
      /\ n.activated = r.activated /\ n.deployment = Unread
  BY <1>1, Rereadings
<1> HIDE DEF n
<1>5. ASSUME NEW c \in Candidates, Steps(j, [n EXCEPT !.candidate = c]) PROVE QInv'
  <2> DEFINE b == [n EXCEPT !.candidate = c]
  <2>1. /\ b \in Progress /\ b.step = "recheck" /\ b.kind = r.kind
        /\ b.activated = r.activated /\ b.deployment = Unread
    BY <1>4 DEF Progress
  <2>2. Steps(j, b)
    BY <1>5
  <2> HIDE DEF b
  <2>3. GoesOn(j, b, deployment)
    BY <1>2, <2>1 DEF GoesOn, BoundOK, UpToDate, CheckOK
  <2> QED BY <1>1, <1>2, <1>3, <2>1, <2>2, <2>3, QuietStepOwed
<1>6. ASSUME Steps(j, Failing(r)) PROVE QInv'
  BY <1>1, <1>2, <1>3, <1>6, FailingsGoOn, QuietStepOwed
<1> QED BY <1>1, <1>5, <1>6

LEMMA RecheckOwes ==
  ASSUME SInv, QInv, NEW j \in Jobs, Recheck(j)
  PROVE  QInv'
<1> DEFINE r == job[j]
           s == Completed(r.status, r.release, r.at)
           n == Rereads(r, "load")
           b == [n EXCEPT !.input = s]
<1>1. /\ JobOK(r) /\ r \in Progress /\ r.step = "recheck" /\ r.kind = "refresh" /\ Busy(j)
      /\ r.status \in Statuses \cup {Null} /\ r.at \in Nat
  BY HasReadThem DEF Recheck, HasRead, At
<1>2. ~r.activated
  BY <1>1, JobOwes DEF BoundOK
<1>3. \/ StillInitial(r) /\ Steps(j, b)
      \/ Steps(j, Failing(r))
  BY DEF Recheck
<1>4. job[j] = r
  OBVIOUS
<1> HIDE DEF r
<1>5. ASSUME StillInitial(r), Steps(j, b) PROVE QInv'
  <2>1. s \in Statuses /\ s.served = r.release
    <3>1. r.status \in Statuses /\ r.release \in Nat
      BY <1>1, <1>5 DEF StillInitial, JobOK
    <3>2. s \in Statuses
      BY <1>1, <3>1, DerivedStatuses
    <3> QED BY <3>2, DerivedServed
  <2> HIDE DEF s
  <2>2. /\ n \in Progress /\ n.step = "load" /\ n.kind = r.kind /\ n.release = r.release
        /\ n.activated = r.activated /\ n.deployment = Unread
    BY <1>1, Rereadings
  <2> HIDE DEF n
  <2>3. /\ b \in Progress /\ b.step = "load" /\ b.kind = r.kind /\ b.release = r.release
        /\ b.activated = r.activated /\ b.deployment = Unread /\ b.input = s
    BY <2>1, <2>2 DEF Progress
  <2> HIDE DEF b
  <2>4. GoesOn(j, b, deployment)
    BY <1>1, <1>2, <2>1, <2>3 DEF GoesOn, BoundOK, UpToDate, CheckOK
  <2> QED BY <1>1, <1>2, <1>4, <1>5, <2>3, <2>4, QuietStepOwed
<1>6. ASSUME Steps(j, Failing(r)) PROVE QInv'
  BY <1>1, <1>2, <1>4, <1>6, FailingsGoOn, QuietStepOwed
<1> QED BY <1>3, <1>5, <1>6

LEMMA DelayOwes ==
  ASSUME SInv, QInv, NEW j \in Jobs, Delay(j)
  PROVE  QInv'
<1> DEFINE r == job[j]
           s == Failed(r.status, r.release, r.at)
<1>1. /\ JobOK(r) /\ r \in Progress /\ r.step = "delay" /\ r.kind = "refresh" /\ Busy(j)
      /\ r.status \in Statuses \cup {Null} /\ r.at \in Nat /\ r.deployment # Unread
  BY HasReadThem DEF Delay, HasRead, At
<1>2. j \notin overtaken => r.deployment = deployment
  BY <1>1, JobOwes DEF UpToDate
<1>3. \/ StillInitial(r) /\ Steps(j, Publishing(r, s))
      \/ Steps(j, Ended(r, "failed"))
  BY DEF Delay
<1>4. job[j] = r
  OBVIOUS
<1> HIDE DEF r
<1>5. ASSUME StillInitial(r), Steps(j, Publishing(r, s)) PROVE QInv'
  <2>1. r.status \in Statuses /\ r.release \in Nat
    BY <1>1, <1>5 DEF StillInitial, JobOK
  <2>2. s \in Statuses /\ s.served = r.status.served
    <3>1. s \in Statuses
      BY <1>1, <2>1, DerivedStatuses
    <3> QED BY <3>1, DerivedServed
  <2>3. Describes(j, s.served, deployment)
    BY <1>2, <1>5, <2>2 DEF StillInitial, Describes
  <2> HIDE DEF s
  <2>4. LET m == Publishing(r, s) IN
        /\ GoesOn(j, m, deployment) /\ m.kind = r.kind /\ m.activated = r.activated
        /\ m.step = "publish"
    BY <1>1, <2>2, <2>3, PublishingsGoOn
  <2> QED BY <1>1, <1>4, <1>5, <2>4, QuietStepOwed
<1>6. ASSUME Steps(j, Ended(r, "failed")) PROVE QInv'
  BY <1>1, <1>4, <1>6, EndingsGoOn, QuietStepOwed
<1> QED BY <1>3, <1>5, <1>6

LEMMA AfterPromotionOwes ==
  ASSUME SInv, QInv, NEW j \in Jobs, AfterPromotion(j)
  PROVE  QInv'
<1> DEFINE r == job[j]
           s == Completed(status, r.release, r.at)
<1>1. /\ JobOK(r) /\ r \in Progress /\ r.step = "promoted" /\ Busy(j)
      /\ status \in Statuses \cup {Null}
  BY JobOwes DEF AfterPromotion, At, SInv, TypeOK
<1>2. r.kind = "refresh" /\ r.release \in Nat /\ r.at \in Nat
  BY <1>1 DEF JobOK, Progress
<1>3. j \notin overtaken => r.release = Release(deployment.current)
  BY <1>1, <1>2, JobOwes DEF UpToDate
<1>4. \/ status # Null /\ Steps(j, Publishing(r, s))
      \/ Steps(j, Ended(r, "failed"))
  BY DEF AfterPromotion
<1>5. job[j] = r
  OBVIOUS
<1> HIDE DEF r
<1>6. ASSUME status # Null, Steps(j, Publishing(r, s)) PROVE QInv'
  <2>1. s \in Statuses /\ Describes(j, s.served, deployment)
    <3>1. s \in Statuses
      BY <1>1, <1>2, <1>6, DerivedStatuses
    <3> QED BY <1>3, <3>1, DerivedServed DEF Describes
  <2> HIDE DEF s
  <2>2. LET m == Publishing(r, s) IN
        /\ GoesOn(j, m, deployment) /\ m.kind = r.kind /\ m.activated = r.activated
        /\ m.step = "publish"
    BY <1>1, <1>2, <1>3, <2>1, PublishingsGoOn
  <2> QED BY <1>1, <1>5, <1>6, <2>2, QuietStepOwed
<1>7. ASSUME Steps(j, Ended(r, "failed")) PROVE QInv'
  BY <1>1, <1>5, <1>7, EndingsGoOn, QuietStepOwed
<1> QED BY <1>4, <1>6, <1>7

LEMMA RollbackOwes ==
  ASSUME SInv, QInv, NEW j \in Jobs, Rollback(j)
  PROVE  QInv'
<1> DEFINE r == job[j]
           d == r.deployment.current
           b == [r EXCEPT !.step = "load", !.initial = d, !.deployment = Unread]
<1>1. /\ r \in Progress /\ d \in Pairings /\ r.status \in Statuses \cup {Null}
      /\ r.step = "read" /\ r.kind = "rollback" /\ r.deployment # Unread /\ Busy(j)
  BY HasReadThem DEF Rollback, HasRead, At
<1>2. ~r.activated /\ (j \notin overtaken => d = deployment.current)
  <2>1. BoundOK(r) /\ (j \notin overtaken => UpToDate(r, deployment))
    BY <1>1, JobOwes
  <2> QED BY <1>1, <2>1 DEF BoundOK, UpToDate
<1>3. Describes(j, d.fallback.served, deployment) /\ Describes(j, Release(d), deployment)
  BY <1>2 DEF QInv, Describes
<1>4. \/ Steps(j, Reconciling(r, d, r.status))
      \/ r.status.served = Release(d) /\ Steps(j, b)
      \/ Steps(j, Ended(r, "failed"))
  BY DEF Rollback
<1>5. job[j] = r
  OBVIOUS
<1> HIDE DEF r, d
<1>6. ASSUME Steps(j, Reconciling(r, d, r.status)) PROVE QInv'
  <2>1. LET m == Reconciling(r, d, r.status) IN
        GoesOn(j, m, deployment) /\ m.kind = r.kind /\ m.activated = r.activated
    BY <1>1, <1>3, ReconcilingsGoOn
  <2> QED BY <1>1, <1>2, <1>5, <1>6, <2>1, QuietStepOwed
<1>7. ASSUME r.status.served = Release(d), Steps(j, b) PROVE QInv'
  <2>1. /\ b \in Progress /\ b.step = "load" /\ b.kind = r.kind /\ b.status = r.status
        /\ b.initial = d /\ b.activated = r.activated /\ b.deployment = Unread
    BY <1>1 DEF Progress
  <2> HIDE DEF b
  <2>2. GoesOn(j, b, deployment)
    BY <1>1, <1>2, <1>7, <2>1 DEF GoesOn, BoundOK, UpToDate, CheckOK
  <2> QED BY <1>1, <1>2, <1>5, <1>7, <2>1, <2>2, QuietStepOwed
<1>8. ASSUME Steps(j, Ended(r, "failed")) PROVE QInv'
  BY <1>1, <1>2, <1>5, <1>8, EndingsGoOn, QuietStepOwed
<1> QED BY <1>4, <1>6, <1>7, <1>8

LEMMA PromoteOwes ==
  ASSUME SInv, QInv, NEW j \in Jobs, Promote(j)
  PROVE  QInv'
<1> DEFINE r == job[j]
           d == r.deployment.current
           input == IF r.status = Null THEN First(r.release, 1, r.at)
                    ELSE Promoted(r.status, r.release, r.at)
           n == Rereads(r, "load")
           b == [n EXCEPT !.input = input, !.initial = d]
<1>1. /\ JobOK(r) /\ r \in Progress /\ d \in Pairings /\ r.status \in Statuses \cup {Null}
      /\ r.step = "read" /\ r.kind = "promote" /\ r.deployment # Unread /\ Busy(j)
      /\ r.at \in Nat
  BY HasReadThem DEF Promote, HasRead, At
<1>2. /\ ~r.activated /\ (j \notin overtaken => d = deployment.current)
      /\ r.release = ReleaseOf[r.candidate]
  <2>1. BoundOK(r) /\ (j \notin overtaken => UpToDate(r, deployment))
    BY <1>1, JobOwes
  <2> QED BY <1>1, <2>1 DEF BoundOK, UpToDate
<1>3. Steps(j, b) \/ Steps(j, Ended(r, "failed"))
  BY DEF Promote
<1>4. job[j] = r
  OBVIOUS
<1> HIDE DEF r, d
<1>5. input \in Statuses /\ input.served = r.release
  <2>1. r.release \in Nat
    BY <1>1 DEF JobOK
  <2>2. First(r.release, 1, r.at) \in Statuses
    BY <1>1, <2>1, StatusIsStatus DEF First, Never
  <2>3. r.status # Null => Promoted(r.status, r.release, r.at) \in Statuses
    BY <1>1, <2>1, DerivedStatuses
  <2> QED BY <2>2, <2>3, DerivedServed
<1> HIDE DEF input
<1>6. /\ n \in Progress /\ n.step = "load" /\ n.kind = r.kind /\ n.release = r.release
      /\ n.candidate = r.candidate /\ n.activated = r.activated /\ n.deployment = Unread
  BY <1>1, Rereadings
<1> HIDE DEF n
<1>7. /\ b \in Progress /\ b.step = "load" /\ b.kind = r.kind /\ b.release = r.release
      /\ b.candidate = r.candidate /\ b.activated = r.activated /\ b.deployment = Unread
      /\ b.input = input /\ b.initial = d
  <2>1. b \in Progress
    <3>1. n \in Progress /\ input \in Statuses /\ d \in Pairings
      BY <1>1, <1>5, <1>6
    <3> HIDE DEF d
    <3>2. [n EXCEPT !.input = input] \in Progress
      BY <3>1 DEF Progress
    <3>3. [[n EXCEPT !.input = input] EXCEPT !.initial = d] \in Progress
      BY <3>1, <3>2 DEF Progress
    <3> QED BY <3>3
  <2>2. /\ b.step = "load" /\ b.kind = r.kind /\ b.release = r.release
        /\ b.candidate = r.candidate /\ b.activated = r.activated
        /\ b.deployment = Unread /\ b.input = input /\ b.initial = d
    BY <1>1, <1>5, <1>6 DEF Progress
  <2> QED BY <2>1, <2>2
<1> HIDE DEF b
<1>8. GoesOn(j, b, deployment)
  BY <1>1, <1>2, <1>5, <1>7 DEF GoesOn, BoundOK, UpToDate, CheckOK
<1>9. ASSUME Steps(j, b) PROVE QInv'
  BY <1>1, <1>2, <1>4, <1>7, <1>8, <1>9, QuietStepOwed
<1>10. ASSUME Steps(j, Ended(r, "failed")) PROVE QInv'
  BY <1>1, <1>2, <1>4, <1>10, EndingsGoOn, QuietStepOwed
<1> QED BY <1>3, <1>9, <1>10

LEMMA LoadPromotionOwes ==
  ASSUME SInv, QInv, NEW j \in Jobs, LoadPromotion(j)
  PROVE  QInv'
<1> DEFINE r == job[j]
           b == [r EXCEPT !.step = "activate", !.deployment = deployment, !.fresh = TRUE]
<1>1. /\ JobOK(r) /\ r \in Progress /\ r.step = "load" /\ r.kind # "rollback" /\ Busy(j)
      /\ BoundOK(r) /\ (r.kind # "check" /\ j \notin overtaken => UpToDate(r, deployment))
      /\ deployment \in Deployments
  BY JobOwes DEF LoadPromotion, At, SInv, TypeOK
<1>2. r.kind \in {"refresh", "promote"} /\ r.input \in Statuses /\ ~r.activated
      /\ r.input.served = r.release
  BY <1>1 DEF JobOK, BoundOK, Progress
<1>3. \/ Steps(j, Failing(r))
      \/ Steps(j, Ended(r, "done"))
      \/ Expected(r) /\ Matches(r) /\ Steps(j, Publishing(r, r.input))
      \/ Expected(r) /\ Steps(j, b)
  BY DEF LoadPromotion
<1>4. Expected(r) => r.release = ReleaseOf[r.candidate]
  BY <1>1, <1>2 DEF Expected, BoundOK
<1>5. job[j] = r
  OBVIOUS
<1> HIDE DEF r
<1>6. ASSUME Steps(j, Failing(r)) PROVE QInv'
  BY <1>1, <1>2, <1>5, <1>6, FailingsGoOn, QuietStepOwed
<1>7. ASSUME Steps(j, Ended(r, "done")) PROVE QInv'
  BY <1>1, <1>2, <1>5, <1>7, EndingsGoOn, QuietStepOwed
<1>8. ASSUME Expected(r), Matches(r), Steps(j, Publishing(r, r.input)) PROVE QInv'
  <2>1. Describes(j, r.input.served, deployment)
    BY <1>2, <1>4, <1>8 DEF Matches, Release, Describes
  <2>2. LET m == Publishing(r, r.input) IN
        GoesOn(j, m, deployment) /\ m.kind = r.kind /\ m.activated = r.activated
    BY <1>1, <1>2, <1>4, <1>8, <2>1, PublishingsGoOn
  <2> QED BY <1>1, <1>2, <1>5, <1>8, <2>2, QuietStepOwed
<1>9. ASSUME Expected(r), Steps(j, b) PROVE QInv'
  <2>1. /\ b \in Progress /\ b.step = "activate" /\ b.kind = r.kind /\ b.release = r.release
        /\ b.candidate = r.candidate /\ b.deployment = deployment /\ b.initial = r.initial
        /\ b.input = r.input /\ b.activated = r.activated
    BY <1>1 DEF Progress
  <2> HIDE DEF b
  <2>2. BoundOK(b)
    BY <1>2, <1>4, <1>9, <2>1 DEF BoundOK
  <2>3. j \notin overtaken => UpToDate(b, deployment)
    BY <1>1, <1>2, <2>1 DEF UpToDate
  <2>4. GoesOn(j, b, deployment)
    BY <2>1, <2>2, <2>3 DEF GoesOn, CheckOK
  <2> QED BY <1>1, <1>2, <1>5, <1>9, <2>1, <2>4, QuietStepOwed
<1> QED BY <1>3, <1>6, <1>7, <1>8, <1>9

LEMMA LoadRollbackOwes ==
  ASSUME SInv, QInv, NEW j \in Jobs, LoadRollback(j)
  PROVE  QInv'
<1> DEFINE r == job[j]
           previous == Head(deployment.history)
           candidate == previous.candidate
           input == RolledBack(r.status, Release(previous), r.at)
           b == [r EXCEPT !.step = "activate", !.deployment = deployment,
                          !.candidate = previous.candidate, !.input = input,
                          !.fresh = TRUE]
<1>1. /\ JobOK(r) /\ r \in Progress /\ r.step = "load" /\ r.kind = "rollback" /\ Busy(j)
      /\ BoundOK(r) /\ deployment \in Deployments
  BY JobOwes DEF LoadRollback, At, SInv, TypeOK
<1>2. /\ r.status \in Statuses /\ r.at \in Nat /\ ~r.activated
      /\ r.status.served = Release(r.initial)
  BY <1>1 DEF JobOK, BoundOK, Progress
<1>3. Steps(j, Failing(r)) \/ (Restorable(r) /\ Steps(j, b))
  BY DEF LoadRollback
<1>4. input.served = ReleaseOf[candidate]
  BY DerivedServed DEF Release
<1>5. job[j] = r
  OBVIOUS
<1>6. ASSUME Restorable(r), Steps(j, b) PROVE QInv'
  <2>1. previous \in Pairings
    BY <1>1, <1>6 DEF Restorable, Deployments
  <2>2. candidate \in Candidates /\ Release(previous) \in Nat
    BY <2>1, ReleaseIsNumber DEF Pairings
  <2>3. input \in Statuses
    BY <1>2, <2>2, DerivedStatuses
  <2> DEFINE u == [r EXCEPT !.step = "activate", !.deployment = deployment]
  <2>4. b = [u EXCEPT !.candidate = candidate, !.input = input, !.fresh = TRUE]
    OBVIOUS
  <2> HIDE DEF r, input, candidate
  <2>5. /\ u \in Progress /\ u.step = "activate" /\ u.kind = r.kind /\ u.status = r.status
        /\ u.initial = r.initial /\ u.deployment = deployment /\ u.activated = r.activated
    BY <1>1 DEF Progress
  <2> HIDE DEF u, b
  <2>6. /\ b \in Progress /\ b.step = u.step /\ b.kind = u.kind /\ b.status = u.status
        /\ b.initial = u.initial /\ b.deployment = u.deployment
        /\ b.activated = u.activated /\ b.candidate = candidate /\ b.input = input
    BY <2>2, <2>3, <2>4, <2>5 DEF Progress
  <2>7. BoundOK(b)
    BY <1>1, <1>2, <1>4, <2>5, <2>6 DEF BoundOK
  <2>8. GoesOn(j, b, deployment)
    BY <1>1, <2>5, <2>6, <2>7 DEF GoesOn, CheckOK, UpToDate
  <2> QED BY <1>1, <1>2, <1>5, <1>6, <2>5, <2>6, <2>8, QuietStepOwed
<1> HIDE DEF r
<1>7. ASSUME Steps(j, Failing(r)) PROVE QInv'
  BY <1>1, <1>2, <1>5, <1>7, FailingsGoOn, QuietStepOwed
<1> QED BY <1>3, <1>6, <1>7

LEMMA PublishOwes ==
  ASSUME SInv, KInv, QInv, NEW j \in Jobs, Publish(j)
  PROVE  QInv'
<1> DEFINE r == job[j]
           b == [Prepared(r, r.input, status) EXCEPT !.fresh = TRUE]
<1>1. /\ KnowsOK(r) /\ JobOK(r) /\ r \in Progress /\ BoundOK(r) /\ Busy(j)
      /\ r.step = "publish" /\ Steps(j, b)
      /\ r.kind # "check" /\ j \notin overtaken => UpToDate(r, deployment)
  BY JobKnows, JobOwes DEF Publish, At
<1>2. job[j] = r
  OBVIOUS
<1> HIDE DEF r
<1>3. r.kind # "check" /\ r.input \in Statuses
  BY <1>1 DEF JobOK, KnowsOK
<1>4. Describes(j, r.input.served, deployment)
  BY <1>1, <1>3 DEF UpToDate, Describes
<1>5. /\ GoesOn(j, b, deployment) /\ b.kind = r.kind /\ b.activated = r.activated
      /\ b.step = "done" => status = r.input
  <2> DEFINE input == r.input
             on == TRUE
             n == [Prepared(r, input, status) EXCEPT !.fresh = on]
  <2>1. /\ r \in Progress /\ input \in Statuses /\ on \in BOOLEAN
        /\ r.activated => r.kind # "check"
        /\ r.kind = "promote" => r.release = ReleaseOf[r.candidate]
        /\ r.kind = "check" => input.served = Release(deployment.current)
        /\ Describes(j, input.served, deployment)
    BY <1>1, <1>3, <1>4 DEF BoundOK
  <2> HIDE DEF input, on
  <2>2. /\ GoesOn(j, n, deployment) /\ n.kind = r.kind /\ n.activated = r.activated
        /\ n.step = "done" => status = input
    BY <2>1, PreparationsGoOn
  <2> QED BY <2>2 DEF input, on
<1> HIDE DEF b
<1>6. j \notin overtaken /\ b.step = "done" => InStep
  BY <1>3, <1>4, <1>5, SourceRefreshAssumption DEF InStep, Describes
<1> QED BY <1>1, <1>2, <1>5, <1>6, QuietStepOwed

LEMMA LoadStatusOwes ==
  ASSUME SInv, QInv, NEW j \in Jobs, LoadStatus(j)
  PROVE  QInv'
<1> DEFINE r == job[j]
           b == [r EXCEPT !.step = "compare", !.status = status, !.fresh = TRUE]
<1>1. /\ JobOK(r) /\ r \in Progress /\ BoundOK(r) /\ r.step = "current" /\ Busy(j)
      /\ Steps(j, b) /\ status \in Statuses \cup {Null}
  BY JobOwes DEF LoadStatus, At, SInv, TypeOK
<1>2. r.kind = "check" /\ ~r.activated
  BY <1>1 DEF JobOK, BoundOK
<1>3. job[j] = r
  OBVIOUS
<1> HIDE DEF r
<1>4. b \in Progress /\ b.step = "compare" /\ b.kind = r.kind /\ b.activated = r.activated
  <2>1. b \in Progress
    BY <1>1 DEF Progress
  <2>2. /\ b.step = "compare" /\ b.kind = r.kind /\ b.activated = r.activated
    BY <1>1 DEF Progress
  <2> QED BY <2>1, <2>2
<1> HIDE DEF b
<1>5. GoesOn(j, b, deployment)
  BY <1>2, <1>4 DEF GoesOn, BoundOK, CheckOK
<1> QED BY <1>1, <1>2, <1>3, <1>4, <1>5, QuietStepOwed

LEMMA CompareOwes ==
  ASSUME SInv, QInv, NEW j \in Jobs, Compare(j)
  PROVE  QInv'
<1> DEFINE r == job[j]
           s == r.status
           served == Release(deployment.current)
           baseline == IF s # Null /\ s.served = served THEN s
                       ELSE deployment.current.fallback
           c == Checked(baseline, served, r.release, r.at)
           m == Prepared(r, c, s)
           fresh == r.fresh
           b == [m EXCEPT !.fresh = fresh]
<1>1. /\ JobOK(r) /\ r \in Progress /\ r.step = "compare" /\ BoundOK(r) /\ Busy(j)
  BY JobOwes DEF Compare, At
<1>2. /\ r.kind = "check" /\ r.release \in Nat /\ s \in Statuses \cup {Null}
      /\ r.at \in Nat /\ fresh \in BOOLEAN /\ ~r.activated
  BY <1>1 DEF JobOK, BoundOK, Progress
<1>3. Steps(j, Ended(r, "failed")) \/ Steps(j, m)
  BY DEF Compare
<1>4. served \in Nat /\ deployment.current.fallback \in Statuses
  BY CurrentIsPairing, ReleaseIsNumber
<1>5. baseline \in Statuses
  BY <1>2, <1>4
<1>6. job[j] = r
  OBVIOUS
<1> HIDE DEF s, baseline
<1>7. c \in Statuses /\ c.served = Release(deployment.current)
  <2>1. c \in Statuses
    BY <1>2, <1>4, <1>5, DerivedStatuses
  <2> QED BY <2>1, DerivedFields
<1> HIDE DEF c, r
<1>8. m \in Progress /\ m.fresh = fresh
  <2> DEFINE n == Rereads(r, "swap")
             e == Ended(r, "failed")
             g == Ended(r, "done")
  <2>1. n \in Progress /\ n.fresh = fresh
    BY <1>1, Rereadings
  <2>2. e \in Progress /\ e.fresh = fresh /\ g \in Progress /\ g.fresh = fresh
    BY <1>1 DEF Ended, Progress
  <2>3. m \in {e, g, [n EXCEPT !.input = c]}
    BY DEF Prepared
  <2> HIDE DEF n, e, g
  <2>4. [n EXCEPT !.input = c] \in Progress /\ [n EXCEPT !.input = c].fresh = n.fresh
    BY <1>7, <2>1 DEF Progress
  <2> QED BY <2>1, <2>2, <2>3, <2>4
<1>9. GoesOn(j, b, deployment) /\ b.kind = r.kind /\ b.activated = r.activated
  <2>1. /\ r.activated => r.kind # "check"
        /\ r.kind = "promote" => r.release = ReleaseOf[r.candidate]
        /\ Describes(j, c.served, deployment)
        /\ r.kind = "check" => c.served = Release(deployment.current)
    BY <1>2, <1>7 DEF Describes
  <2> HIDE DEF fresh, served
  <2>2. LET n == [Prepared(r, c, s) EXCEPT !.fresh = fresh] IN
        GoesOn(j, n, deployment) /\ n.kind = r.kind /\ n.activated = r.activated
    <3>1. r \in Progress /\ c \in Statuses /\ fresh \in BOOLEAN
      BY <1>1, <1>2, <1>7
    <3> DEFINE d == deployment
    <3>2. PICK on \in BOOLEAN : fresh = on
      BY <3>1
    <3>3. /\ r \in Progress /\ c \in Statuses /\ on \in BOOLEAN
          /\ r.activated => r.kind # "check"
          /\ r.kind = "promote" => r.release = ReleaseOf[r.candidate]
          /\ r.kind = "check" => c.served = Release(d.current)
          /\ Describes(j, c.served, d)
      BY <2>1, <3>1
    <3> HIDE DEF d
    <3>4. LET n == [Prepared(r, c, s) EXCEPT !.fresh = on] IN
          GoesOn(j, n, d) /\ n.kind = r.kind /\ n.activated = r.activated
      BY <3>3, PreparationsGoOn
    <3> QED BY <3>2, <3>4 DEF d
  <2> QED BY <2>2
<1> HIDE DEF m
<1>10. b = m
  BY <1>8 DEF Progress
<1> HIDE DEF b
<1>11. ASSUME Steps(j, m) PROVE QInv'
  BY <1>1, <1>2, <1>6, <1>9, <1>10, <1>11, QuietStepOwed
<1>12. ASSUME Steps(j, Ended(r, "failed")) PROVE QInv'
  BY <1>1, <1>2, <1>6, <1>12, EndingsGoOn, QuietStepOwed
<1> QED BY <1>3, <1>11, <1>12

LEMMA DieOwes ==
  ASSUME SInv, QInv, NEW j \in Jobs, Die(j)
  PROVE  QInv'
<1> DEFINE r == job[j]
           n == Ended(r, "failed")
<1>1. /\ r \in Progress /\ Busy(j) /\ UNCHANGED <<deployment, status>>
      /\ Become(j, n, {})
  BY JobIsOK DEF Die, Commanding
<1>2. /\ GoesOn(j, n, deployment) /\ n.kind = r.kind /\ n.activated = r.activated
      /\ n.step = "failed"
  BY <1>1, EndingsGoOn
<1> HIDE DEF n
<1> QED BY <1>1, <1>2, QuietlyOwed

-----------------------------------------------------------------------------
(* The two swaps.                                                          *)

(* The deployment pointer swapped by a command that then goes on as n.     *)
LEMMA DeploymentSwapOwes ==
  ASSUME SInv, QInv, NEW j \in Jobs, At(j, "activate"), NEW n,
         UNCHANGED status, Become(j, n, HoldsDeployment),
         deployment'.current.fallback.served = Release(deployment'.current),
         GoesOn(j, n, deployment'), n.kind # "check", n.activated,
         j \notin overtaken /\ ~owed /\ ~Owing /\ n.step = "done" => InStep'
  PROVE  QInv'
<1>1. /\ job'[j] = IF n.step \in {"done", "failed"} THEN Null ELSE n
      /\ owed' = (\/ owed \/ (n.step = "failed" /\ n.activated)
                  \/ j \in overtaken /\ n.step = "done")
  BY DEF Become
<1>2. Busy(j)' => job'[j] = n /\ n.step \notin {"done", "failed"}
  BY <1>1 DEF Busy
<1>3. ~job[j].activated
  BY JobOwes DEF At, BoundOK
<1>4. /\ j \in overtaken' <=> j \in overtaken /\ Relies(n)
      /\ \A k \in Jobs : k # j =>
           (k \in overtaken' <=> \/ k \in overtaken
                                 \/ deployment' # deployment /\ Busy(k) /\ Relies(job[k]))
  BY CommandsAfter
<1>5. (\A k \in Jobs : Busy(k) => BoundOK(job[k]))'
  BY <1>2, OthersGoOn DEF GoesOn
<1>6. ASSUME NEW k \in Jobs, Commanding(k)', k \notin overtaken'
      PROVE  UpToDate(job'[k], deployment')
  <2>1. CASE k = j
    <3>1. /\ job'[j] = n /\ BoundOK(n)
          /\ j \notin overtaken => UpToDate(n, deployment')
      BY <1>2, <1>6, <2>1 DEF Commanding, GoesOn
    <3>2. j \notin overtaken \/ ~Relies(n)
      BY <1>4, <1>6, <2>1
    <3> QED BY <2>1, <3>1, <3>2, UnreliantUpToDate
  <2>2. CASE k # j /\ deployment' = deployment
    BY <1>4, <1>6, <2>2, OthersGoOn DEF Commanding
  <2>3. CASE k # j /\ deployment' # deployment
    <3>1. Busy(k) /\ Busy(k)' /\ job'[k].kind # "check"
      BY <1>6, <2>3, CommandsAfter DEF Commanding
    <3>2. ~Relies(job'[k]) /\ BoundOK(job'[k])
      BY <1>4, <1>6, <2>3, <3>1, OthersGoOn
    <3> QED BY <3>1, <3>2, UnreliantUpToDate
  <2> QED BY <2>1, <2>2, <2>3
<1>7. ASSUME ~owed', ~Owing' PROVE InStep'
  <2>1. ~owed /\ n.step # "failed"
    BY <1>1, <1>7
  <2>2. n.step = "done"
    <3> SUFFICES ASSUME n.step # "done" PROVE FALSE
      OBVIOUS
    <3>1. job'[j] = n /\ n # Null
      BY <1>1, <2>1, SourceRefreshAssumption DEF GoesOn
    <3> QED BY <1>7, <3>1 DEF Owing, Commanding, Busy
  <2>3. j \notin overtaken
    BY <1>1, <1>7, <2>2
  <2>4. ~Owing
    BY <1>3, <1>7, OwingAfter DEF Owing
  <2> QED BY <2>1, <2>2, <2>3, <2>4
<1>8. ASSUME ~owed', InStep', ~Diverted', NEW k \in Jobs, Busy(k)'
      PROVE  CheckOK(job'[k], deployment')
  <2>1. ~owed
    BY <1>1, <1>8
  <2>2. ~Diverted
    BY <1>3, <1>8, OwingAfter DEF Diverted
  <2>3. InStep
    <3>1. CASE deployment' = deployment
      BY <1>8, <3>1 DEF InStep
    <3>2. CASE deployment' # deployment
      <4> SUFFICES ASSUME Owing PROVE FALSE
        BY <2>1 DEF QInv
      <4>1. PICK i \in Jobs : Commanding(i) /\ job[i].activated
        BY DEF Owing
      <4>2. i # j /\ Relies(job[i]) /\ Busy(i)
        BY <1>3, <4>1 DEF Relies, Commanding
      <4>3. i \in overtaken'
        BY <1>4, <3>2, <4>2
      <4>4. Commanding(i)' /\ job'[i].activated
        BY <4>1, <4>2, CommandsAfter
      <4> QED BY <1>8, <4>3, <4>4 DEF Diverted
    <3> QED BY <3>1, <3>2
  <2>4. Release(deployment'.current) = Release(deployment.current)
    BY <1>8, <2>3 DEF InStep, Release
  <2>5. CASE k = j
    BY <1>2, <1>8, <2>5 DEF GoesOn
  <2>6. CASE k # j
    <3>1. CheckOK(job'[k], deployment)
      BY <1>8, <2>1, <2>2, <2>3, <2>6, OthersGoOn
    <3> QED BY <2>4, <3>1 DEF CheckOK
  <2> QED BY <2>5, <2>6
<1> QED BY <1>5, <1>6, <1>7, <1>8 DEF QInv, Release, UpToDate, CheckOK

LEMMA ActivateOwes ==
  ASSUME SInv, QInv, NEW j \in Jobs, Activate(j)
  PROVE  QInv'
<1> DEFINE r == job[j]
           u == [r EXCEPT !.fresh = FALSE]
           v == [r EXCEPT !.activated = TRUE, !.fresh = FALSE]
           p == [candidate |-> r.candidate, fallback |-> r.input]
<1>1. /\ JobOK(r) /\ r \in Progress /\ r.step = "activate" /\ BoundOK(r) /\ Busy(j)
      /\ At(j, "activate")
      /\ r.kind # "check" /\ j \notin overtaken => UpToDate(r, deployment)
  BY JobOwes DEF Activate, At
<1>2. /\ r.kind \in {"refresh", "rollback", "promote"} /\ r.input \in Statuses
      /\ r.candidate \in Candidates /\ ~r.activated /\ r.input.served = ReleaseOf[r.candidate]
      /\ r.kind = "rollback" => r.status \in Statuses
  BY <1>1 DEF JobOK, BoundOK, Progress
<1>3. \/ Steps(j, Failing(u))
      \/ /\ deployment'.current = p /\ UNCHANGED status /\ r.deployment = deployment
         /\ \/ Become(j, AfterActivation(r, p), HoldsDeployment)
            \/ Become(j, Failing(v), HoldsDeployment)
  BY <1>1 DEF Activate, HasCurrentVersion, Activated, SInv, FreshOK
<1>4. job[j] = r
  OBVIOUS
<1> HIDE DEF r
<1>5. /\ p \in Pairings /\ p.fallback = r.input /\ p.candidate = r.candidate
      /\ p.fallback.served = Release(p) /\ Release(p) = ReleaseOf[r.candidate]
  BY <1>2 DEF Pairings, Release
<1> HIDE DEF p
<1>6. u \in Progress /\ u.kind = r.kind /\ u.activated = r.activated
  BY <1>1 DEF Progress
<1>7. /\ v \in Progress /\ v.step = r.step /\ v.kind = r.kind /\ v.release = r.release
      /\ v.candidate = r.candidate /\ v.activated = TRUE
  <2>1. v \in Progress
    BY <1>1 DEF Progress
  <2>2. /\ v.step = r.step /\ v.kind = r.kind /\ v.release = r.release
        /\ v.candidate = r.candidate /\ v.activated = TRUE
    BY <1>1 DEF Progress
  <2> QED BY <2>1, <2>2
<1>8. AfterActivation(r, p) =
        IF r.kind = "refresh" THEN Rereads(v, "promoted")
        ELSE IF r.kind = "rollback" THEN Reconciling(v, p, r.status)
        ELSE IF r.initial = p THEN Ended(v, "done")
        ELSE Publishing(v, r.input)
  BY DEF AfterActivation
<1> HIDE DEF u, v
<1>9. ASSUME Steps(j, Failing(u)) PROVE QInv'
  BY <1>1, <1>2, <1>4, <1>6, <1>9, FailingsGoOn, QuietStepOwed
<1>10. ASSUME deployment'.current = p, UNCHANGED status,
              NEW n, Become(j, n, HoldsDeployment), GoesOn(j, n, deployment'),
              n.kind = r.kind, n.activated = TRUE,
              j \notin overtaken /\ ~owed /\ ~Owing /\ n.step = "done" => InStep'
       PROVE  QInv'
  <2>1. deployment'.current.fallback.served = Release(deployment'.current)
    BY <1>5, <1>10
  <2> QED BY <1>1, <1>2, <1>10, <2>1, DeploymentSwapOwes
<1>11. ASSUME deployment'.current = p PROVE
         LET n == Failing(v) IN
         /\ GoesOn(j, n, deployment') /\ n.kind = r.kind /\ n.activated = TRUE
         /\ n.step # "done"
  BY <1>7, FailingsGoOn
<1>12. ASSUME deployment'.current = p, UNCHANGED status, r.deployment = deployment PROVE
         LET n == AfterActivation(r, p) IN
         /\ GoesOn(j, n, deployment') /\ n.kind = r.kind /\ n.activated = TRUE
         /\ j \notin overtaken /\ ~owed /\ ~Owing /\ n.step = "done" => InStep'
  <2>1. CASE r.kind = "refresh"
    <3> DEFINE n == Rereads(v, "promoted")
    <3>1. /\ n \in Progress /\ n.step = "promoted" /\ n.kind = r.kind
          /\ n.release = r.release /\ n.activated = TRUE /\ n.deployment = Unread
      BY <1>7, Rereadings
    <3>2. AfterActivation(r, p) = n
      BY <1>8, <2>1
    <3> HIDE DEF n
    <3>3. r.release = Release(p)
      BY <1>1, <1>5, <2>1 DEF BoundOK
    <3>4. GoesOn(j, n, deployment')
      BY <1>12, <2>1, <3>1, <3>3 DEF GoesOn, BoundOK, UpToDate, CheckOK
    <3> QED BY <3>1, <3>2, <3>4
  <2>2. CASE r.kind = "rollback"
    <3> DEFINE n == Reconciling(v, p, r.status)
               d == deployment'
    <3>1. AfterActivation(r, p) = n
      BY <1>8, <2>2
    <3>2. /\ GoesOn(j, n, d) /\ n.kind = r.kind /\ n.activated = TRUE
          /\ n.step = "done" => r.status.served = Release(p)
      <4>1. Describes(j, p.fallback.served, d) /\ Describes(j, Release(p), d)
        BY <1>5, <1>12 DEF Describes
      <4>2. v.kind \notin {"check", "promote"} /\ r.status \in Statuses
        BY <1>2, <1>7, <2>2
      <4> HIDE DEF d
      <4> QED BY <1>5, <1>7, <4>1, <4>2, ReconcilingsGoOn
    <3> HIDE DEF n
    <3>3. ASSUME ~owed, ~Owing, n.step = "done" PROVE InStep'
      <4>1. /\ r.deployment = deployment /\ r.deployment.current = r.initial
            /\ r.status.served = Release(r.initial)
        BY <1>1, <1>12, <2>2 DEF JobOK, BoundOK
      <4>3. InStep
        BY <3>3 DEF QInv
      <4> QED BY <1>12, <3>2, <3>3, <4>1, <4>3 DEF InStep, Release
    <3> QED BY <3>1, <3>2, <3>3
  <2>3. CASE r.kind = "promote"
    <3>1. r.release = ReleaseOf[r.candidate]
      BY <1>1, <2>3 DEF BoundOK
    <3> DEFINE d == deployment'
    <3>2. LET n == Publishing(v, r.input) IN
          /\ GoesOn(j, n, d) /\ n.kind = r.kind /\ n.activated = TRUE
          /\ n.step = "publish"
      <4>1. Describes(j, r.input.served, d)
        BY <1>2, <1>5, <1>12 DEF Describes
      <4>2. v.kind # "check" /\ v.release = ReleaseOf[v.candidate]
        BY <1>7, <2>3, <3>1
      <4> HIDE DEF d
      <4> QED BY <1>2, <1>7, <4>1, <4>2, PublishingsGoOn
    <3>3. LET n == Ended(v, "done") IN
          GoesOn(j, n, deployment') /\ n.kind = r.kind /\ n.activated = TRUE
      BY <1>7, EndingsGoOn
    <3>4. j \notin overtaken => r.initial # p
      <4> SUFFICES ASSUME j \notin overtaken PROVE r.initial # p
        OBVIOUS
      <4>1. r.deployment = deployment /\ r.initial = deployment.current
        BY <1>1, <1>2, <1>12, <2>3 DEF UpToDate
      <4> QED BY <1>1, <1>5, <4>1 DEF JobOK
    <3> QED BY <1>8, <2>3, <3>2, <3>3, <3>4
  <2> QED BY <1>2, <2>1, <2>2, <2>3
<1> QED BY <1>3, <1>9, <1>10, <1>11, <1>12

LEMMA SwapOwes ==
  ASSUME SInv, QInv, NEW j \in Jobs, Swap(j)
  PROVE  QInv'
<1> DEFINE r == job[j]
           n == Rereads(r, "current")
           b == [n EXCEPT !.try = @ + 1, !.input = Null]
<1>1. /\ JobOK(r) /\ r \in Progress /\ r.step = "swap" /\ BoundOK(r) /\ Busy(j)
      /\ r.kind # "check" /\ j \notin overtaken => UpToDate(r, deployment)
  BY JobOwes DEF Swap, At
<1>2. \/ r.kind = "check" /\ Steps(j, b)
      \/ Steps(j, Ended(r, "failed"))
      \/ /\ r.fresh /\ status' = r.input /\ UNCHANGED deployment
         /\ \E step \in {"done", "failed"} : Become(j, Ended(r, step), HoldsStatus)
  BY DEF Swap, Retried, HasCurrentVersion
<1>3. job[j] = r
  OBVIOUS
<1> HIDE DEF r
<1>4. ASSUME r.kind = "check", Steps(j, b) PROVE QInv'
  <2> DEFINE next == n.try + 1
             u == [n EXCEPT !.try = next]
  <2>1. /\ n \in Progress /\ n.step = "current" /\ n.kind = r.kind
        /\ n.activated = r.activated /\ n.deployment = Unread
    BY <1>1, Rereadings
  <2>2. b = [u EXCEPT !.input = Null]
    OBVIOUS
  <2>3. next \in Nat
    BY <2>1 DEF Progress
  <2> HIDE DEF n, next
  <2>4. /\ u \in Progress /\ u.step = n.step /\ u.kind = n.kind
        /\ u.activated = n.activated /\ u.deployment = n.deployment
    BY <2>1, <2>3 DEF Progress
  <2> HIDE DEF u, b
  <2>5. /\ b \in Progress /\ b.step = "current" /\ b.kind = r.kind
        /\ b.activated = r.activated /\ b.deployment = Unread
    BY <2>1, <2>2, <2>4 DEF Progress
  <2>6. ~r.activated
    BY <1>1, <1>4 DEF BoundOK
  <2>7. GoesOn(j, b, deployment)
    BY <1>4, <2>5, <2>6, RereadingsGoOn
  <2> QED BY <1>1, <1>3, <1>4, <2>5, <2>6, <2>7, QuietStepOwed
<1>5. ASSUME Steps(j, Ended(r, "failed")) PROVE QInv'
  BY <1>1, <1>3, <1>5, EndingsGoOn, QuietStepOwed
<1>6. ASSUME r.fresh, status' = r.input, UNCHANGED deployment,
             NEW step \in {"done", "failed"}, Become(j, Ended(r, step), HoldsStatus)
      PROVE  QInv'
  <2>1. status' \in Statuses /\ status' # Null
    BY <1>1, <1>6, SourceRefreshAssumption DEF JobOK
  <2> DEFINE e == Ended(r, step)
  <2>2. e.step = step /\ e.activated = r.activated
    BY <1>1, EndingsGoOn
  <2>3. ~Busy(j)'
    BY <1>6, <2>2 DEF Become, Busy
  <2>4. ~InStep' /\ ~owed' =>
          /\ ~owed /\ ~(step = "failed" /\ r.activated)
          /\ j \in overtaken => step = "failed" /\ status' = status
    BY <1>6, <2>2 DEF Become
  <2>5. (\A k \in Jobs : Busy(k) => BoundOK(job[k]))'
    BY <1>6, <2>3, OthersGoOn
  <2>6. ASSUME NEW k \in Jobs, Commanding(k)', k \notin overtaken'
        PROVE  UpToDate(job'[k], deployment)
    <3>1. k # j
      BY <2>3, <2>6 DEF Commanding
    <3>2. k \notin overtaken
      BY <1>6, <2>6, <3>1, CommandsAfter
    <3> QED BY <1>6, <2>6, <3>1, <3>2, OthersGoOn DEF Commanding
  <2>7. ASSUME ~owed', ~Owing', ~InStep' PROVE FALSE
    <3>1. ASSUME ~(Commanding(j) /\ r.activated) PROVE ~Owing /\ InStep
      <4>1. ~Owing
        BY <1>3, <1>6, <2>7, <3>1, OwingAfter DEF Owing
      <4> QED BY <2>4, <2>7, <4>1 DEF QInv
    <3>2. CASE r.kind # "check" /\ j \notin overtaken
      <4>1. r.input.served = Release(deployment.current)
        BY <1>1, <3>2 DEF UpToDate
      <4> QED BY <1>6, <2>1, <2>7, <4>1 DEF InStep
    <3>3. CASE j \in overtaken
      <4>1. status' = status /\ ~r.activated
        BY <2>4, <2>7, <3>3
      <4> QED BY <1>6, <2>7, <3>1, <4>1 DEF InStep
    <3>4. CASE r.kind = "check"
      <4>1. ~Owing /\ InStep
        BY <1>3, <3>1, <3>4 DEF Commanding
      <4>2. ~Diverted
        BY <4>1 DEF Owing, Diverted
      <4>3. CheckOK(r, deployment)
        BY <1>1, <1>3, <2>4, <2>7, <4>1, <4>2 DEF QInv
      <4>4. r.input.served = Release(deployment.current)
        BY <1>1, <1>6, <3>4, <4>3 DEF CheckOK
      <4> QED BY <1>6, <2>1, <2>7, <4>4 DEF InStep
    <3> QED BY <3>2, <3>3, <3>4
  <2>8. ASSUME NEW k \in Jobs, Busy(k)' PROVE CheckOK(job'[k], deployment)
    <3>1. k # j
      BY <2>3, <2>8
    <3>2. job'[k].step = "swap" => ~job'[k].fresh
      BY <1>6, <2>8, <3>1, OthersGoOn DEF HoldsStatus
    <3> QED BY <3>2 DEF CheckOK
  <2>9. (deployment.current.fallback.served = Release(deployment.current))'
    BY <1>6 DEF QInv, Release
  <2> QED BY <1>6, <2>5, <2>6, <2>7, <2>8, <2>9 DEF QInv, Release, UpToDate, CheckOK
<1> QED BY <1>2, <1>4, <1>5, <1>6

LEMMA InitQInv == Init => QInv
<1> SUFFICES ASSUME Init PROVE QInv
  OBVIOUS
<1> DEFINE f == First(ReleaseOf[Origin], 1, 1)
<1>1. f.served = ReleaseOf[Origin]
  BY DerivedServed
<1>2. /\ deployment = [current |-> [candidate |-> Origin, fallback |-> f], history |-> <<>>]
      /\ status \in {Null, deployment.current.fallback} /\ job = [j \in Jobs |-> Null]
      /\ owed = (status = Null)
  BY DEF Init
<1> HIDE DEF f
<1>3. deployment.current.fallback = f /\ Release(deployment.current) = ReleaseOf[Origin]
  BY <1>2 DEF Release
<1>4. \A j \in Jobs : ~Busy(j) /\ ~Commanding(j)
  BY <1>2 DEF Busy, Commanding
<1>5. ~owed => InStep
  BY <1>1, <1>2, <1>3 DEF InStep
<1> QED BY <1>1, <1>3, <1>4, <1>5 DEF QInv

LEMMA NextKeepsQInv ==
  ASSUME SInv, KInv, QInv, [Next]_vars
  PROVE  QInv'
<1>1. CASE UNCHANGED vars
  BY <1>1 DEF vars, QInv, Owing, Diverted, InStep, Commanding, Busy, BoundOK, UpToDate,
              CheckOK, Release
<1>2. ASSUME NEW j \in Jobs, CommandStep(j) PROVE QInv'
  BY <1>2, ReadOwes, RefreshOwes, BuildOwes, RecheckOwes, DelayOwes, AfterPromotionOwes,
     RollbackOwes, PromoteOwes, LoadPromotionOwes, LoadRollbackOwes, ActivateOwes,
     PublishOwes
     DEF CommandStep
<1>3. ASSUME NEW j \in Jobs, CheckStep(j) PROVE QInv'
  BY <1>3, LoadStatusOwes, CompareOwes DEF CheckStep
<1>4. ASSUME NEW j \in Jobs, Start(j) \/ Swap(j) \/ Die(j) PROVE QInv'
  BY <1>4, StartOwes, SwapOwes, DieOwes
<1>5. ASSUME NEW j \in Jobs, NEW observed \in Releases, NEW at \in Times,
             StartCheck(j, observed, at)
      PROVE  QInv'
  BY <1>5, StartCheckOwes
<1> QED BY <1>1, <1>2, <1>3, <1>4, <1>5 DEF Next

(* What a command goes by is current and what it publishes describes the   *)
(* deployment, unless another has overtaken it; and only while a command   *)
(* is between its two swaps, or once one has given up the second or was    *)
(* overtaken, do the two pointers disagree.                                *)
THEOREM OwedInductive == Spec => []QInv
<1>1. Init => SInv /\ KInv /\ QInv
  BY InitSInv, InitKInv, InitQInv
<1>2. SInv /\ KInv /\ QInv /\ [Next]_vars => (SInv /\ KInv /\ QInv)'
  BY NextKeepsSInv, NextKeepsKInv, NextKeepsQInv
<1>3. SInv /\ KInv /\ QInv => QInv
  OBVIOUS
<1> QED BY <1>1, <1>2, <1>3, PTL DEF Spec

(* Promotion, refresh and rollback swap the deployment and then the        *)
(* status: however many of them run at once and checks race with them,     *)
(* once no command runs the status describes the active deployment, unless *)
(* a command ended between the two, or was overtaken between them, and     *)
(* nothing that describes the deployment was published since.              *)
THEOREM StatusDescribesTheDeployment == Spec => []InStepWhenQuiet
<1>1. QInv => InStepWhenQuiet
  BY DEF QInv, InStepWhenQuiet, Owing
<1> QED BY <1>1, OwedInductive, PTL

(* A job ends by a step of its own.                                        *)
LEMMA JobsEndThemselves ==
  ASSUME SInv, [Next]_vars, NEW j \in Jobs, Busy(j), ~Busy(j)'
  PROVE  CommandStep(j) \/ CheckStep(j) \/ Swap(j) \/ Die(j)
<1>1. ASSUME NEW k \in Jobs, k # j, NEW r, NEW outdated, Become(k, r, outdated) PROVE FALSE
  BY <1>1, Others
<1>2. ASSUME NEW k \in Jobs, k # j, CommandStep(k) PROVE FALSE
  <2>1. \E r, outdated : Become(k, r, outdated)
    BY <1>2 DEF CommandStep, Read, Refresh, Build, Recheck, Delay, AfterPromotion, Rollback,
                Promote, LoadPromotion, LoadRollback, Activate, Publish, Steps
  <2> QED BY <1>1, <1>2, <2>1
<1>3. ASSUME NEW k \in Jobs, k # j, CheckStep(k) \/ Swap(k) \/ Die(k) PROVE FALSE
  <2>1. \E r, outdated : Become(k, r, outdated)
    BY <1>3 DEF CheckStep, LoadStatus, Compare, Swap, Die, Steps
  <2> QED BY <1>1, <1>3, <2>1
<1>4. ASSUME NEW k \in Jobs,
             Start(k) \/ \E observed \in Releases, at \in Times : StartCheck(k, observed, at)
      PROVE  FALSE
  <2>1. k # j /\ \E r : job' = [job EXCEPT ![k] = r]
    BY <1>4 DEF Start, StartCheck
  <2>2. job'[j] = job[j]
    BY <2>1 DEF SInv, TypeOK
  <2> QED BY <2>2 DEF Busy
<1>5. ~UNCHANGED vars
  BY DEF vars, Busy
<1> QED BY <1>2, <1>3, <1>4, <1>5 DEF Next

LossesCounted == losses \in Nat

LEMMA LossesAreCounted ==
  ASSUME LossesCounted, [Next]_vars
  PROVE  LossesCounted'
<1> SUFFICES losses' = losses \/ losses' = losses + 1
  BY DEF LossesCounted
<1>1. ASSUME NEW j \in Jobs, Start(j) \/ Swap(j) \/ Die(j) \/ CheckStep(j)
      PROVE  losses' = losses \/ losses' = losses + 1
  <2>1. CASE Start(j) \/ Die(j) \/ CheckStep(j)
    BY <2>1 DEF Start, Die, CheckStep, LoadStatus, Compare, Steps
  <2>2. CASE Swap(j)
    BY <2>2, Zenon DEF Swap, Steps
  <2> QED BY <1>1, <2>1, <2>2
<1>2. ASSUME NEW j \in Jobs, CommandStep(j)
      PROVE  losses' = losses \/ losses' = losses + 1
  <2>1. CASE Activate(j)
    BY <2>1, Zenon DEF Activate, Steps
  <2>2. CASE ~Activate(j)
    BY <1>2, <2>2 DEF CommandStep, Read, Refresh, Build, Recheck, Delay, AfterPromotion,
                      Rollback, Promote, LoadPromotion, LoadRollback, Publish, Steps
  <2> QED BY <2>1, <2>2
<1>3. ASSUME NEW j \in Jobs, NEW observed \in Releases, NEW at \in Times,
             StartCheck(j, observed, at)
      PROVE  losses' = losses
  BY <1>3 DEF StartCheck
<1> QED BY <1>1, <1>2, <1>3 DEF Next, vars

(* A command that was not overtaken publishes what describes the active    *)
(* deployment, and one that finds its activation committed by an earlier   *)
(* run ends without publishing only if the status it read, which is still  *)
(* the active one, describes it.                                           *)
THEOREM SecondRunsRepair == Spec => CommandsRepair
<1>1. ASSUME SInv, KInv, QInv, [Next]_vars, NEW j \in Jobs, Commanding(j), j \notin overtaken,
             job'[j] = Null, At(j, "swap"), status' # status
      PROVE  InStep'
  <2>1. status' = job[j].input
    BY <1>1, StatusChanges
  <2>2. deployment' = deployment
    BY <1>1, StatusChanges
  <2>3. UpToDate(job[j], deployment) /\ JobOK(job[j])
    BY <1>1, JobIsOK DEF QInv, At
  <2>4. status' \in Statuses
    BY <1>1, <2>1, <2>3 DEF JobOK, At
  <2> QED BY <1>1, <2>1, <2>2, <2>3, <2>4, SourceRefreshAssumption DEF UpToDate, InStep, At
<1>2. ASSUME SInv, KInv, QInv, [Next]_vars, NEW j \in Jobs, Commanding(j), j \notin overtaken,
             job'[j] = Null, IsCommitted(j), job[j].status = status, losses' = losses,
             LossesCounted
      PROVE  InStep
  <2> DEFINE r == job[j]
             d == r.deployment.current
             n == Reconciling(r, d, r.status)
  <2>1. PICK kind \in {"refresh", "rollback"} : HasRead(j, kind, "read")
    BY <1>2 DEF IsCommitted
  <2>2. /\ r \in Progress /\ d \in Pairings /\ r.kind = kind /\ r.step = "read"
        /\ r.status \in Statuses \cup {Null} /\ r.deployment # Unread /\ r.status # Unread
    <3>1. r \in Progress /\ d \in Pairings /\ r.status \in Statuses \cup {Null}
      BY <1>2, <2>1, HasReadThem
    <3> QED BY <2>1, <3>1 DEF HasRead, At
  <2>3. Busy(j) /\ ~Busy(j)'
    BY <1>2 DEF Commanding, Busy
  <2>4. ~Die(j)
    BY <1>2 DEF Die, LossesCounted
  <2>5. Refresh(j) \/ Rollback(j)
    <3>1. CommandStep(j) \/ CheckStep(j) \/ Swap(j)
      BY <1>2, <2>3, <2>4, JobsEndThemselves
    <3> QED BY <2>1, <2>2, <3>1
            DEF CommandStep, CheckStep, Swap, Read, Build, Recheck, Delay, AfterPromotion,
                Promote, LoadPromotion, LoadRollback, Activate, Publish, LoadStatus, Compare,
                HasRead, At
  <2>6. Steps(j, n) /\ d.fallback.served = Release(d)
    <3>1. d = deployment.current /\ r.deployment = deployment
      BY <1>2, <2>2 DEF QInv, UpToDate
    <3>2. d.fallback.served = Release(d)
      BY <1>2, <3>1 DEF QInv
    <3>3. Steps(j, n)
      BY <1>2, <2>1, <2>2, <2>5 DEF IsCommitted, HasRead, At, Refresh, Rollback
    <3> QED BY <3>2, <3>3
  <2>7. deployment.current = d
    BY <1>2, <2>2 DEF QInv, UpToDate
  <2>8. job'[j] = IF n.step \in {"done", "failed"} THEN Null ELSE n
    BY <2>6 DEF Steps, Become
  <2>9. /\ GoesOn(j, n, deployment) /\ n.step # "failed"
        /\ n.step = "done" => r.status # Null /\ r.status.served = Release(d)
    <3>1. Describes(j, d.fallback.served, deployment) /\ Describes(j, Release(d), deployment)
      BY <2>6, <2>7 DEF Describes
    <3>2. r.kind \notin {"check", "promote"}
      BY <2>2
    <3> HIDE DEF r, d
    <3> QED BY <2>2, <3>1, <3>2, ReconcilingsGoOn
  <2> HIDE DEF n
  <2>10. n.step = "done"
    BY <1>2, <2>8, <2>9, SourceRefreshAssumption DEF GoesOn
  <2> QED BY <1>2, <2>7, <2>9, <2>10 DEF InStep
<1> DEFINE repaired ==
             \A j \in Jobs :
               Commanding(j) /\ j \notin overtaken /\ job'[j] = Null =>
                 /\ At(j, "swap") /\ status' # status => InStep'
                 /\ IsCommitted(j) /\ job[j].status = status /\ losses' = losses => InStep
<1>3. SInv /\ KInv /\ QInv /\ LossesCounted /\ [Next]_vars => repaired
  BY <1>1, <1>2
<1>4. Spec => [](LossesCounted)
  <2>1. Init => LossesCounted
    BY DEF Init, LossesCounted
  <2>2. LossesCounted /\ [Next]_vars => LossesCounted'
    BY LossesAreCounted
  <2> QED BY <2>1, <2>2, PTL DEF Spec
<1>5. Spec => [][repaired]_vars
  BY <1>3, <1>4, ActivationInductive, StatusInductive, OwedInductive, PTL DEF Spec
<1> QED BY <1>5 DEF CommandsRepair
=============================================================================
