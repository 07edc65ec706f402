---------------------------- MODULE ServiceLevels ----------------------------
(***************************************************************************)
(* Availability and alerts (operations/service-levels.ts) and the report   *)
(* that judges them (operations/service-level-report.ts). The requests of  *)
(* a window are counted by their outcome, since their order tells nothing; *)
(* the probe intervals are runs of consecutive minutes with one outcome.   *)
(* Fractions are per thousand; comparisons of quotients are cross-         *)
(* multiplied, which agrees with the doubles of the code at and around     *)
(* every threshold. Values of a wrong type or range are not modelled.      *)
(***************************************************************************)
EXTENDS Integers, Sequences, FiniteSets, FiniteSetsExt, SequencesExt, Functions

CONSTANTS
    Windows,            \* the request windows of a month
    Volumes,            \* how many requests are counted at a time
    Runs,               \* the runs of minutes a prober may report
    FirstMinute, EndMinute,     \* the window that is to be probed
    MaxCounted, MaxRuns,        \* bounds: batches of requests, and runs
    Reported,           \* the alert results that come with a report
    Conditions,         \* for each signal, what may be measured of it
    Null

VARIABLES
    requests,           \* of each window, the number of each outcome
    counted,            \* batches counted so far
    intervals,          \* the probe intervals
    alerts,             \* the alert results
    report,
    signal, condition,  \* a signal, and what is measured of it
    peak                \* the worst rank it had

monthVars == <<requests, counted, intervals, alerts, report>>
signalVars == <<signal, condition, peak>>
-----------------------------------------------------------------------------
\* Outcomes of requests. Client errors that are to be expected are excluded,
\* every other status but a success fails.
Outcomes == {"synthetic", "timed out", "2xx", "304", "3xx", "expected 4xx", "4xx", "5xx"}
Excluded == {"synthetic", "expected 4xx"}
Successful == {"2xx", "304"}

\* A window's service level.
RequestSli(counts) ==
    [eligible |-> FoldFunctionOnSet(LAMBDA a, b : a + b, 0, counts, Outcomes \ Excluded),
     failed |-> FoldFunctionOnSet(LAMBDA a, b : a + b, 0, counts, Outcomes \ (Excluded \cup Successful))]

\* What is left of the budget: half a percent may fail in a month, and what is
\* not measured is not in order.
MonthlyErrorBudget(eligible, failed) ==
    IF eligible = 0 THEN "unmeasured"
    ELSE IF failed * 250 >= eligible THEN "page"
    ELSE IF failed * 400 >= eligible THEN "warn"
    ELSE "ok"

\* The month's probes, one a minute: each starts where the one before it ends
\* and asks about the same deployment. Others are refused.
ProbesAreWhole(runs) ==
    LET Expected(i) == FirstMinute + FoldLeft(LAMBDA n, run : n + run.minutes, 0, SubSeq(runs, 1, i - 1))
    IN  /\ \A i \in DOMAIN runs : runs[i].start = Expected(i) /\ runs[i].identity = "served"
        /\ Expected(Len(runs) + 1) = EndMinute
Succeeds(run) == run.manifest = "success" /\ run.analysis = "success"
ProbeSli(runs) ==
    LET Minutes(some) == FoldLeft(LAMBDA n, run : n + run.minutes, 0, some)
    IN  [eligible |-> Minutes(runs), failed |-> Minutes(SelectSeq(runs, LAMBDA run : ~Succeeds(run)))]
-----------------------------------------------------------------------------
\* Alerts: what is to be paged, else what is to be warned of.
Severity(isPaged, isWarned) == IF isPaged THEN "page" ELSE IF isWarned THEN "warn" ELSE "ok"

RouteLatencyTarget(x) == Severity(x.missMinutes >= 15, x.missMinutes >= 5)
Http5xxRate(x) ==
    IF x.total = 0 \/ x.errors > x.total THEN "refused"
    ELSE Severity(x.errors * 20 > x.total, x.errors * 100 > x.total)
QueueWait(x) == Severity(x.rejected \/ x.depth >= 16, x.seconds > 1)
SharedCpuThrottle(x) == Severity(x.failsGate, x.throttled > 50 /\ x.minutes >= 15)
DuckdbSpill(x) == Severity(x.capError, x.smallSpilled \/ (x.spilled > 100 /\ x.minutes >= 15))
CgroupMemory(x) == Severity(x.oom \/ x.used >= 850, x.used > 750 /\ x.minutes >= 15)
ProcessRss(x) == Severity(x.used >= 850, x.used > 750 /\ x.minutes >= 15)
VolumeFree(x) == Severity(x.free < 250, x.free < 300)
StatusPointerPoll(x) == Severity(x.transition # "none", x.failures >= 3)
KnownRefreshFailure(x) == Severity(x.occurred, FALSE)
RefreshDuration(x) == Severity(x.hours > 48, x.hours > 24)
MonthlyErrorBudgetAlert(x) == Severity(x.consumed >= 800, x.consumed >= 500)
MonthlyCostForecast(x) == Severity(x.dollars > 50 /\ ~x.approved, x.dollars > 40)

RequiredSignals == {"route-latency-target-miss", "http-5xx-rate", "queue-wait", "shared-cpu-throttle",
                    "duckdb-spill", "cgroup-memory", "process-rss", "volume-free", "status-pointer-poll",
                    "known-refresh-failure", "refresh-duration", "monthly-error-budget", "monthly-cost-forecast"}
SeverityOf(name, x) ==
    CASE name = "route-latency-target-miss" -> RouteLatencyTarget(x)
      [] name = "http-5xx-rate" -> Http5xxRate(x)
      [] name = "queue-wait" -> QueueWait(x)
      [] name = "shared-cpu-throttle" -> SharedCpuThrottle(x)
      [] name = "duckdb-spill" -> DuckdbSpill(x)
      [] name = "cgroup-memory" -> CgroupMemory(x)
      [] name = "process-rss" -> ProcessRss(x)
      [] name = "volume-free" -> VolumeFree(x)
      [] name = "status-pointer-poll" -> StatusPointerPoll(x)
      [] name = "known-refresh-failure" -> KnownRefreshFailure(x)
      [] name = "refresh-duration" -> RefreshDuration(x)
      [] name = "monthly-error-budget" -> MonthlyErrorBudgetAlert(x)
      [] name = "monthly-cost-forecast" -> MonthlyCostForecast(x)
-----------------------------------------------------------------------------
\* The report. Every required signal comes once, of the deployment served.
AlertsAreWhole(results) ==
    /\ {result.signal : result \in ToSet(results)} = RequiredSignals
    /\ Len(results) = Cardinality(RequiredSignals)
    /\ \A i \in DOMAIN results : results[i].identity = "served"
AlertStatus(results) ==
    IF \A i \in DOMAIN results : results[i].severity = "ok" THEN "accepted" ELSE "blocked"

\* The windows are added up before they are judged.
Pooled ==
    LET Added(field) == FoldFunction(LAMBDA a, b : a + b, 0, [w \in Windows |-> RequestSli(requests[w])[field]])
    IN  [eligible |-> Added("eligible"), failed |-> Added("failed")]
IsAvailable(sli) ==
    /\ sli.eligible > 0
    /\ (sli.eligible - sli.failed) * 1000 >= sli.eligible * 995
    /\ MonthlyErrorBudget(sli.eligible, sli.failed) = "ok"

ServiceLevelReport ==
    IF ~ProbesAreWhole(intervals) \/ ~AlertsAreWhole(alerts) THEN "refused"
    ELSE IF IsAvailable(Pooled) /\ IsAvailable(ProbeSli(intervals)) /\ AlertStatus(alerts) = "accepted"
    THEN "accepted" ELSE "blocked"
-----------------------------------------------------------------------------
\* A month of requests and probes, and its report.
MonthInit ==
    /\ requests = [w \in Windows |-> [o \in Outcomes |-> 0]]
    /\ counted = 0 /\ intervals = <<>> /\ alerts \in Reported /\ report = Null

Observe(w, outcome, n) ==
    /\ report = Null /\ counted < MaxCounted
    /\ requests' = [requests EXCEPT ![w][outcome] = @ + n]
    /\ counted' = counted + 1
    /\ UNCHANGED <<intervals, alerts, report>>

Probe(run) ==
    /\ report = Null /\ Len(intervals) < MaxRuns
    /\ intervals' = Append(intervals, run)
    /\ UNCHANGED <<requests, counted, alerts, report>>

Report ==
    /\ report = Null
    /\ report' = ServiceLevelReport
    /\ UNCHANGED <<requests, counted, intervals, alerts>>

MonthNext ==
    \/ \E w \in Windows, outcome \in Outcomes, n \in Volumes : Observe(w, outcome, n)
    \/ \E run \in Runs : Probe(run)
    \/ Report

\* A signal that gets worse: for some measurements, less is worse.
Flags == {"rejected", "failsGate", "capError", "smallSpilled", "oom", "occurred"}
Falling == {"total", "free"}
IsNoBetter(x, y) ==
    \A field \in DOMAIN x :
        CASE field \in Flags -> x[field] => y[field]
          [] field = "approved" -> y[field] => x[field]
          [] field = "transition" -> x[field] \in {"none", y[field]}
          [] field \in Falling -> x[field] >= y[field]
          [] OTHER -> x[field] <= y[field]

Rank(severity) ==
    CASE severity = "ok" -> 1 [] severity = "warn" -> 2 [] severity = "page" -> 3 [] severity = "refused" -> 4

SignalInit ==
    /\ signal \in RequiredSignals
    /\ condition \in Conditions[signal]
    /\ peak = Rank(SeverityOf(signal, condition))

Worsen ==
    \E worse \in Conditions[signal] :
        /\ worse # condition /\ IsNoBetter(condition, worse)
        /\ condition' = worse
        /\ peak' = Max({peak, Rank(SeverityOf(signal, worse))})
        /\ UNCHANGED signal

SignalNext == Worsen
-----------------------------------------------------------------------------
\* A month is accepted only if every minute of it was probed, once, of the
\* deployment served, if fewer than one in four hundred of all eligible requests
\* and of all minutes failed, and if no signal is missing or raised; otherwise
\* it is refused or blocked (evaluateServiceLevelReport, evaluateProbeSli).
AcceptedMonthsAreAvailable ==
    LET Covering(minute) == {i \in DOMAIN intervals : minute - intervals[i].start \in 0..(intervals[i].minutes - 1)}
        Down == {minute \in FirstMinute..(EndMinute - 1) : \E i \in Covering(minute) :
                    intervals[i].manifest # "success" \/ intervals[i].analysis # "success"}
        All(outcomes) == SumFunction([p \in Windows \X outcomes |-> requests[p[1]][p[2]]])
        Failed == All({"timed out", "3xx", "4xx", "5xx"})
    IN  report = "accepted" =>
            /\ \A minute \in FirstMinute..(EndMinute - 1) : Cardinality(Covering(minute)) = 1
            /\ \A i \in DOMAIN intervals : intervals[i].identity = "served"
            /\ 400 * Cardinality(Down) < EndMinute - FirstMinute
            /\ 400 * Failed < Failed + All({"2xx", "304"})
            /\ \A name \in RequiredSignals :
                  \A i \in DOMAIN alerts : alerts[i].signal = name => alerts[i].severity = "ok"
            /\ \A name \in RequiredSignals : \E i \in DOMAIN alerts : alerts[i].signal = name

\* While what a signal measures gets worse, its alert is never toned down: a
\* page stays a page, and a refusal a refusal (the evaluate...Alert functions).
NoAlertSoftens == Rank(SeverityOf(signal, condition)) = peak
=============================================================================
