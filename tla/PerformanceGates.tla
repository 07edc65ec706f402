--------------------------- MODULE PerformanceGates ---------------------------
(***************************************************************************)
(* The performance gates of a candidate (performance-gates.ts), the        *)
(* summary of benchmark samples they judge (benchmark-statistics.ts), and  *)
(* the second reading of the same reports by the launch gate               *)
(* (measure-market-analysis-launch.ts).                                    *)
(* A measurement is a level: up to Warning, Bound or TailBound, or beyond. *)
(* TailBound is the limit of a 95th percentile of browser durations and of *)
(* a 99th percentile of an origin.                                         *)
(***************************************************************************)
EXTENDS Integers, Sequences, FiniteSets, SequencesExt, FiniteSetsExt

CONSTANTS
    Inputs,                         \* the measurements to begin with
    Warning, Bound, TailBound, Deadline,
    MinimumTrials, MinimumWarmups, MinimumTimed,
    Contexts,                       \* of the launch matrix
    Roles,                          \* REQUIRED_PRODUCT_ROLES
    Singletons, ProductOperations,  \* the operations of the origin
    Optional,                       \* the capability an operation belongs to
    CompressedLimited, Exclusive,   \* operations with such payload limits
    Plan,                           \* what the target load must have done
    LaunchOperations,               \* the ones of Market Analysis
    LaunchCases,                    \* the tests the launch requires
    MaxChanges,
    Null

VARIABLES
    input, verdict,
    better, launchable,             \* what the input before was
    changes

vars == <<input, verdict, better, launchable, changes>>

Rank(status) == CASE status = "accepted" -> 1 [] status = "review-required" -> 2
                  [] status = "blocked" -> 3 [] status = "refused" -> 4
Verdict(isWithin) == IF isWithin THEN "accepted" ELSE "blocked"

\* The worst of the statuses; input that is refused ends the evaluation.
CombinedStatus(statuses) ==
    IF "refused" \in statuses THEN "refused" ELSE IF "blocked" \in statuses THEN "blocked"
    ELSE IF "review-required" \in statuses THEN "review-required" ELSE "accepted"
-----------------------------------------------------------------------------
\* Statistics over sequences of levels.
Ordered(values) == SortSeq(values, LAMBDA a, b : a < b)
LowerMedian(values) == Ordered(values)[1 + ((Len(values) - 1) \div 2)]

NearestRank(values, percent) == Ordered(values)[(percent * Len(values) + 99) \div 100]
MaximumOf(values) == Max(ToSet(values))
Of(records, field) == [i \in DOMAIN records |-> records[i][field]]

IsSuccess(sample) == ~sample.timedOut /\ sample.status \in {"2xx", "304"}

\* The summary of the samples of a benchmark.
Summary(samples) ==
    [count |-> Len(samples), p50 |-> NearestRank(Of(samples, "measured"), 50),
     p75 |-> NearestRank(Of(samples, "measured"), 75), p95 |-> NearestRank(Of(samples, "measured"), 95),
     p99 |-> NearestRank(Of(samples, "measured"), 99), maximum |-> MaximumOf(Of(samples, "route")),
     payload |-> MaximumOf(Of(samples, "payload")),
     errors |-> Cardinality({i \in DOMAIN samples : ~samples[i].timedOut /\ ~IsSuccess(samples[i])}),
     timeouts |-> Cardinality({i \in DOMAIN samples : samples[i].timedOut})]

SamplesValid(samples) ==
    /\ samples # <<>>
    /\ \A i \in DOMAIN samples : /\ samples[i].route >= samples[i].measured
                                 /\ samples[i].timedOut \/ samples[i].status # Null
-----------------------------------------------------------------------------
\* One product in the browser: enough trials, none failed, and every median,
\* maximum and percentile within its limit.
Medians == {"lcp", "cls", "interaction", "longestTask"}
Maxima == {"critical", "firstParty", "javaScript", "result", "resultCompressed"}
Durations == {"analyze", "market"}

BrowserProduct(product) ==
    IF product.trials = <<>> \/ \E i \in DOMAIN product.trials : \E f \in Durations : product.trials[i][f] = 0
    THEN "refused"
    ELSE Verdict(
        /\ Len(product.trials) >= MinimumTrials /\ product.failed = 0
        /\ \A f \in Medians : LowerMedian(Of(product.trials, f)) <= Bound
        /\ \A f \in Maxima : MaximumOf(Of(product.trials, f)) <= Bound
        /\ \A f \in Durations : /\ NearestRank(Of(product.trials, f), 75) <= Bound
                                /\ NearestRank(Of(product.trials, f), 95) <= TailBound)

\* Every context of the launch matrix exactly once.
LaunchMatrix(matrix) ==
    LET contexts == Of(matrix.trials, "context")
    IN  IF ~IsInjective(contexts) \/ contexts = <<>> THEN "refused"
        ELSE Verdict(/\ ToSet(contexts) = Contexts /\ matrix.failed = 0
                     /\ MaximumOf(Of(matrix.trials, "lcp")) <= Bound
                     /\ MaximumOf(Of(matrix.trials, "interaction")) <= Bound)

BrowserLab(products, matrix) ==
    IF \/ Len(products) # 2
       \/ {products[i].role : i \in DOMAIN products} # {"median", "maximum-row"}
    THEN "refused"
    ELSE CombinedStatus({BrowserProduct(products[i]) : i \in DOMAIN products} \cup {LaunchMatrix(matrix)})
-----------------------------------------------------------------------------
\* The benchmarks the capabilities require.
RequiredBenchmarks(capabilities) ==
    {<<operation, Null>> : operation \in Singletons}
        \cup ({o \in ProductOperations : o \in DOMAIN Optional => Optional[o] \in capabilities} \X Roles)

PayloadWithin(operation, payload) ==
    IF operation \in Exclusive THEN payload < Bound ELSE payload <= Bound

OriginBenchmark(benchmark) ==
    IF ~SamplesValid(benchmark.samples) THEN "refused"
    ELSE LET s == Summary(benchmark.samples) IN
         IF ~(s.p50 <= s.p75 /\ s.p75 <= s.p95 /\ s.p95 <= s.p99 /\ s.p99 <= s.maximum) THEN "refused"
         ELSE Verdict(
            /\ benchmark.warmups >= MinimumWarmups /\ s.count >= MinimumTimed
            /\ s.p95 <= Bound /\ s.p99 <= TailBound /\ s.maximum <= Deadline
            /\ benchmark.cacheStatesVerified /\ s.errors = 0 /\ s.timeouts = 0
            /\ PayloadWithin(benchmark.operation, s.payload)
            /\ benchmark.operation \in CompressedLimited =>
                   benchmark.compressed # Null /\ benchmark.compressed <= Bound)

Key(benchmark) == <<benchmark.operation, benchmark.role>>

\* No benchmark twice, none missing, none that is not required.
OriginBenchmarks(benchmarks, capabilities) ==
    LET keys == [i \in DOMAIN benchmarks |-> Key(benchmarks[i])]
    IN  IF ~IsInjective(keys) \/ ToSet(keys) # RequiredBenchmarks(capabilities) THEN "refused"
        ELSE CombinedStatus({OriginBenchmark(benchmarks[i]) : i \in DOMAIN benchmarks})
-----------------------------------------------------------------------------
\* The Trade Explorer query of each role is the attested one.
ExplorerMeasures == {"scanRows", "resultRows", "resultBytes", "exportBytes", "memory", "spill",
                     "queueWait", "execution", "cancellationRelease"}
ExplorerFlags == {"cancellationReleased", "cacheUnpoisoned", "queueUnpoisoned", "subsequentSucceeded"}

TradeExplorerQuery(query, attested) ==
    IF query.benchmark # attested.query \/ query.resultRows # attested.rows \/ query.execution = 0 THEN "refused"
    ELSE Verdict(/\ \A f \in ExplorerMeasures : query[f] <= Bound
                 /\ \A f \in ExplorerFlags : query[f])

TradeExplorer(queries, attested) ==
    LET OnePerRole(records) == Len(records) = Cardinality(Roles) /\ ToSet(Of(records, "role")) = Roles
        For(role, records) == SelectSeq(records, LAMBDA r : r.role = role)[1]
    IN  IF ~OnePerRole(queries) \/ ~OnePerRole(attested) THEN "refused"
        ELSE CombinedStatus({TradeExplorerQuery(For(role, queries), For(role, attested)) : role \in Roles})
-----------------------------------------------------------------------------
CpuPressureKind(machineClass) == IF machineClass = "local" THEN "dedicated-cpu" ELSE "shared-cpu-burst-balance"

\* The kind is the one of the machine class, and a shared CPU must have
\* depleted its burst balance.
CpuPressureSatisfied(pressure, machineClass) ==
    /\ pressure.kind = CpuPressureKind(machineClass)
    /\ pressure.kind = "dedicated-cpu" \/ pressure.depleted

\* Memory, free volume (as what is used of it) and spills of small products
\* warn before they block.
TargetLoad(load, machineClass) ==
    IF ~(/\ load.plan = Plan
         /\ load.rejections = 0 /\ load.errors = 0 /\ load.timeouts = 0 /\ load.cacheStatesVerified
         /\ \A i \in DOMAIN load.routeP95 : load.routeP95[i] <= Bound
         /\ load.memory <= Bound /\ load.rss <= Bound /\ load.spill <= Bound /\ load.volumeUsed <= Bound
         /\ CpuPressureSatisfied(load.pressure, machineClass)) THEN "blocked"
    ELSE IF load.memory > Warning \/ load.smallSpills > 0 \/ load.volumeUsed > Warning THEN "review-required"
    ELSE "accepted"

\* A candidate's durations were measured, that is, took time.
LifecycleDurations == {"restart", "hydration", "rollback", "interruption", "recovery"}
Lifecycle(lifecycle, class) ==
    Verdict(/\ class = "candidate" => \A f \in LifecycleDurations : lifecycle[f] > 0
            /\ \A f \in LifecycleDurations : lifecycle[f] <= Bound
            /\ lifecycle.loss = 0)

PerformanceStatus(in) ==
    CombinedStatus({Verdict(in.class = "candidate"), BrowserLab(in.browser, in.matrix),
                    OriginBenchmarks(in.origin, in.capabilities), TradeExplorer(in.queries, in.attested),
                    TargetLoad(in.load, in.machine), Lifecycle(in.lifecycle, in.class)})
-----------------------------------------------------------------------------
\* The launch gate reads the reports again: of the origin, Market Analysis only.
LaunchOrigin(benchmarks) ==
    \A key \in LaunchOperations \X Roles :
        LET matches == SelectSeq(benchmarks, LAMBDA b : Key(b) = key)
            s == Summary(matches[1].samples)
        IN  /\ Len(matches) = 1
            /\ matches[1].warmups >= MinimumWarmups /\ s.count >= MinimumTimed
            /\ matches[1].cacheStatesVerified /\ s.errors = 0 /\ s.timeouts = 0
            /\ s.p95 <= Bound /\ s.p99 <= TailBound /\ s.maximum <= Deadline
            /\ s.payload \in 1..Bound - 1 /\ matches[1].compressed \in 1..Bound

\* That trials of both products were measured, whatever they measured, and the
\* whole launch matrix.
LaunchBrowser(products, matrix) ==
    /\ \A role \in {"median", "maximum-row"} : \E i \in DOMAIN products :
        /\ products[i].role = role /\ products[i].failed = 0
        /\ Len(products[i].trials) >= MinimumTrials
        /\ \A j \in DOMAIN products[i].trials : products[i].trials[j].market > 0
    /\ IsInjective(Of(matrix.trials, "context")) /\ ToSet(Of(matrix.trials, "context")) = Contexts
    /\ matrix.failed = 0
    /\ \A i \in DOMAIN matrix.trials : matrix.trials[i].lcp <= Bound /\ matrix.trials[i].interaction <= Bound

LaunchLoad(load) ==
    load.plan = Plan /\ load.cacheStatesVerified /\ load.rejections + load.errors + load.timeouts = 0

\* A test passed if each of its runs was expected and passed in the end; the
\* report must name every case of the launch once.
Passed(test) ==
    /\ test.ok /\ test.runs # <<>>
    /\ \A i \in DOMAIN test.runs :
        test.runs[i].status = "expected" /\ test.runs[i].results # <<>> /\ Last(test.runs[i].results) = "passed"
LaunchTests(tests) ==
    \A case \in LaunchCases : \E i \in DOMAIN tests :
        /\ {j \in DOMAIN tests : case \in tests[j].cases} = {i}
        /\ Passed(tests[i])

LaunchAccepts(in) ==
    /\ in.class = "candidate" /\ LaunchTests(in.tests)
    /\ LaunchOrigin(in.origin) /\ LaunchBrowser(in.browser, in.matrix) /\ LaunchLoad(in.load)
-----------------------------------------------------------------------------
\* One measurement more turns out worse.
Raised(record, fields) == {[record EXCEPT ![f] = @ + 1] : f \in fields}
RaisedIn(sequence, fields) ==
    {[sequence EXCEPT ![i][f] = @ + 1] : i \in DOMAIN sequence, f \in fields}

WorseTrials(in) ==
    UNION {{[in EXCEPT !.browser[p].trials = trials] :
                trials \in RaisedIn(in.browser[p].trials, Medians \cup Maxima \cup Durations)} : p \in DOMAIN in.browser}
WorseSamples(in) ==
    UNION {{[in EXCEPT !.origin[b].samples[i].measured = @ + 1, !.origin[b].samples[i].route = @ + 1],
            [in EXCEPT !.origin[b].samples[i].payload = @ + 1],
            [in EXCEPT !.origin[b].samples[i].timedOut = TRUE],
            [in EXCEPT !.origin[b].samples[i].status = "5xx"]} :
               b \in DOMAIN in.origin, i \in {1, 2}}
WorseFlags(in) ==
    {[in EXCEPT !.load.cacheStatesVerified = FALSE], [in EXCEPT !.load.pressure.depleted = FALSE],
     [in EXCEPT !.class = "local-smoke"],
     [in EXCEPT !.tests = @ \o <<Head(@)>>], [in EXCEPT !.tests[1].runs[1].results = Append(@, "failed")],
     [in EXCEPT !.tests[1].runs[1] = [status |-> "flaky", results |-> <<"failed", "passed">>]]}
        \cup UNION {{[in EXCEPT !.queries[q][f] = FALSE] : f \in ExplorerFlags} : q \in DOMAIN in.queries}
        \cup {[in EXCEPT !.origin[b].cacheStatesVerified = FALSE] : b \in DOMAIN in.origin}
Worse(in) ==
    WorseTrials(in) \cup WorseSamples(in) \cup WorseFlags(in)
        \cup {[in EXCEPT !.matrix.trials = trials] : trials \in RaisedIn(in.matrix.trials, {"lcp", "interaction"})}
        \cup {[in EXCEPT !.queries = queries] : queries \in RaisedIn(in.queries, ExplorerMeasures \ {"resultRows"})}
        \cup {[in EXCEPT !.load = load] : load \in Raised(in.load, {"memory", "rss", "spill", "volumeUsed", "smallSpills",
                                                                    "rejections", "errors", "timeouts"})}
        \cup {[in EXCEPT !.lifecycle = l] : l \in Raised(in.lifecycle, LifecycleDurations \cup {"loss"})}

Init == input \in Inputs /\ verdict = PerformanceStatus(input) /\ better = verdict
        /\ launchable = LaunchAccepts(input) /\ changes = 0

\* What is refused has no verdict that could get worse.
Measure ==
    /\ changes < MaxChanges /\ verdict # "refused"
    /\ input' \in Worse(input)
    /\ verdict' = PerformanceStatus(input') /\ better' = verdict
    /\ launchable' = LaunchAccepts(input) /\ changes' = changes + 1

Next == Measure
-----------------------------------------------------------------------------
\* A candidate is never judged better for having measured worse.
NoWorseIsBetter == Rank(better) = 4 \/ Rank(verdict) >= Rank(better)

\* What is accepted took part in the whole measurement: each required benchmark
\* was answered often enough, all but one in twenty within the limit and none
\* wrongly, and most trials of each product were within the limits.
Share(sequence, Test(_)) == Cardinality({i \in DOMAIN sequence : Test(sequence[i])})
AcceptedIsDeserved ==
    verdict = "accepted" =>
        /\ input.class = "candidate" /\ input.load.memory <= Warning /\ input.load.smallSpills = 0
        /\ \A key \in RequiredBenchmarks(input.capabilities) :
               LET b == input.origin[CHOOSE i \in DOMAIN input.origin : Key(input.origin[i]) = key]
               IN  /\ Len(b.samples) >= MinimumTimed
                   /\ 100 * Share(b.samples, LAMBDA s : s.measured <= Bound) >= 95 * Len(b.samples)
                   /\ \A i \in DOMAIN b.samples : IsSuccess(b.samples[i]) /\ b.samples[i].route <= Deadline
        /\ \A p \in DOMAIN input.browser : \A f \in Durations :
               LET trials == input.browser[p].trials
               IN  4 * Share(trials, LAMBDA t : t[f] <= Bound) >= 3 * Len(trials)
        /\ \A p \in DOMAIN input.browser : \A f \in Medians :
               2 * Share(input.browser[p].trials, LAMBDA t : t[f] <= Bound) >= Len(input.browser[p].trials)

\* The launch never accepts what it refused before it got worse.  It refuses no
\* measurement the gates accepted, its tests aside, and of what it reads itself
\* it accepts nothing that the gates do not.
LaunchFollowsTheGates ==
    /\ LaunchAccepts(input) => launchable
    /\ verdict = "accepted" /\ LaunchTests(input.tests) => LaunchAccepts(input)
    /\ LaunchAccepts(input) =>
        /\ LaunchMatrix(input.matrix) = "accepted"
        /\ \A i \in DOMAIN input.origin :
            input.origin[i].operation \in LaunchOperations => OriginBenchmark(input.origin[i]) = "accepted"
        /\ \A case \in LaunchCases : \A i \in DOMAIN input.tests :
            case \in input.tests[i].cases => \A j \in DOMAIN input.tests[i].runs :
                                               "failed" \notin ToSet(input.tests[i].runs[j].results)

GatesAreSound == NoWorseIsBetter /\ AcceptedIsDeserved /\ LaunchFollowsTheGates
=============================================================================
