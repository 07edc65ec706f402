------------------------------- MODULE MCParts -------------------------------
(***************************************************************************)
(* Small instances of the components that are checked on their own, in one *)
(* state space: a behaviour is one of the component "part", whose          *)
(* variables are the first of v1, ..., v15; the others stay Null.          *)
(***************************************************************************)
EXTENDS Integers, Sequences, FiniteSets, SequencesExt

CONSTANTS Null, r1, r2, i1, i2, m1, m2

VARIABLES part, v1, v2, v3, v4, v5, v6, v7, v8, v9, v10, v11, v12, v13, v14, v15

slots == <<v1, v2, v3, v4, v5, v6, v7, v8, v9, v10, v11, v12, v13, v14, v15>>
vars == <<part, slots>>

\* The slots from a number on, without a value.
Null15 == v15 = Null
Null14 == v14 = Null /\ Null15
Null13 == v13 = Null /\ Null14
Null12 == v12 = Null /\ Null13
Null11 == v11 = Null /\ Null12
Null10 == v10 = Null /\ Null11
Null9 == v9 = Null /\ Null10
Null8 == v8 = Null /\ Null9
Null7 == v7 = Null /\ Null8
Null6 == v6 = Null /\ Null7
Null5 == v5 = Null /\ Null6
Null4 == v4 = Null /\ Null5
Null3 == v3 = Null /\ Null4
From3 == <<v3, v4, v5, v6, v7, v8, v9, v10, v11, v12, v13, v14, v15>>
From4 == <<v4, v5, v6, v7, v8, v9, v10, v11, v12, v13, v14, v15>>
From5 == <<v5, v6, v7, v8, v9, v10, v11, v12, v13, v14, v15>>
From6 == <<v6, v7, v8, v9, v10, v11, v12, v13, v14, v15>>
From7 == <<v7, v8, v9, v10, v11, v12, v13, v14, v15>>
From8 == <<v8, v9, v10, v11, v12, v13, v14, v15>>
From9 == <<v9, v10, v11, v12, v13, v14, v15>>
From10 == <<v10, v11, v12, v13, v14, v15>>
From11 == <<v11, v12, v13, v14, v15>>
From12 == <<v12, v13, v14, v15>>
From13 == <<v13, v14, v15>>

Poller == INSTANCE SourceStatusPoller WITH
    Release <- 1, Other <- 2, MaxTime <- 2, MaxKept <- 3, WarnAfter <- 2, MaxLoops <- 2,
    store <- v1, now <- v2, polledAt <- v3, loop <- v4, current <- v5,
    failures <- v6, warning <- v7, served <- v8, kept <- v9

Pool == INSTANCE DuckDbPool WITH
    Requests <- {"r1", "r2", "r3"}, Connections <- {"c1"}, MaxStatements <- 2,
    state <- v1, connection <- v2, aborted <- v3, retrying <- v4, left <- v5,
    outcome <- v6, available <- v7, waiters <- v8, closed <- v9

Accounts == INSTANCE AccountAccess WITH
    Requests <- {r1, r2}, Products <- {"p"}, Threshold <- 2, MaxRequests <- 3,
    account <- v1, lastId <- v2, credential <- v3, sessions <- v4, tokens <- v5,
    portfolio <- v6, audit <- v7, req <- v8, requested <- v9

Store == INSTANCE StoreLifecycle WITH
    Instances <- {i1, i2}, Migrators <- {m1, m2}, Records <- {"x"},
    LeaseSeconds <- 1, MaxTime <- 1,
    now <- v1, lease <- v2, instance <- v3, file <- v4, sealed <- v5,
    copy <- v6, target <- v7, migration <- v8

Discovery == INSTANCE DiscoveryWorkspace WITH
    Inputs <- {"in 1", "in 2"}, Candidates <- {"c1", "c2"}, MaxBuild <- 3, MaxVisited <- 2,
    Ranking <- [i \in {"in 1", "in 2"} |-> [b \in 1..3 |->
                  IF i = "in 1" THEN {"c1", "c2"} ELSE IF b = 2 THEN {} ELSE {"c1"}]],
    Texts <- [t \in {"", "ch", "xx", "long"} |-> CASE t = "" -> {"c1", "c2"} [] t = "ch" -> {"c1"} [] OTHER -> {}],
    TooLong <- {"long"},
    kind <- v1, address <- v2, told <- v3, text <- v4, chosen <- v5, list <- v6, open <- v7, note <- v8,
    edited <- v9, search <- v10, restore <- v11,
    server <- v1, manifest <- v2, inputs <- v3, url <- v4, visited <- v5,
    restoring <- v6, analyzed <- v7, status <- v8, loaded <- v9, resolved <- v10,
    selected <- v11, market <- v12, manifestCall <- v13, analysisCall <- v14, marketCall <- v15

\* The second build ranks the first product higher than the other two.
Candidate(display, product) == [display |-> display, product |-> product]
Cohort(exporter, build) ==
    <<Candidate(IF build = 2 THEN 2 ELSE 1, 1), Candidate(1, 2), Candidate(1, 3)>>

Feed == INSTANCE OpportunityFeed WITH
    Exporters <- {"e1", "e2"}, Filters <- {Null, {1, 3}}, CohortOf <- Cohort,
    PageLimit <- 1, MaxBuild <- 3, MaxVisited <- 2,
    server <- v1, manifest <- v2, scope <- v3, url <- v4, visited <- v5, required <- v6,
    pending <- v7, due <- v8, status <- v9, feed <- v10, manifestCall <- v11, feedCall <- v12

\* An archive of two years: sound, and with one thing wrong at a time.
Row(year, exporter, quantity) ==
    [year |-> year, exporter |-> exporter, importer |-> "e2", product |-> "p1",
     value |-> 1, quantity |-> quantity]
Member(path) == [path |-> path, regular |-> TRUE, crc |-> TRUE]
Archive ==
    [name |-> "archive", members |-> <<Member("trade 1"), Member("trade 2"), Member("dimensions")>>,
     headers |-> TRUE, version |-> "V1", products |-> <<"p1">>, economies |-> <<"e1", "e2">>,
     trade |-> <<(<<Row(1, "e1", 1)>>), (<<Row(2, "e1", Null), Row(2, "e2", 2)>>)>>]
BadArchives ==
    {[Archive EXCEPT !.members[2].crc = FALSE], [Archive EXCEPT !.members[3] = Member("trade 1")],
     [Archive EXCEPT !.version = "V0"], [Archive EXCEPT !.economies = <<"e1", "e1">>],
     [Archive EXCEPT !.trade[1] = <<Row(2, "e1", 1)>>], [Archive EXCEPT !.trade[1] = <<Row(1, "e3", 1)>>],
     [Archive EXCEPT !.trade[1] = <<Row(1, "e1", 1), Row(1, "e1", Null)>>]}
Annual ==
    <<[rows |-> 1, exporters |-> 1, importers |-> 1, products |-> 1, present |-> 1, value |-> 1, quantity |-> 1],
      [rows |-> 2, exporters |-> 2, importers |-> 1, products |-> 1, present |-> 1, value |-> 2, quantity |-> 2]>>
Approval(by, name, years) ==
    [by |-> by, source |-> name, checks |-> [y \in years |-> Annual[y]]]

Staging == INSTANCE SourceStaging WITH
    Descriptor <- [url |-> "https", release |-> "V1", ingested |-> <<1, 2>>, trade |-> <<1, 2>>,
                   finalized |-> {1}, provisional |-> {2}, window |-> [start |-> 1, end |-> 1],
                   paths |-> <<"trade 1", "trade 2", "dimensions">>, products |-> 1, economies |-> 2],
    Archives <- {Archive} \cup BadArchives,
    Approvals <- {Approval("a", "archive", {1, 2}), Approval("b", "archive", {1, 2}),
                  Approval("a", "archive", {1}), Approval("a", "other", {1, 2})},
    Pids <- {1, 2}, Blocks <- 2, MaxRuns <- 3,
    source <- v1, archive <- v2, partial <- v3, staging <- v4, report <- v5,
    temporary <- v6, run <- v7, runs <- v8

\* Staged trade of two years: exporters 1 and 9 (an aggregate), importers 2 and 3.
Flow(year, exporter, importer, product, value) ==
    [year |-> year, exporter |-> exporter, importer |-> importer, product |-> product,
     value |-> value, quantity |-> IF value = 1 THEN Null ELSE 1]
Flows == {Flow(1, 1, 2, 1, 1), Flow(1, 1, 3, 1, 2), Flow(1, 2, 3, 1, 3), Flow(2, 1, 3, 2, 2)}
Annually == [y \in {1, 2} |-> IF y = 1 THEN [rows |-> 3, value |-> 6, present |-> 2, quantity |-> 2]
                                       ELSE [rows |-> 1, value |-> 2, present |-> 1, quantity |-> 1]]
Staged ==
    [source |-> "sha", reportSource |-> "sha", intact |-> TRUE, rows |-> Flows, rowCount |-> 4,
     products |-> {1, 2}, productCount |-> 2, economies |-> {1, 2, 3, 9}, economyCount |-> 4,
     kind |-> [e \in {1, 2, 3, 9} |-> IF e = 9 THEN "AGGREGATE" ELSE "ECONOMY"],
     checks |-> Annually, window |-> {1}, provisional |-> 2]

Artifact == INSTANCE ArtifactBuild WITH
    Inputs <- {Staged, [Staged EXCEPT !.intact = FALSE], [Staged EXCEPT !.reportSource = "other"],
               [Staged EXCEPT !.products = {1}], [Staged EXCEPT !.products = {1, 3}],
               [Staged EXCEPT !.checks[1].value = 5], [Staged EXCEPT !.kind[1] = "AGGREGATE"],
               [Staged EXCEPT !.rows = (@ \ {Flow(2, 1, 3, 2, 2)}) \cup {Flow(2, 9, 3, 2, 2)}]},
    Times <- {"t1", "t2"}, Pids <- {1, 2}, MaxRuns <- 3,
    input <- v1, published <- v2, report <- v3, temporary <- v4, run <- v5, runs <- v6

Index == INSTANCE OpportunityIndexBuild WITH
    Flows <- {Flows, Flows \cup {Flow(2, 2, 3, 2, 1)}, {flow \in Flows : flow.year = 1}},
    Kind <- Staged.kind, Window5 <- {2}, Window10 <- {1, 2}, MaxRuns <- 2,
    flows <- v1, overlay <- v2, touched <- v3, left <- v4, rows <- v5, published <- v6,
    report <- v7, step <- v8, runs <- v9

\* Monthly trade of one market and product, in two editions of the nomenclature:
\* 200,000 euros a month, and with one thing changed at a time.
Month(month, value) ==
    [month |-> month, reporter |-> "DE", partner |-> "US", edition |-> month \div 12, code |-> "c1",
     special |-> "NONE", value |-> value, update |-> "FINAL_BY_SOURCE_SCHEDULE"]
Steady == [i \in 1..24 |-> Month(23 + i, 200000)]
Correspondence(code, product, chain) ==
    [code |-> code, product |-> product, status |-> "EXACT_REVIEWED", chain |-> chain, qualified |-> FALSE]
Edition(correspondences) ==
    [codes |-> <<[code |-> "c1", kind |-> "ORDINARY"], [code |-> "c2", kind |-> "ORDINARY"],
                 [code |-> "c9", kind |-> "SPECIAL"]>>,
     correspondences |-> correspondences]
Direct == Edition({Correspondence("c1", "h1", "DIRECT_EXACT"), Correspondence("c2", "h2", "DIRECT_EXACT")})
Split == Edition({Correspondence("c1", "h1", "DIRECT_EXACT"), Correspondence("c2", "h1", "DIRECT_EXACT"),
                  Correspondence("c2", "h2", "DIRECT_EXACT")})
Vintage(id, rows, edition) ==
    [id |-> id, reporters |-> {"DE"}, partners |-> [p \in {"US", "QY"} |-> IF p = "US" THEN "INDIVIDUAL" ELSE "CONFIDENTIAL"],
     products |-> {"h1"}, complete |-> 24..47, evidence |-> [y \in {2, 3} |-> IF y = 2 THEN Direct ELSE edition], rows |-> rows]
Revised(month, value) == [Steady EXCEPT ![month].value = value]
MonthlyVintages ==
    {Vintage("steady", Steady, Direct), Vintage("rising", Revised(24, 290000), Direct),
     Vintage("risen", [Revised(24, 360000) EXCEPT ![23].update = "PRELIMINARY"], Direct),
     Vintage("falling", Revised(24, 130000), Direct), Vintage("fallen", Revised(24, 50000), Direct),
     Vintage("concentrated", Revised(24, 1700000), Direct), Vintage("small", [i \in 1..24 |-> Month(23 + i, 80000)], Direct),
     Vintage("zero", Revised(23, 0), Direct), Vintage("missing", Tail(Steady), Direct),
     Vintage("gap", SubSeq(Steady, 1, 23), Direct),
     Vintage("special", Append(Append(Steady, [Month(47, 500000) EXCEPT !.special = "WORLD_TOTAL"]),
                               [Month(47, 70000) EXCEPT !.partner = "QY"]), Direct),
     [Vintage("outside", Steady, Direct) EXCEPT !.complete = 24..46],
     Vintage("split", Steady, Split), Vintage("twice", Append(Steady, Month(47, 1)), Direct)}

Momentum == INSTANCE MomentumBuild WITH
    Vintages <- MonthlyVintages, FirstEdition <- 3, MaxRuns <- 2,
    vintage <- v1, previous <- v2, package <- v3, accepted <- v4, report <- v5, step <- v6, runs <- v7

\* Monthly files of one reporter; the code c2 has two products, c9 is special.
Line(n, period, partner, code, value) ==
    [line |-> n, period |-> period, reporter |-> "DE", partner |-> partner, import |-> TRUE,
     code |-> code, value |-> value]
MonthlyFiles == [month \in 24..48 |-> {Line(1, month, "US", "c1", 200000), Line(2, month, "US", "c2", 7),
                                      Line(3, month, "US", "c9", 5)}]

Eurostat == INSTANCE EurostatBuild WITH
    Cutoffs <- {47, 48},
    FilesOf <- {MonthlyFiles, [month \in 25..48 |-> MonthlyFiles[month]],
                [MonthlyFiles EXCEPT ![47] = @ \cup {Line(4, 47, "QY", "c1", 900000)}],
                [MonthlyFiles EXCEPT ![30] = @ \cup {Line(4, 24, "US", "c1", 11)}],
                [MonthlyFiles EXCEPT ![48] = {Line(1, 48, "US", "c1", 290000), Line(2, 48, "US", "c1", Null)}]},
    Lists <- [year \in 2..4 |-> <<"c1", "c2", "c9">>],
    Tables <- [year \in 2..4 |-> <<(<<"c1", "h1">>), (<<"c2", "h2">>), (<<"c2", "h3">>), (<<"c9", "h1">>)>>],
    Special <- {"c9"}, Reporters <- {"DE"}, Anonymous <- {"QY"}, Extraction <- 57, MaxRuns <- 2,
    workspace <- v1, run <- v2, refused <- v3, runs <- v4

\* The requests of a benchmark of one product role; keys are numbers.
Ask(operation, role, keys) ==
    [operation |-> operation, role |-> role, timeoutIsTheDeadline |-> TRUE, query |-> "query",
     samples |-> [i \in DOMAIN keys |-> [key |-> keys[i], target |-> keys[i], query |-> "query", partition |-> keys[i]]]]
BenchmarkPlan(first, second) ==
    [warmups |-> 2, timedSamples |-> 1, capabilities |-> {"market"},
     requests |-> <<Ask("status", Null, <<>>), Ask("hit", "role", <<>>), Ask("miss", "role", first),
                    Ask("composite", "role", <<>>), Ask("market-miss", "role", second)>>]
Sound == BenchmarkPlan(<<1, 2, 3>>, <<4, 5, 6>>)

\* Twenty seconds of five requests, two windows of coordinated analyses and a
\* burst of a hundred; the keys are just enough.
LoadPlan(maximum) ==
    [class |-> "candidate", rate |-> 5, seconds |-> 20, burstRate |-> 50, burstSeconds |-> 2, interval |-> 10,
     hot |-> <<1, 2, 3>>, distinct |-> [i \in 1..30 |-> 10 + i], maximum |-> maximum, observed |-> FALSE]
Smoke(burst) == [LoadPlan(11) EXCEPT !.class = "local", !.burstRate = burst, !.burstSeconds = 1]

Scheduled(phase, offset, sequence, route, class) ==
    [phase |-> phase, offset |-> offset, sequence |-> sequence, route |-> route, class |-> class]
Reply(timedOut, status, retryAfter, cache) ==
    [timedOut |-> timedOut, status |-> status, retryAfter |-> retryAfter, cache |-> cache]

\* Only one of the three measurements is under way: two of them share slots.
Runner == INSTANCE HttpPerformanceRunner WITH
    Plans <- {Sound, BenchmarkPlan(<<1, 2, 3>>, <<4, 5, 3>>), BenchmarkPlan(<<1, 2, 2>>, <<4, 5, 6>>),
              [Sound EXCEPT !.capabilities = {}], [Sound EXCEPT !.warmups = 1],
              [Sound EXCEPT !.requests = Tail(@)], [Sound EXCEPT !.requests[2].query = "other"],
              [Sound EXCEPT !.requests[3].samples[1].partition = 2]},
    Attested <- [capabilities |-> {"market"}, queries |-> [role \in {"role"} |-> "query"]],
    Singletons <- {"status"}, Cached <- {"hit", "composite"}, Uncached <- {"miss", "market-miss"},
    Composite <- "composite", Roles <- {"role"}, Optional <- [o \in {"composite", "market-miss"} |-> "market"],
    WarmupSamples <- 2,
    Answers <- {[timedOut |-> FALSE, status |-> status, cache |-> cache, identity |-> TRUE] :
                    status \in {"2xx", "5xx"}, cache \in {"hit", "miss"}}
               \cup {[timedOut |-> TRUE, status |-> Null, cache |-> Null, identity |-> FALSE],
                     [timedOut |-> FALSE, status |-> "2xx", cache |-> "hit", identity |-> FALSE]},
    MaxFaults <- 1,
    LoadPlans <- {LoadPlan(maximum) : maximum \in {11, 12, 21, 22, 23, 29, 30, 40}}
             \cup {Smoke(burst) : burst \in 1..30}
             \cup {[LoadPlan(11) EXCEPT !.distinct = SubSeq(@, 1, 29)], [LoadPlan(11) EXCEPT !.hot = <<1, 2, 11>>],
                   [LoadPlan(11) EXCEPT !.interval = 7], [Smoke(10) EXCEPT !.interval = 7],
                   [Smoke(10) EXCEPT !.seconds = 10], [Smoke(10) EXCEPT !.distinct = SubSeq(@, 1, 18)]},
    Sessions <- 5, CandidateLoad <- [rate |-> 5, seconds |-> 20, burstRate |-> 50, burstSeconds |-> 2, interval |-> 20],
    Requests <- {Scheduled("sustained", 1, 2, "analysis", "hot"), Scheduled("sustained", 2, 3, "search", Null),
                 Scheduled("coordinated", 1, 1, "analysis", "distinct"), Scheduled("burst", 1, 1, "csv", "hot")},
    HotKeys <- 1,
    Responses <- {Reply(FALSE, "2xx", FALSE, cache) : cache \in {"hit", "miss"}}
               \cup {Reply(TRUE, Null, FALSE, Null), Reply(FALSE, "503", TRUE, "miss"), Reply(FALSE, "503", FALSE, "hit")},
    Metrics <- {Null, [peak |-> 1, throttled |-> 0], [peak |-> 2, throttled |-> 1]},
    MaxFailures <- 2, MaxSamples <- 3,
    plan <- v1, schedule <- v2, step <- v3, violations <- v4, firstFailure <- v5,
    at <- v6, sample <- v7, answers <- v8, benchmarks <- v9,
    primed <- v6, answered <- v7, tally <- v8, samples <- v9, sampleError <- v10

\* Of the limits, either the sources' or the cache's: they share slots.
Bounds == INSTANCE RuntimeLimits WITH
    Sources <- {"paced", "other"}, Paced <- "paced", Token <- 18, Refill <- 10, Capacity <- 44,
    MaxSources <- 1, Retention <- 5, Costs <- <<2, 1>>, MaxTime <- 7,
    Keys <- {"a", "b", "c"}, Weights <- {1, 2, 5}, MaxBytes <- 4, MaxSets <- 4,
    now <- v1, steppedBack <- v2, buckets <- v3, promise <- v4, spent <- v5,
    nextStartAt <- v6, sent <- v7, travelling <- v8, refused <- v9,
    entries <- v1, bytes <- v2, recent <- v3, sets <- v4, deadline <- v5

\* Measurements within every limit, some of them already at it.
Samples(levels) == [i \in DOMAIN levels |-> [measured |-> levels[i], route |-> levels[i], payload |-> 1,
                                             timedOut |-> FALSE, status |-> "2xx"]]
Measured(operation, role, levels) ==
    [operation |-> operation, role |-> role, warmups |-> 1, cacheStatesVerified |-> TRUE, compressed |-> 1,
     samples |-> Samples(levels)]
Trial(level) ==
    [f \in {"lcp", "cls", "interaction", "longestTask", "critical", "firstParty", "javaScript", "result",
             "resultCompressed", "analyze", "market"} |-> level]
Explored(role) ==
    [f \in {"role", "benchmark", "scanRows", "resultRows", "resultBytes", "exportBytes", "memory", "spill",
             "queueWait", "execution", "cancellationRelease", "cancellationReleased", "cacheUnpoisoned",
             "queueUnpoisoned", "subsequentSucceeded"} |->
         CASE f = "role" -> role [] f = "benchmark" -> "query"
           [] f \in {"cancellationReleased", "cacheUnpoisoned", "queueUnpoisoned", "subsequentSucceeded"} -> TRUE
           [] OTHER -> 1]
WithinLimits(levels, middle) ==
    [class |-> "candidate", machine |-> "shared", capabilities |-> {},
     browser |-> [p \in {1, 2} |-> [role |-> IF p = 1 THEN "median" ELSE "maximum-row", failed |-> 0,
                                    trials |-> <<Trial(1), Trial(1), [Trial(middle) EXCEPT !.critical = 2,
                                        !.firstParty = 1, !.javaScript = 1, !.result = 1, !.resultCompressed = 1]>>]],
     matrix |-> [failed |-> 0, trials |-> <<[context |-> "en", lcp |-> 1, interaction |-> 2]>>],
     origin |-> <<Measured("health", Null, levels), Measured("market", "sparse", levels)>>,
     tests |-> <<[cases |-> {"replay", "rollback"}, ok |-> TRUE, runs |-> <<[status |-> "expected", results |-> <<"passed">>]>>]>>,
     queries |-> <<Explored("sparse")>>, attested |-> <<[role |-> "sparse", query |-> "query", rows |-> 1]>>,
     load |-> [plan |-> "plan", rejections |-> 0, errors |-> 0, timeouts |-> 0, cacheStatesVerified |-> TRUE,
               routeP95 |-> <<1, 1, 1, 1>>, memory |-> 1, rss |-> 1, spill |-> 1, volumeUsed |-> 1, smallSpills |-> 0,
               pressure |-> [kind |-> "shared-cpu-burst-balance", depleted |-> TRUE]],
     lifecycle |-> [f \in {"restart", "hydration", "rollback", "interruption", "recovery", "loss"} |->
                       IF f = "loss" THEN 0 ELSE 1]]
Within == WithinLimits([i \in 1..20 |-> IF i = 20 THEN 3 ELSE 1], 3)

Gates == INSTANCE PerformanceGates WITH
    Inputs <- {Within, WithinLimits([i \in 1..20 |-> IF i > 18 THEN 2 ELSE 1], 1),
               [Within EXCEPT !.lifecycle.restart = 0], [Within EXCEPT !.machine = "local"],
               [Within EXCEPT !.capabilities = {"discovery"}], [Within EXCEPT !.browser = Tail(@)],
               [Within EXCEPT !.matrix.trials = @ \o @], [Within EXCEPT !.attested[1].rows = 2],
               [Within EXCEPT !.load.plan = "smoke"]},
    Warning <- 1, Bound <- 2, TailBound <- 3, Deadline <- 4, MinimumTrials <- 3, MinimumWarmups <- 1, MinimumTimed <- 20,
    Contexts <- {"en"}, Roles <- {"sparse"}, Singletons <- {"health"}, ProductOperations <- {"market", "feed"},
    Optional <- [o \in {"feed"} |-> "discovery"], CompressedLimited <- {"market"}, Exclusive <- {"market"},
    Plan <- "plan", LaunchOperations <- {"market"}, LaunchCases <- {"replay", "rollback"}, MaxChanges <- 2,
    input <- v1, verdict <- v2, better <- v3, changes <- v4, launchable <- v5

\* The drill of a candidate rolls back to the build before the first.
Side(image, release, pairing) == [image |-> image, release |-> release, pairing |-> pairing, snapshot |-> pairing]
Drill(candidate, restored) ==
    [before |-> Side(0, 0, 1), successor |-> Side(candidate, candidate, 2), restored |-> restored]
Came(checks, drill) == [class |-> "candidate", checks |-> checks, drill |-> drill]

Promotion == INSTANCE PromotionReport WITH
    Order <- <<"http", "lifecycle", "launch">>, Launch <- "launch", Raw <- {"lifecycle"}, Lifecycle <- "lifecycle",
    RequiredChecks <- [g \in {"http", "lifecycle", "launch"} |-> IF g = "http" THEN {"cache", "deadlines"} ELSE {g}],
    MaxIdentity <- 2,
    Outcomes <- {Came([c \in {"cache", "deadlines"} |-> IF c = "cache" THEN "accepted" ELSE status], Null) : status \in {"accepted", "blocked"}}
                \cup {Came([c \in {"lifecycle"} |-> "accepted"], Drill(1, Side(release, 0, 3))) : release \in {0}},
    Amendments <- {[gate |-> "http", at |-> 0, resolution |-> resolution] :
                       resolution \in {Null} \cup [at : {1}, build : {1}]},
    MaxTime <- 3,
    now <- v1, identity <- v2, evidence <- v3, measuring <- v4, checkSets <- v5, reports <- v6,
    build <- v7, input <- v8

\* Two artifacts that declare all recipes, one of them the predecessor's
\* release again, a legacy one, and one that fails its smoke.
Capability(id) == [id |-> id, version |-> 1]
Manifest(name, release, cutoff) ==
    [release |-> release, source |-> release, artifact |-> name, cutoff |-> cutoff,
     ingested |-> 1..cutoff + 1, finalized |-> 1..cutoff, provisional |-> {cutoff + 1},
     window |-> [start |-> cutoff - 4, end |-> cutoff], report |-> "report",
     declaration |-> [finalized |-> "SCORE_INPUT", provisional |-> "SUPPORTING_EVIDENCE_ONLY",
                      missing |-> "PRESERVE_MISSINGNESS", capabilities |-> {Capability("scores")}],
     checks |-> <<>>, approval |-> "approved", accepted |-> TRUE,
     declared |-> [r \in {"trade-trend", "supplier-competition", "trade-explorer"} |-> {Capability(r)}],
     benchmarks |-> [r \in {"candidate-market", "trade-trend", "supplier-competition", "trade-explorer"} |-> 1]]
LegacyManifest ==
    [Manifest("artifact 0", 0, 10) EXCEPT !.report = Null, !.declaration = Null,
        !.checks = [i \in 1..11 |-> [year |-> i, rows |-> 2, present |-> 1, absent |-> 1]],
        !.declared = [r \in DOMAIN @ |-> Null]]
Promoted(analysis, product, index) == [analysis |-> analysis, product |-> product, index |-> index]
IndexOf(object, m, capability) ==
    [release |-> m.release, object |-> object, artifact |-> m.artifact, cutoff |-> m.cutoff, window |-> m.window,
     capabilities |-> {capability}, accepted |-> TRUE]

Pairings == INSTANCE RetainedPairings WITH
    Publishers <- {r1, r2},
    Requirements <- [r \in {"candidate-market", "trade-trend", "supplier-competition", "trade-explorer",
                            "opportunity-discovery"} |->
                        <<Capability(IF r = "candidate-market" THEN "scores" ELSE r)>>],
    Analysis <- [n \in {"a0", "a1", "a2", "a3"} |->
                    CASE n = "a0" -> LegacyManifest
                      [] n = "a1" -> Manifest("artifact 1", 1, 10)
                      [] n = "a2" -> [Manifest("artifact 2", 1, 10) EXCEPT !.declared["trade-explorer"] = Null]
                      [] n = "a3" -> [Manifest("artifact 3", 1, 10) EXCEPT !.benchmarks["trade-explorer"] = 0]],
    Product <- [n \in {"p0", "p1", "p2"} |->
                   [release |-> IF n = "p0" THEN 0 ELSE 1, source |-> IF n = "p0" THEN 0 ELSE 1, accepted |-> TRUE]],
    Opportunity <- [n \in {"x1", "x2", "x3"} |->
                 IndexOf(n, Manifest(IF n = "x3" THEN "artifact 2" ELSE "artifact 1", 1, 10),
                         Capability("opportunity-discovery"))],
    Legacy <- [release |-> 0, analysis |-> "a0", previous |-> Null, product |-> "p0", index |-> Null, at |-> 0,
               mapping |-> Null],
    Candidates <- {Promoted("a1", "p1", Null), Promoted("a1", "p1", "x1"), Promoted("a1", "p1", "x2"),
                   Promoted("a2", "p2", "x3"), Promoted("a1", "p1", "x3"),
                   Promoted("a1", "p0", Null), Promoted("a3", "p1", Null)},
    Volume <- 15, MaxOperations <- 3,
    pointer <- v1, operation <- v2, operations <- v3, runtime <- v4

\* Two workers over two alerts while the address complains or unsubscribes.
Delivery == INSTANCE AlertDelivery WITH
    Workers <- {r1, r2}, MaxAttempts <- 2, Idempotent <- FALSE, Outcomes <- {"ACCEPTED", "BOUNCE"},
    Policies <- {TRUE}, MaxEvents <- 2, MaxDeaths <- 0, MaxChanges <- 1,
    account <- v1, watch <- v2, consent <- v3, suppression <- v4, raised <- v5, delivery <- v6, job <- v7,
    accepted <- v8, mailed <- v9, sends <- v10, bounced <- v11, afterwards <- v12, deaths <- v13, changes <- v14

\* Builds 1 and 3 are of one artifact and compared with different ones; build 2
\* is of the previous artifact; build 4 has its trend bound to another release.
Evidence(build, sha, release, economies) ==
    [build |-> build, sha |-> sha, release |-> release, cutoff |-> 10, economies |-> economies, products |-> {"p"},
     cohort |-> [r \in {"candidate-market", "trade-trend", "supplier-competition", "trade-explorer",
                        "opportunity-discovery", "opportunity-detail", "recent-trade-momentum"} |->
                    IF r = "supplier-competition" THEN {} ELSE {2}]]
Bind(recipe, source, identity, evidence) ==
    [package |-> [id |-> <<recipe, identity>>, evidence |-> evidence, cutoff |-> 10], reason |-> "compatible",
     source |-> source, detail |-> IF recipe = "opportunity-discovery" /\ source # "b2" THEN source ELSE Null]
ServedBuild(source, previous, sha) ==
    [r \in {"candidate-market", "trade-trend", "supplier-competition", "trade-explorer", "opportunity-discovery",
            "recent-trade-momentum", "previous"} |->
        IF r = "previous" THEN previous
        ELSE Bind(r, IF r = "recent-trade-momentum" THEN "months" ELSE source,
                  IF r = "candidate-market" THEN <<sha, previous>> ELSE sha,
                  IF r = "recent-trade-momentum" THEN "M" ELSE sha)]
AskFor(recipe, build, economy) ==
    [recipe |-> recipe, build |-> build, economy |-> economy, product |-> "p", market |-> "2", years |-> Null]

Platform == INSTANCE AnalyticsPlatform WITH
    Windows <- {[b \in {"b1", "b2"} |->
                    IF b = "b1" THEN ServedBuild("b1", "b1 before", "A1") ELSE ServedBuild("b2", Null, "A0")],
                [b \in {"b1", "b3"} |-> ServedBuild(b, IF b = "b1" THEN "b1 before" ELSE Null, "A1")],
                [b \in {"b1"} |-> [ServedBuild("b1", Null, "A1") EXCEPT !["trade-trend"].source = "elsewhere",
                                       !["recent-trade-momentum"].package.evidence = "M 2",
                                       !["supplier-competition"].reason = "MISSING_REQUIRED_CAPABILITY"]],
                [b \in {"b1"} |-> [ServedBuild("b1", Null, "A1") EXCEPT !["trade-trend"].source = "elsewhere",
                                       !["trade-explorer"].source = "elsewhere"]]},
    Sources <- [s \in {"b1", "b2", "b3", "b1 before", "months", "elsewhere"} |->
                   CASE s = "b1" -> Evidence("b1", "A1", 2, {1, 2, 3})
                     [] s = "b2" -> Evidence("b2", "A0", 1, {1, 2})
                     [] s = "b3" -> Evidence("b3", "A1", 2, {1, 2, 3})
                     [] s = "b1 before" -> Evidence("b1", "A0", 1, {1, 2})
                     [] s = "months" -> Evidence("b1", "M", 2, {"EU"})
                     [] s = "elsewhere" -> Evidence("b1", "A9", 1, {1, 2, 3})],
    Numbers <- [e \in {"1", "01", "2", "3", "9", "x", "EU"} |->
                   CASE e \in {"1", "01"} -> 1 [] e = "2" -> 2 [] e = "3" -> 3 [] e = "9" -> 9 [] OTHER -> Null],
    Requests <- {AskFor("candidate-market", "b1", "1"), AskFor("candidate-market", "b1", "01"),
                 AskFor("candidate-market", "b1", "3"), AskFor("candidate-market", "b2", "1"),
                 AskFor("candidate-market", "b3", "1"), AskFor("trade-trend", "b1", "2"), AskFor("trade-trend", "b3", "2"),
                 AskFor("trade-trend", "b1", "x"), AskFor("supplier-competition", "b1", "2"),
                 AskFor("trade-explorer", "b1", "1"), AskFor("opportunity-discovery", "b1", "1"),
                 [AskFor("trade-explorer", "b1", "01") EXCEPT !.years = <<10, 8, 9, 7, 6>>],
                 [AskFor("trade-explorer", "b1", "1") EXCEPT !.years = <<5>>],
                 AskFor("opportunity-detail", "b1", "1"), AskFor("opportunity-detail", "b2", "1"),
                 AskFor("recent-trade-momentum", "b1", "EU")},
    Contexts <- {[build |-> "b1", exporter |-> exporter, market |-> market, product |-> "p"] :
                    exporter \in {"1", "9"}, market \in {"2", "3", "x"}},
    served <- v1, closed <- v2, call <- v3, market <- v4

\* Trade of four years and a provisional one: exporters 1, 2 and 9 (an
\* aggregate), importers 2 and 3, of which some is recorded.
Traded(year, exporter, importer, product, value) ==
    [year |-> year, exporter |-> exporter, importer |-> importer, product |-> product, value |-> value]
Always == {Traded(1, 1, 3, 1, 1), Traded(3, 1, 3, 1, 2), Traded(4, 1, 2, 2, 5), Traded(2, 9, 3, 2, 4)}
Perhaps == {Traded(2, 1, 3, 1, 3), Traded(3, 2, 3, 1, 3), Traded(5, 9, 3, 1, 1), Traded(4, 9, 3, 1, 7)}
Trends == {[recipe |-> "trade-trend", build |-> b, importer |-> i, product |-> p] :
              <<b, i, p>> \in {<<1, 3, 1>>, <<1, 9, 1>>, <<1, 3, 7>>, <<2, 3, 1>>}}
Competitions == {[recipe |-> "supplier-competition", build |-> 1, importer |-> 3, product |-> p] : p \in {1, 7}}
CandidateMarkets == {[recipe |-> "candidate-market", build |-> 1, exporter |-> e, product |-> 1] : e \in {1, 9}}
Explore(dimension, exporters, importers, products, years, measures, key, direction) ==
    [recipe |-> "trade-explorer", build |-> 1, dimension |-> dimension, exporters |-> exporters,
     importers |-> importers, products |-> products, years |-> years, measures |-> measures,
     sort |-> [key |-> key, direction |-> direction]]
Both == <<"TRADE_VALUE_USD", "RECORDED_FLOW_COUNT">>
Explorations ==
    {Explore("YEAR", <<1>>, <<3>>, <<1>>, <<2, 3, 4>>, Both, "TRADE_VALUE_USD", "desc"),
     Explore("EXPORT_ECONOMY", <<1, 2>>, <<3>>, <<1>>, <<3>>, Both, "EXPORT_ECONOMY", "desc"),
     Explore("IMPORT_ECONOMY", <<1>>, <<2, 3>>, <<1>>, <<3>>, <<"RECORDED_FLOW_COUNT">>, "RECORDED_FLOW_COUNT", "asc"),
     Explore("HS_PRODUCT", <<1>>, <<3>>, <<1, 2>>, <<2>>, <<"TRADE_VALUE_USD">>, "TRADE_VALUE_USD", "asc"),
     Explore("YEAR", <<9>>, <<3>>, <<1>>, <<2>>, Both, "YEAR", "asc")}

Recipes == INSTANCE TradeEvidence WITH
    Digits <- 1, MaxCohort <- 2,
    Artifacts <- {[flows |-> flows, kind |-> [e \in {1, 2, 3, 9} |-> IF e = 9 THEN "AGGREGATE" ELSE "ECONOMY"],
                   products |-> {1, 2}] : flows \in {Always \cup some : some \in SUBSET Perhaps}},
    Questions <- Trends \cup Competitions \cup CandidateMarkets \cup Explorations,
    Build <- 1, Finalized <- 1..4, Years <- 2..4, Provisional <- 5, Requests <- {r1, r2},
    artifact <- v1, closed <- v2, coverage <- v3, request <- v4

\* Candidate Market Scores: three markets with histories of their own, a cohort
\* of eleven whose ranks are upset in the last three years, and releases that
\* cannot be scored.
Selling(e, how) ==
    CASE how = "ours" -> [selected |-> 2^(e - 1), others |-> <<2^(e - 1)>>]
      [] how = "theirs" -> [selected |-> Null, others |-> <<2^(e - 1), 2^(e - 2), 2^(e - 2)>>]
      [] how = "only" -> [selected |-> 2^e, others |-> <<>>]
ScoreRow(market, year, e, how) ==
    LET others == Selling(e, how).others
    IN  [market |-> market, year |-> year, world |-> 2^e, selected |-> Selling(e, how).selected,
         suppliers |-> Len(others), others |-> SumFunction(others),
         squares |-> SumFunction([i \in DOMAIN others |-> others[i]^2])]
Histories ==
    {[year \in 16..20 |-> <<9, "theirs">>], [year \in 16..19 |-> <<9, "theirs">>],
     [year \in 16..20 |-> <<year - 8, "ours">>],
     [year \in 18..20 |-> <<10 + 2 * (18 - year), "theirs">>],
     [year \in {19} |-> <<7, "only">>],
     [year \in 11..19 |-> <<8, "ours">>]}
RowsOf(history) ==
    {ScoreRow(p[1], p[2], history[p[1]][p[2]][1], history[p[1]][p[2]][2]) :
        p \in UNION {{m} \X DOMAIN history[m] : m \in DOMAIN history}}
ScoreRelease(name, cutoff, rows, totals) ==
    [name |-> name, revision |-> "HS12", cutoff |-> cutoff, years |-> 11..(cutoff + 1), known |-> TRUE,
     rows |-> {row \in rows : row.year <= cutoff}, provisional |-> {row \in rows : row.year = cutoff + 1},
     totals |-> [year \in {y \in DOMAIN totals : y <= cutoff} |-> totals[year]]]
Level == [year \in 11..20 |-> 4096]
Leap == [year \in 11..20 |-> IF year < 18 THEN 1024 ELSE 4096]
Upset == RowsOf([m \in 1..11 |-> [year \in 14..20 |->
                    <<IF m < 6 THEN (IF year < 18 THEN 7 + m ELSE 6) ELSE IF year < 18 THEN 6 ELSE 4 + (m \div 2), "theirs">>]])
ThreeMarkets == {RowsOf([m \in {1, 2, 490} |-> IF m = 1 THEN a ELSE IF m = 2 THEN b ELSE c]) : a, b, c \in Histories}
Inconsistent == {[ScoreRow(1, 20, 9, "ours") EXCEPT !.selected = 1024]}
ThreeAlike == [m \in {1, 2, 490} |-> [year \in 16..20 |-> <<9, "theirs">>]]
Varied == RowsOf([ThreeAlike EXCEPT ![2] = [year \in 16..20 |-> <<year - 8, "ours">>],
                                    ![490] = [year \in {19} |-> <<7, "only">>]])

Scores == INSTANCE CandidateScore WITH
    Releases <- {ScoreRelease("V2", 20, rows, Level) : rows \in ThreeMarkets}
                \cup {ScoreRelease("V2", 20, Upset, Leap), ScoreRelease("V2", 20, {}, <<>>),
                      ScoreRelease("V2", 20, Inconsistent, Level),
                      ScoreRelease("V2", 20, Varied, [year \in {11, 20} |-> 4096]),
                      [ScoreRelease("V2", 20, Varied, Level) EXCEPT !.known = FALSE]},
    PreviousReleases <- {ScoreRelease("V1", 19, Varied, Level), ScoreRelease("V1", 19, Upset, Level),
                         ScoreRelease("V2", 20, Varied, Level), ScoreRelease("V1", 19, Inconsistent, Level),
                         [ScoreRelease("V1", 19, Varied, Level) EXCEPT !.known = FALSE],
                         [ScoreRelease("V1", 19, Varied, Level) EXCEPT !.years = 17..20],
                         [ScoreRelease("V1", 19, Varied, Level) EXCEPT !.revision = "HS17"],
                         ScoreRelease("V1", 19, RowsOf(ThreeAlike), Level)},
    current <- v1, previous <- v2, answer <- v3

\* Explorer questions of two measures, codes written in two ways and malformed
\* ones, and addresses with a parameter twice.
Code(n) == [number |-> n, written |-> "plain"]
Zeroed(n) == [number |-> n, written |-> "zeroed"]
Wrong == [number |-> Null, written |-> "letters"]
YearFilters ==
    {[mode |-> "list", years |-> years] : years \in {<<>>, <<2>>, <<3, 1>>, <<2, 2>>, <<1, 2, 2, 3>>, <<5>>}}
    \cup {[mode |-> "range", start |-> p[1], end |-> p[2]] : p \in {<<1, 3>>, <<2, 2>>, <<3, 2>>, <<1, 4>>, <<0, 1>>}}
Importers == {<<Code(7)>>, <<Code(7), Zeroed(7)>>, <<Code(9), Code(7)>>, <<>>, <<Wrong>>,
              <<Code(7), Code(8), Code(9), Code(9)>>}
ExplorerQuestion(shape, dimensions, measures, year, importers, products, sort, exact) ==
    [shape |-> shape, dimensions |-> dimensions, measures |-> measures, year |-> year,
     filters |-> [d \in {"EXPORT_ECONOMY", "IMPORT_ECONOMY", "HS_PRODUCT"} |->
                     CASE d = "EXPORT_ECONOMY" -> <<Code(1)>> [] d = "IMPORT_ECONOMY" -> importers [] OTHER -> products],
     sort |-> sort, exact |-> exact]
Sorts == {Null, [key |-> "RECORDED_FLOW_COUNT", direction |-> "desc"], [key |-> "IMPORT_ECONOMY", direction |-> "asc"],
          [key |-> "YEAR", direction |-> "up"]}
ExplorerQuestions ==
    {ExplorerQuestion(p[1], <<p[2]>>, measures, year, importers, <<Code(3)>>, sort, TRUE) :
        p \in {<<"finalized-trend-v1", "YEAR">>, <<"importing-markets-v1", "IMPORT_ECONOMY">>},
        measures \in {<<"TRADE_VALUE_USD">>, <<"RECORDED_FLOW_COUNT", "TRADE_VALUE_USD">>},
        year \in YearFilters, importers \in Importers, sort \in Sorts}
    \cup {ExplorerQuestion(p[1], p[2], measures, [mode |-> "list", years |-> <<2>>], <<Code(7)>>, products, Null, exact) :
            p \in {<<"product-mix-v1", <<"HS_PRODUCT">>>>, <<"product-mix-v1", <<"YEAR">>>>,
                   <<"supplying-economies-v1", <<"EXPORT_ECONOMY">>>>, <<"shares-v1", <<"YEAR">>>>},
            measures \in {<<>>, <<"TRADE_VALUE_USD", "TRADE_VALUE_USD">>, <<"WEIGHT">>},
            products \in {<<Code(4), Code(3)>>, <<Code(3)>>}, exact \in BOOLEAN}
\* Old and new links, with codes in another order and another writing, lists
\* that are too long or malformed, pins of three builds, and of none.  The first
\* build has no explorer.
Package(build, recipe) == <<build, recipe>>
RecipeNames == {"opportunity-discovery", "candidate-market", "trade-trend", "supplier-competition", "trade-explorer"}
LinkOf(parameters) == [n \in {n \in DOMAIN parameters : parameters[n] # Null} |-> parameters[n]]
ScopeLinks ==
    {LinkOf([recipe |-> recipe, exporter |-> exporter, market |-> market, revision |-> product[1], product |-> product[2],
             products |-> products]) :
        recipe \in {Null, "candidate-market-v0", "opportunity-discovery", "candidate-market"},
        exporter \in {Null, Zeroed(7)}, market \in {Null, Code(9)},
        product \in {<<Null, Null>>, <<"HS12", Code(3)>>, <<"HS17", Code(3)>>},
        products \in {Null, <<Code(4), Code(3)>>, <<Code(3), Code(4), Code(5)>>, <<Code(3), Wrong>>}}
    \cup {LinkOf([recipe |-> "opportunity-discovery", exporter |-> exporter, market |-> Code(9), focusProduct |-> Code(4),
                  portfolio |-> "filter", build |-> 1, pkg |-> Package(1, "opportunity-discovery")]) :
            exporter \in {Null, Code(7), Wrong}}
ImporterLinks ==
    {LinkOf([task |-> task, importer |-> Code(7), revision |-> "HS12", product |-> product, build |-> 1, pkg |-> pkg]) :
        task \in {"trade-trend", "supplier-competition", "trade-explorer"}, product \in {Code(3), Wrong},
        pkg \in {Null, Package(1, "trade-trend"), Package(2, "trade-trend")}}
ExplorerLinks ==
    {LinkOf([recipe |-> "trade-explorer", shape |-> shape, measures |-> measures, years |-> years,
             exportEconomy |-> <<Code(9), Zeroed(7)>>, importEconomy |-> importers, hsProduct |-> products,
             sortKey |-> key, sortDirection |-> "desc"]) :
        shape \in {"product-mix-v1", "shares-v1"}, measures \in {Null, <<"RECORDED_FLOW_COUNT", "TRADE_VALUE_USD">>},
        years \in {<<3, 1, 3>>, <<1, Null>>}, importers \in {<<Zeroed(7)>>, <<Code(7), Zeroed(7)>>},
        products \in {<<Code(4)>>, <<Code(5), Code(4), Code(3)>>}, key \in {Null, "HS_PRODUCT", "RECORDED_FLOW_COUNT"}}

Question == INSTANCE ExplorerQuery WITH
    Asked <- ExplorerQuestions, FinalizedWindow <- 1..3, MaxFilterCodes <- 3, MaxYears <- 3,
    Typed <- ScopeLinks \cup ImporterLinks \cup ExplorerLinks, MaxProductCodes <- 2, WindowLength <- 2,
    Recommended <- [build \in 1..3 |-> [recipe \in RecipeNames |->
                       IF build = 1 /\ recipe = "trade-explorer" THEN Null ELSE Package(build, recipe)]],
    link <- v1, context <- v2, deployed <- v3,
    Addresses <- {[shape |-> shapes, measures |-> <<<<"TRADE_VALUE_USD">>>>, years |-> years,
                   filters |-> [d \in {"EXPORT_ECONOMY", "IMPORT_ECONOMY", "HS_PRODUCT"} |-> codes],
                   sortKey |-> <<>>, sortDirection |-> directions, unknown |-> unknown] :
                      shapes \in {<<>>, <<"finalized-trend-v1">>, <<"shares-v1", "finalized-trend-v1">>},
                      years \in {<<>>, <<<<2>>>>, <<<<1>>, <<2>>>>}, codes \in {<<>>, <<<<Code(7)>>>>},
                      directions \in {<<>>, <<"asc">>}, unknown \in BOOLEAN},
    question <- v1, address <- v2, posted <- v3, gotten <- v4

\* Opportunities of two exporters in five markets of two products: markets that
\* are alike in everything, that end before the cutoff, that appear in one year
\* only, and compared with a release of the same or of other evidence.
MarketYears(product, market, history) ==
    {[product |-> product, market |-> market, year |-> y, world |-> 2^history[y]] : y \in DOMAIN history}
Enduring == [y \in 11..20 |-> 10]
Rising == [y \in 16..20 |-> y - 8]
Waning == [y \in 11..17 |-> 21 - y]
Recent == [y \in {19, 20} |-> 7]
Former == [y \in 11..14 |-> 10]
Exports(exporter, product, market, years, value) ==
    {[exporter |-> exporter, product |-> product, market |-> market, year |-> y, value |-> value] : y \in years}
ArtifactOf(a, b, c, flows, totals, before) ==
    [cutoff |-> 20, kind |-> [e \in {1, 2, 3, 9, 490} |-> IF e = 9 THEN "AGGREGATE" ELSE "ECONOMY"],
     traded |-> {1, 2, 3, 490}, codes |-> {10, 20}, totals |-> [code \in {10, 20} |-> IF code = 10 THEN Level ELSE totals],
     markets |-> MarketYears(10, 2, a) \cup MarketYears(10, 3, b) \cup MarketYears(20, 3, c)
                 \cup MarketYears(20, 490, Enduring) \cup MarketYears(20, 1, Rising),
     flows |-> flows, before |-> before]
EarlyFlows == Exports(1, 10, 2, 16..17, 16)
FlowsOfBoth == Exports(1, 20, 3, 16..17, 16) \cup Exports(1, 10, 2, 17..20, 64) \cup Exports(1, 20, 490, {20}, 512)
               \cup Exports(2, 20, 3, 16..17, 8) \cup Exports(2, 10, 3, 12..14, 8)
Gapped == [y \in (11..20) \ {15} |-> IF y < 15 THEN 512 ELSE 8192]
Opportunities ==
    {ArtifactOf(a, b, c, flows, totals, Null) :
        a \in {Enduring, Rising}, b \in {Enduring, Recent}, c \in {Enduring, Waning},
        flows \in {EarlyFlows, FlowsOfBoth}, totals \in {Level, Gapped}}
    \cup {ArtifactOf(Enduring, Rising, Enduring, FlowsOfBoth, Level,
                     ArtifactOf(a, Rising, Enduring, FlowsOfBoth, Level, Null)) : a \in {Enduring, Recent, Former}}
Offers == INSTANCE OpportunityPages WITH
    Artifacts <- Opportunities, Limits <- {1, 3},
    Queries <- [exporter : {1}, products : {Null, {10}, {}, {30}}] \cup [exporter : {2, 9}, products : {Null}],
    Details <- {[exporter |-> 1, product |-> p[1], market |-> p[2]] :
                   p \in {<<10, 2>>, <<10, 3>>, <<20, 1>>, <<20, 3>>, <<20, 490>>, <<20, 2>>, <<30, 2>>}},
    artifact <- v1, cohorts <- v2, index <- v3, feed <- v4, other <- v5, detail <- v6

\* Routes: each with the parameters it accepts and some it does not, two
\* answers of one result and another identity, and what may go wrong.
RouteKeys ==
    [route \in {"candidate-markets", "trade-trends", "supplier-competitions", "market-analysis",
                "recent-trade-momentum", "opportunities", "opportunity-detail", "trade-explorer", "economies",
                "products"} |->
        CASE route = "candidate-markets" -> {"exporter", "product"}
          [] route \in {"trade-trends", "supplier-competitions"} -> {"importer", "product"}
          [] route = "market-analysis" -> {"exporter", "product", "market"}
          [] route = "recent-trade-momentum" -> {"reporter", "product"}
          [] route \in {"opportunities", "opportunity-detail"} -> {"exporter"}
          [] route = "trade-explorer" -> {}
          [] route = "economies" -> {"q"}
          [] route = "products" -> {"q", "locale", "limit"}]
RouteRequest(method, keys, values) ==
    [method |-> method, parameters |-> [key \in keys |-> 1], values |-> values, gzip |-> FALSE, condition |-> Null,
     body |-> Null]
Posting(declared, chunks, aborted, reason, content) ==
    [RouteRequest("POST", {}, TRUE) EXCEPT
        !.body = [declared |-> declared, chunks |-> chunks, aborted |-> aborted, reason |-> reason,
                  content |-> content]]
Chunk(size, text) == [size |-> size, text |-> text]
GoneAway == [family |-> "other", code |-> "INTERNAL_ERROR", status |-> 500, wait |-> Null]
Posts ==
    {Posting(declared, <<Chunk(2, TRUE)>>, Null, Null, "question") : declared \in {-1, 0, 2, 4}}
        \union {Posting(0, <<Chunk(2, TRUE), Chunk(2, text)>>, aborted, GoneAway, "question") :
                   text \in BOOLEAN, aborted \in {Null, 2}}
        \union {Posting(1, <<>>, Null, Null, "question"), Posting(0, <<Chunk(1, TRUE)>>, Null, Null, "no question")}
RouteRequests(route) ==
    LET values == CASE route = "trade-explorer" -> TRUE
                    [] route = "products" -> [locale |-> "en", limit |-> 20]
                    [] OTHER -> Null
        good == RouteRequest("GET", RouteKeys[route], values)
    IN {good, [good EXCEPT !.gzip = TRUE], [good EXCEPT !.method = "HEAD"],
        [good EXCEPT !.parameters = @ @@ ("exporter" :> 2)],
        [good EXCEPT !.parameters = @ @@ ("exporter" :> 1)]}
       \union (CASE route = "trade-explorer" -> Posts \union {[good EXCEPT !.values = FALSE]}
                 [] route = "products" -> {[good EXCEPT !.values.limit = 21], [good EXCEPT !.values.locale = "de"]}
                 [] OTHER -> {})
RouteOutcome(state, code) ==
    [state |-> state, code |-> code, wait |-> IF state \in {"capacity", "rate-limit"} THEN 2 ELSE Null,
     recipe |-> Null, payload |-> Null]
Succeeding(state, identity) ==
    [RouteOutcome(state, Null) EXCEPT !.payload = [result |-> "result", identity |-> identity, large |-> identity = "a"]]
UnknownCodes(route) ==
    CASE route = "candidate-markets" -> {"UNKNOWN_EXPORTER", "UNKNOWN_PRODUCT"}
      [] route \in {"trade-trends", "supplier-competitions"} -> {"UNKNOWN_IMPORTER", "UNKNOWN_PRODUCT"}
      [] route = "recent-trade-momentum" -> {"UNKNOWN_REPORTER"}
      [] route = "opportunities" -> {"INVALID_CURSOR", "UNKNOWN_HS_PRODUCT"}
      [] route = "opportunity-detail" -> {"UNKNOWN_EXPORT_ECONOMY"}
      [] route = "trade-explorer" -> {"YEAR_FILTER_INVALID", "UNKNOWN_IMPORT_ECONOMY"}
      [] OTHER -> {}
Failing ==
    {RouteOutcome(state, Null) : state \in {"retired", "capacity", "rate-limit", "budget", "incompatible-package",
                                            "temporary-unavailability"}}
Broken == {RouteOutcome("thrown", code) : code \in {"deadline", "other"}}
RouteOutcomes(route) ==
    {Succeeding("success", i) : i \in {"a", "b"}} \union
    {[o EXCEPT !.recipe = IF route = "market-analysis" THEN "trade-trend" ELSE Null] : o \in Broken} \union
    (CASE route = "economies" ->
              {RouteOutcome("failed", code) : code \in {"ANALYSIS_BUILD_RETIRED", "ANALYSIS_UNAVAILABLE"}}
       [] route = "products" ->
              {RouteOutcome("failed", code) : code \in {"PRODUCT_SEARCH_BUILD_RETIRED", "PRODUCT_SEARCH_UNAVAILABLE"}}
       [] route = "market-analysis" ->
              {RouteOutcome("not-found", Null)}
                  \union {[o EXCEPT !.recipe = recipe] :
                             o \in Failing, recipe \in {"candidate-market", "trade-trend", "supplier-competition"}}
       [] OTHER ->
              Failing \union {RouteOutcome("invalid-input", code) : code \in {"INVALID_ANALYSIS_QUERY"} \union UnknownCodes(route)}
                  \union (IF route \in {"candidate-markets", "supplier-competitions", "opportunities", "trade-explorer"}
                          THEN {Succeeding("empty", "b")} ELSE {}))

Routes == INSTANCE AnalysisRoutes WITH
    Addresses <- DOMAIN RouteKeys, Requests <- RouteRequests, Outcomes <- RouteOutcomes, MaxBodyBytes <- 3,
    Hops <- 1, MaxExchanges <- 2,
    address <- v1, exchange <- v2, held <- v3, stored <- v4, asked <- v5

\* Exports: a second release is deployed over the first, and is rolled back or
\* followed by a third; it was published when its check was overdue.
FreshnessSnapshot(id, checked, served, detected, delayed, published) ==
    [id |-> id, checkedAt |-> checked, served |-> served, detectedAt |-> detected, delayed |-> delayed,
     publishedAt |-> published]
FirstPublished == FreshnessSnapshot("a0", 0, 1, Null, FALSE, 0)
FirstAgain == FreshnessSnapshot("a3", 2, 1, 1, TRUE, 3)
SecondPublished == FreshnessSnapshot("b2", -1, 2, Null, FALSE, 2)
ThirdPublished == FreshnessSnapshot("c3", 3, 3, Null, FALSE, 3)
Deployed(build, fallback) == [build |-> build, catalog |-> build, release |-> build, fallback |-> fallback]
DeployedWindows ==
    {<<Deployed(1, FirstPublished)>>, <<Deployed(2, SecondPublished), Deployed(1, FirstPublished)>>,
     <<Deployed(1, FirstAgain), Deployed(2, SecondPublished)>>,
     <<Deployed(3, ThirdPublished), Deployed(2, SecondPublished)>>}
PolledSnapshots == {FreshnessSnapshot("a1", 1, 1, 1, FALSE, 1), FirstAgain}

Downloads == INSTANCE ExportRoutes WITH
    Kinds <- {"candidateMarket", "tradeExplorer"}, Windows <- DeployedWindows, Snapshots <- PolledSnapshots,
    DueAfter <- 2, OverdueAfter <- 3, SharedAge <- 2, MaxTime <- 3, MaxExports <- 2,
    now <- v1, window <- v2, status <- v3, kept <- v4, page <- v5, cached <- v6, export <- v7, answers <- v8

\* A month of four hundred minutes: probed in one or two runs, of which some
\* overlap, leave a gap or ask another deployment.
Probing(start, minutes, analysis, identity) ==
    [start |-> start, minutes |-> minutes, manifest |-> "success", analysis |-> analysis, identity |-> identity]
RequiredAlerts ==
    <<"route-latency-target-miss", "http-5xx-rate", "queue-wait", "shared-cpu-throttle", "duckdb-spill",
      "cgroup-memory", "process-rss", "volume-free", "status-pointer-poll", "known-refresh-failure",
      "refresh-duration", "monthly-error-budget", "monthly-cost-forecast">>
Quiet == [i \in 1..13 |-> [signal |-> RequiredAlerts[i], severity |-> "ok", identity |-> "served"]]
CpuLevels == [throttled : {50, 51}, minutes : {14, 15}, failsGate : BOOLEAN]
UsedLevels == [used : {750, 751, 849, 850}, minutes : {14, 15}]

Levels == INSTANCE ServiceLevels WITH
    Windows <- {"hit", "miss"}, Volumes <- {1, 399}, MaxCounted <- 2, MaxRuns <- 2,
    FirstMinute <- 0, EndMinute <- 400,
    Runs <- {Probing(0, 400, "success", "served"), Probing(0, 399, "success", "served"),
             Probing(399, 1, "timeout", "served"),
             Probing(399, 1, "success", "other")},
    Reported <- {Quiet, Append(Tail(Quiet), Quiet[2]), [Quiet EXCEPT ![3].severity = "warn"],
                 [Quiet EXCEPT ![1].identity = "other"]},
    Conditions <-
        [name \in ToSet(RequiredAlerts) |->
            CASE name = "route-latency-target-miss" -> [missMinutes : {4, 5, 14, 15}]
              [] name = "http-5xx-rate" -> [errors : {0, 1, 2, 5, 6}, total : {0, 20, 100, 120}]
              [] name = "queue-wait" -> [seconds : {1, 2}, rejected : BOOLEAN, depth : {15, 16}]
              [] name = "shared-cpu-throttle" -> CpuLevels
              [] name = "duckdb-spill" -> [smallSpilled : BOOLEAN, spilled : {100, 101}, minutes : {14, 15},
                                           capError : BOOLEAN]
              [] name = "cgroup-memory" -> {[used |-> x.used, minutes |-> x.minutes, oom |-> oom] :
                                               x \in UsedLevels, oom \in BOOLEAN}
              [] name = "process-rss" -> UsedLevels
              [] name = "volume-free" -> [free : {249, 250, 299, 300}]
              [] name = "status-pointer-poll" -> [failures : {2, 3}, transition : {"none", "overdue", "delayed"}]
              [] name = "known-refresh-failure" -> [occurred : BOOLEAN]
              [] name = "refresh-duration" -> [hours : {24, 25, 48, 49}]
              [] name = "monthly-error-budget" -> [consumed : {499, 500, 799, 800}]
              [] name = "monthly-cost-forecast" -> [dollars : {40, 41, 50, 51}, approved : BOOLEAN]],
    requests <- v1, counted <- v2, intervals <- v3, alerts <- v4, report <- v5,
    signal <- v1, condition <- v2, peak <- v3

Init ==
    \/ part = "levels" /\ Levels!MonthInit /\ Null6
    \/ part = "alerts" /\ Levels!SignalInit /\ Null4
    \/ part = "exports" /\ Downloads!Init /\ Null9
    \/ part = "routes" /\ Routes!Init /\ Null6
    \/ part = "pages" /\ Offers!Init /\ Null7
    \/ part = "query" /\ Question!Init /\ Null5
    \/ part = "score" /\ Scores!Init /\ Null4
    \/ part = "evidence" /\ Recipes!Init /\ Null5
    \/ part = "platform" /\ Platform!Init /\ Null5
    \/ part = "delivery" /\ Delivery!Init /\ Null15
    \/ part = "pairings" /\ Pairings!Init /\ Null5
    \/ part = "promotion" /\ Promotion!Init /\ Null9
    \/ part = "gates" /\ Gates!Init /\ Null6
    \/ part = "benchmark" /\ Runner!BenchmarkInit /\ v2 = Null /\ Null10
    \/ part = "schedule" /\ Runner!ScheduleInit /\ Null3
    \/ part = "load" /\ Runner!RunInit /\ v1 = Null /\ v2 = Null /\ Null11
    \/ part = "limit" /\ Bounds!LimitInit /\ Null10
    \/ part = "cache" /\ Bounds!CacheInit /\ Null6
    \/ part = "eurostat" /\ Eurostat!Init /\ Null5
    \/ part = "momentum" /\ Momentum!Init /\ Null8
    \/ part = "artifact" /\ Artifact!Init /\ Null7
    \/ part = "index" /\ Index!Init /\ Null10
    \/ part = "staging" /\ Staging!Init /\ Null9
    \/ part = "poller" /\ Poller!Init /\ Null10
    \/ part = "pool" /\ Pool!Init /\ Null10
    \/ part = "accounts" /\ Accounts!Init /\ Null10
    \/ part = "store" /\ Store!Init /\ Null9
    \/ part = "discovery" /\ Discovery!Init
    \/ part = "control" /\ Discovery!BoxInit /\ Null12
    \/ part = "links" /\ Question!LinkInit /\ Null4
    \/ part = "feed" /\ Feed!Init /\ Null13

Next ==
    \/ part = "levels" /\ Levels!MonthNext /\ UNCHANGED <<part, From6>>
    \/ part = "alerts" /\ Levels!SignalNext /\ UNCHANGED <<part, From4>>
    \/ part = "exports" /\ Downloads!Next /\ UNCHANGED <<part, From9>>
    \/ part = "routes" /\ Routes!Next /\ UNCHANGED <<part, From6>>
    \/ part = "pages" /\ Offers!Next /\ UNCHANGED <<part, From7>>
    \/ part = "query" /\ Question!Next /\ UNCHANGED <<part, From5>>
    \/ part = "score" /\ Scores!Next /\ UNCHANGED <<part, From4>>
    \/ part = "evidence" /\ Recipes!Next /\ UNCHANGED <<part, From5>>
    \/ part = "platform" /\ Platform!Next /\ UNCHANGED <<part, From5>>
    \/ part = "delivery" /\ Delivery!Next /\ UNCHANGED <<part, v15>>
    \/ part = "pairings" /\ Pairings!Next /\ UNCHANGED <<part, From5>>
    \/ part = "promotion" /\ Promotion!Next /\ UNCHANGED <<part, From9>>
    \/ part = "gates" /\ Gates!Next /\ UNCHANGED <<part, From6>>
    \/ part = "benchmark" /\ Runner!BenchmarkNext /\ UNCHANGED <<part, v2, From10>>
    \/ part = "schedule" /\ Runner!ScheduleNext /\ UNCHANGED <<part, From3>>
    \/ part = "load" /\ Runner!RunNext /\ UNCHANGED <<part, v1, v2, From11>>
    \/ part = "limit" /\ Bounds!LimitNext /\ UNCHANGED <<part, From10>>
    \/ part = "cache" /\ Bounds!CacheNext /\ UNCHANGED <<part, From6>>
    \/ part = "eurostat" /\ Eurostat!Next /\ UNCHANGED <<part, From5>>
    \/ part = "momentum" /\ Momentum!Next /\ UNCHANGED <<part, From8>>
    \/ part = "artifact" /\ Artifact!Next /\ UNCHANGED <<part, From7>>
    \/ part = "index" /\ Index!Next /\ UNCHANGED <<part, From10>>
    \/ part = "staging" /\ Staging!Next /\ UNCHANGED <<part, From9>>
    \/ part = "poller" /\ Poller!Next /\ UNCHANGED <<part, From10>>
    \/ part = "pool" /\ Pool!Next /\ UNCHANGED <<part, From10>>
    \/ part = "accounts" /\ Accounts!Next /\ UNCHANGED <<part, From10>>
    \/ part = "store" /\ Store!Next /\ UNCHANGED <<part, From9>>
    \/ part = "discovery" /\ Discovery!Next /\ UNCHANGED part
    \/ part = "control" /\ Discovery!BoxNext /\ UNCHANGED <<part, From12>>
    \/ part = "links" /\ Question!LinkNext /\ UNCHANGED <<part, From4>>
    \/ part = "feed" /\ Feed!Next /\ UNCHANGED <<part, From13>>

\* The fairness of each component, as its module justifies it.
PollerFairness ==
    /\ WF_vars(part = "poller" /\ Poller!Fire /\ UNCHANGED <<part, From10>>)
    /\ WF_vars(part = "poller" /\ (Poller!Answer \/ Poller!TimeOut) /\ UNCHANGED <<part, From10>>)
    /\ SF_vars(part = "poller" /\ Poller!Answer /\ UNCHANGED <<part, From10>>)
PoolFairness ==
    \A r \in {"r1", "r2", "r3"} :
        /\ WF_vars(part = "pool" /\ Pool!Acquire(r) /\ UNCHANGED <<part, From10>>)
        /\ WF_vars(part = "pool" /\ Pool!Abort(r) /\ UNCHANGED <<part, From10>>)
        /\ WF_vars(part = "pool" /\ Pool!Enter(r) /\ UNCHANGED <<part, From10>>)
        /\ WF_vars(part = "pool" /\ Pool!Execute(r) /\ UNCHANGED <<part, From10>>)
        /\ WF_vars(part = "pool" /\ Pool!Finish(r) /\ UNCHANGED <<part, From10>>)
        /\ WF_vars(part = "pool" /\ Pool!Interrupt(r) /\ UNCHANGED <<part, From10>>)
DiscoveryFairness ==
    /\ WF_vars(part = "discovery" /\ (Discovery!ManifestArrives \/ Discovery!ManifestFails) /\ UNCHANGED part)
    /\ WF_vars(part = "discovery" /\ (Discovery!AnalysisArrives \/ Discovery!AnalysisFails) /\ UNCHANGED part)

Spec == Init /\ [][Next]_vars /\ PollerFairness /\ PoolFairness /\ DiscoveryFairness

\* The promotions and rollbacks alone.
PairingsSpec == Init /\ part = "pairings" /\ [][Next]_vars
-----------------------------------------------------------------------------
\* The properties of the components: each module states its own in full.

\* The served status never goes back and stays resolvable, poller and runtime
\* agree about it, and an activation succeeds the deployment that is active.
ServedMovesForward ==
    [][/\ part = "poller" => Poller!NoRegress /\ Poller!PollerAgreesWithRuntime'
       /\ part = "pairings" => Pairings!ActivationsAreAChain]_vars

\* Every connection is available once or held by one request, and an interrupt
\* strikes the query of the aborted request only.
PoolIsSound == part = "pool" => Pool!PoolIsSound

\* Rows belong to the account that exists, a recovery token lets one request
\* through, and the trail of a deleted account ends with its deletion.
NothingOutlivesTheAccount ==
    [][part = "accounts" => /\ Accounts!NoLateEvent
                            /\ Accounts!NothingOutlivesTheAccount'
                            /\ Accounts!TokenUsedOnce']_vars

\* No two instances hold the store under leases that run, and PostgreSQL holds
\* what one migrator read, whole, or nothing.
StoreIsWhole == part = "store" => Store!StoreIsWhole

\* What a builder publishes is whole, checked and what its inputs say.
BuildsAreWhole ==
    /\ part = "staging" => Staging!StagedIsThePinned
    /\ part = "artifact" => Artifact!ArtifactIsWhole
    /\ part = "index" => Index!IndexIsWhole
    /\ part = "momentum" => Momentum!MomentumIsSound
    /\ part = "eurostat" => Eurostat!AcceptedIsIdentifiedTrade

\* What a page shows is the newest answer to what its URL names: the analysis
\* is the selected candidate's, and a feed is a prefix of one cohort.
PagesShowWhatTheyName ==
    /\ part = "discovery" => Discovery!MarketIsTheSelected /\ Discovery!UrlNamesTheRanking
    /\ part = "control" => Discovery!ControlsNameTheirChoice
    /\ part = "links" => Question!LinksAreTrue
    /\ part = "feed" => Feed!UrlNamesTheFeed /\ Feed!FeedIsAPrefix

\* A measurement asks what its plan says, each uncached question once, and its
\* report says what was answered.
MeasurementsAreHonest ==
    /\ part = "benchmark" => Runner!ReportIsHonest /\ Runner!SamplesAreFresh
    /\ part = "schedule" => Runner!ScheduleIsFair
    /\ part = "gates" => Gates!GatesAreSound
    /\ part = "promotion" => Promotion!PromotionIsDeserved
    /\ part = "levels" => Levels!AcceptedMonthsAreAvailable
    /\ part = "alerts" => Levels!NoAlertSoftens
    /\ part = "load" => Runner!FirstFailureIsTheFirst /\ Runner!MeasurementIsWhole

\* Nobody is admitted, kept or refused beyond the limits the runtime states.
LimitsAreKept ==
    /\ part = "limit" => Bounds!LimitIsKept
    /\ part = "delivery" => Delivery!BouncesAreSuppressed
    /\ part = "cache" => Bounds!CacheIsAccounted /\ Bounds!DisposedIsFinal

\* What a build answers, it answers from the evidence, the packages and the
\* catalogs that its own deployment pins.
AnswersAreOfTheEvidence ==
    /\ part = "exports" => Downloads!ExportsAreOfOneStatus
    /\ part = "routes" => Routes!RoutesAnswerTruly
    /\ part = "pages" => Offers!OpportunitiesAreSound
    /\ part = "query" => Question!QuestionsAreUnderstood
    /\ part = "score" => Scores!ScoresAreSound
    /\ part = "pairings" => /\ Pairings!WindowIsSound /\ Pairings!WhatWasActivatedStarts
                            /\ Pairings!BuildsAnswerWithTheirOwn
    /\ part = "platform" => /\ Platform!AnswersComeFromThePins /\ Platform!IdentityIsTheQuestion
                            /\ Platform!MarketAnalysisIsOfOneEvidence
    /\ part = "evidence" => Recipes!RecipesAgree /\ Recipes!NobodyWaitsForNothing

\* The comment of openRetainedBundle: "Nothing here is shared with another
\* pairing's bundle".
BundlesShareNothing == part = "pairings" => Pairings!BundlesShareNothing

\* What was begun ends: a status that stays acceptable is served, every request
\* of the pool is answered, and no page loads for ever.
WhatBeginsEnds ==
    /\ <>[](part = "poller" /\ Poller!Offered) => <>(part = "poller" => v8 = Last(v1))
    /\ <>[](part = "poller" /\ ~v4.running) => <>[](part = "poller" => Poller!AtRest)
    /\ <>(part = "pool" => \A r \in DOMAIN v1 : v1[r] = "ended")
    /\ []<>(part = "discovery" => v8 # "loading")
=============================================================================
