------------------------ MODULE HttpPerformanceRunner ------------------------
(***************************************************************************)
(* The measurements of a deployed origin (http-performance-runner.ts).     *)
(*                                                                         *)
(* The origin benchmark: a plan is checked, the deployment attests what it *)
(* serves, and every request of the plan is sent a fixed number of times   *)
(* to warm up and then to be measured, one after the other.  The report    *)
(* must say whether each sample was answered from the cache as its         *)
(* operation requires.                                                     *)
(*                                                                         *)
(* The mixed load as it is planned: which request is sent when.  A         *)
(* schedule is a pure function of a plan: sessions that repeat a weighted  *)
(* mix of routes, windows of coordinated uncached analyses, and a burst.   *)
(* An analysis asks for a hot key, which the runner primes and expects in  *)
(* the cache, or for a distinct key, which nothing may have asked for      *)
(* before; a CSV asks for the latest analysis key of its session and       *)
(* expects it in the cache.  Credits are exact here; the code adds decimal *)
(* fractions, so that a tie between two routes may fall otherwise there.   *)
(*                                                                         *)
(* The mixed load as it runs: the hot keys are primed, all requests of the *)
(* sustained and coordinated phases are in flight together and complete in *)
(* any order, the burst follows, and the runtime's metrics are sampled     *)
(* before, during and after.                                               *)
(*                                                                         *)
(* Each of the three has its own initial states and its own steps.         *)
(***************************************************************************)
EXTENDS Integers, Sequences, FiniteSets, SequencesExt, FiniteSetsExt, Folds

CONSTANTS
    Plans,          \* the benchmark plans that are offered
    Attested,       \* what the deployment attests: capabilities and benchmark queries by role
    Singletons, Cached, Uncached,   \* the operations by the cache state they require
    Composite,      \* market-analysis-process-hit
    Roles,          \* REQUIRED_PRODUCT_ROLES
    Optional,       \* the operations of a capability
    WarmupSamples,  \* FIXED_WARMUP_SAMPLES
    Answers,        \* [timedOut, status, cache, identity]
    MaxFaults,      \* a bound on the answers that are not as they should be
    LoadPlans,      \* the load plans that are offered
    Sessions,       \* SESSION_COUNT
    CandidateLoad,  \* the loads of candidate evidence: rate, seconds, burstRate, burstSeconds, interval
    Requests,       \* a set of [phase, offset, sequence, route, class]
    HotKeys,        \* how many keys are primed, each for two operations
    Responses,      \* [timedOut, status, retryAfter, cache]
    Metrics,        \* [peak, throttled], what a scrape may report; Null: it fails
    MaxFailures, MaxSamples,
    Null

VARIABLES
    plan, schedule,                     \* what is measured; the schedule of a load plan
    step, violations, firstFailure,     \* how far a measurement is, and what went wrong
    at, sample, answers, benchmarks,    \* the origin benchmark
    primed, answered, tally,            \* the mixed load: answered by request that completed
    samples, sampleError                \* what the adapter has collected

IsSuccess(a) == ~a.timedOut /\ a.status \in {"2xx", "304"}
-----------------------------------------------------------------------------
\* The origin benchmark.

\* The operations a plan of these capabilities must name, with each role.
Required(capabilities) ==
    {<<operation, Null>> : operation \in Singletons}
        \cup {<<operation, role>> : operation \in {o \in Cached \cup Uncached :
                                                      o \in DOMAIN Optional => Optional[o] \in capabilities},
                                    role \in Roles}

SamplesAccepted(p, request) ==
    IF request.operation \in Uncached
    THEN /\ Len(request.samples) = WarmupSamples + p.timedSamples
         /\ IsInjective([i \in DOMAIN request.samples |-> request.samples[i].key])
         /\ IsInjective([i \in DOMAIN request.samples |-> request.samples[i].target])
    ELSE request.samples = <<>>

\* A semantic key is never reused, within a request or between two.
KeysOf(request) == {request.samples[i].key : i \in DOMAIN request.samples}

BenchmarkPlanAccepted(p) ==
    /\ p.warmups = WarmupSamples
    /\ IsInjective([i \in DOMAIN p.requests |-> <<p.requests[i].operation, p.requests[i].role>>])
    /\ \A i \in DOMAIN p.requests : p.requests[i].timeoutIsTheDeadline /\ SamplesAccepted(p, p.requests[i])
    /\ \A i, j \in DOMAIN p.requests : i # j => KeysOf(p.requests[i]) \cap KeysOf(p.requests[j]) = {}
    /\ {<<p.requests[i].operation, p.requests[i].role>> : i \in DOMAIN p.requests} = Required(p.capabilities)

\* Each product request asks what the deployment attests for its role, and each
\* uncached sample partitions the probe cache by its semantic key.
MatchesAttested(request) ==
    /\ request.query = Attested.queries[request.role]
    /\ \A i \in DOMAIN request.samples :
           /\ request.samples[i].query = Attested.queries[request.role]
           /\ request.samples[i].partition = request.samples[i].key

Attests(p) ==
    /\ p.capabilities = Attested.capabilities
    /\ \A i \in DOMAIN p.requests : p.requests[i].role # Null => MatchesAttested(p.requests[i])
-----------------------------------------------------------------------------
Request == plan.requests[at]
Phase == IF sample <= WarmupSamples THEN "warmup" ELSE "timed"

\* The cache state a sample must report; Null when any will do.
Expected(operation, phase, index) ==
    CASE operation = Composite /\ phase = "warmup" -> Null
      [] operation \in Singletons -> Null
      [] operation \in Uncached -> "miss"
      [] OTHER -> IF phase = "warmup" /\ index = 1 THEN Null ELSE "hit"

Index == IF Phase = "warmup" THEN sample ELSE sample - WarmupSamples
Violates(answer) ==
    LET expected == Expected(Request.operation, Phase, Index)
    IN  expected # Null /\ (answer.timedOut \/ answer.cache # expected)

IsAsItShould(answer) == IsSuccess(answer) /\ answer.identity /\ ~Violates(answer)
Faults == Len(SelectSeq(answers, LAMBDA a : ~a.good))

Stop(reason) == step' = reason /\ UNCHANGED <<plan, at, sample, answers, violations, firstFailure, benchmarks>>

\* attestIdentity and assertAttestedOriginBenchmarks, then the health check.
Attest ==
    /\ step = "attest"
    /\ IF BenchmarkPlanAccepted(plan) /\ Attests(plan) THEN Stop("identity") ELSE Stop("refused")
CheckIdentity(answer) ==
    /\ step = "identity"
    /\ IF IsSuccess(answer) /\ answer.identity THEN Stop("measuring") ELSE Stop("failed")

\* One sample; a response of another identity ends the run.
Sample(answer) ==
    /\ step = "measuring"
    /\ Faults < MaxFaults \/ IsAsItShould(answer)
    /\ IF ~answer.timedOut /\ ~answer.identity
       THEN Stop("failed")
       ELSE /\ sample' = sample + 1
            /\ answers' = Append(answers, [at |-> at, phase |-> Phase, index |-> Index,
                                           answer |-> answer, good |-> IsAsItShould(answer)])
            /\ violations' = IF Violates(answer)
                             THEN Append(violations, [at |-> at, phase |-> Phase, index |-> Index])
                             ELSE violations
            /\ firstFailure' = IF Phase = "timed" /\ firstFailure = Null /\ ~IsSuccess(answer)
                               THEN [at |-> at, index |-> Index] ELSE firstFailure
            /\ UNCHANGED <<plan, step, at, benchmarks>>

\* The summary of a request, and the next one.
Summarize ==
    /\ step = "measuring" /\ sample > WarmupSamples + plan.timedSamples
    /\ LET timed == SelectSeq(answers, LAMBDA a : a.at = at /\ a.phase = "timed")
           Count(Test(_)) == Len(SelectSeq(timed, Test))
       IN  benchmarks' = Append(benchmarks,
               [operation |-> Request.operation, samples |-> Len(timed),
                verified |-> ~\E i \in DOMAIN violations : violations[i].at = at,
                timeouts |-> Count(LAMBDA a : a.answer.timedOut),
                errors |-> Count(LAMBDA a : ~a.answer.timedOut /\ ~IsSuccess(a.answer))])
    /\ sample' = 1
    /\ IF at = Len(plan.requests) THEN step' = "complete" /\ at' = at
                                  ELSE at' = at + 1 /\ UNCHANGED step
    /\ UNCHANGED <<plan, answers, violations, firstFailure>>

BenchmarkInit ==
    /\ plan \in Plans /\ step = "attest" /\ at = 1 /\ sample = 1
    /\ answers = <<>> /\ violations = <<>> /\ firstFailure = Null /\ benchmarks = <<>>

BenchmarkNext ==
    \/ Attest \/ \E answer \in Answers : CheckIdentity(answer)
    \/ (step = "measuring" /\ sample <= WarmupSamples + plan.timedSamples /\ \E answer \in Answers : Sample(answer))
    \/ Summarize
-----------------------------------------------------------------------------
\* A complete report has one benchmark for every operation and role of the
\* deployment, names the first timed sample that failed, and calls the cache
\* states of an operation verified only if no miss was served from the cache
\* and, once warm, no hit by a computation.
ReportIsHonest ==
    step = "complete" =>
        /\ Len(benchmarks) = Cardinality(Required(Attested.capabilities))
        /\ \A i \in DOMAIN benchmarks :
               LET own == SelectSeq(answers, LAMBDA a : a.at = i)
                   operation == benchmarks[i].operation
               IN  benchmarks[i].verified =>
                       /\ operation \in Uncached => \A j \in DOMAIN own : own[j].answer.cache = "miss"
                       /\ operation \in Cached => \A j \in DOMAIN own :
                              own[j].phase = "timed" => own[j].answer.cache = "hit"
        /\ LET failed == SelectSeq(answers, LAMBDA a : a.phase = "timed" /\ ~IsSuccess(a.answer))
           IN  firstFailure = IF failed = <<>> THEN Null ELSE [at |-> failed[1].at, index |-> failed[1].index]

\* No two uncached samples of a measurement share a semantic key.
SamplesAreFresh ==
    step \notin {"attest", "refused"} =>
        \A i, j \in DOMAIN plan.requests :
            \A k \in DOMAIN plan.requests[i].samples, l \in DOMAIN plan.requests[j].samples :
                plan.requests[i].samples[k].key = plan.requests[j].samples[l].key => i = j /\ k = l
-----------------------------------------------------------------------------
\* The schedule of the mixed load.

RouteKinds == <<"currentManifest", "search", "analysis", "csv">>
PartsPerThousand == [currentManifest |-> 100, search |-> 250, analysis |-> 550, csv |-> 100]
CoordinatedKeys == 4
-----------------------------------------------------------------------------
\* parseMixedLoadPlan: keys in their classes, and for candidate evidence the
\* prescribed load and keys for all of it.
DistinctKeysFor(p) ==
    (p.rate * p.seconds * 55 + p.burstRate * p.burstSeconds * 55) \div 500
        + (p.seconds \div p.interval) * CoordinatedKeys

LoadPlanAccepted(p) ==
    /\ Cardinality(ToSet(p.hot)) = Len(p.hot) /\ Cardinality(ToSet(p.distinct)) = Len(p.distinct)
    /\ Len(p.distinct) >= CoordinatedKeys
    /\ ToSet(p.hot) \cap ToSet(p.distinct) = {}
    /\ p.maximum \in ToSet(p.distinct)
    /\ p.class = "candidate" =>
           /\ [rate |-> p.rate, seconds |-> p.seconds, burstRate |-> p.burstRate,
               burstSeconds |-> p.burstSeconds]
              = [rate |-> CandidateLoad.rate, seconds |-> CandidateLoad.seconds,
                 burstRate |-> CandidateLoad.burstRate, burstSeconds |-> CandidateLoad.burstSeconds]
           /\ p.interval <= CandidateLoad.interval /\ p.seconds % p.interval = 0
           /\ (p.rate * p.seconds * 55) % 500 = 0 /\ (p.burstRate * p.burstSeconds * 55) % 500 = 0
           /\ Len(p.distinct) >= DistinctKeysFor(p)
           /\ ~p.observed

\* Every kind earns credit by its share; the kind with the most credit that has
\* slots left is next, the first in order among equals.
RoundRobin(counts, order) ==
    LET total == FoldLeft(LAMBDA sum, kind : sum + counts[kind], 0, order)
        Taken(s, kind) == Len(SelectSeq(s, LAMBDA k : k = kind))
        Credit(s, kind) == (Len(s) + 1) * counts[kind] - total * Taken(s, kind)
        Following(s) ==
            LET open == {kind \in ToSet(order) : Taken(s, kind) < counts[kind]}
            IN  SelectSeq(order, LAMBDA kind : /\ kind \in open
                                               /\ \A other \in open : Credit(s, other) <= Credit(s, kind))[1]
        RECURSIVE Completed(_, _)   \* by halves, for a shallow evaluation
        Completed(s, length) ==
            IF Len(s) >= length THEN s
            ELSE IF Len(s) + 1 = length THEN Append(s, Following(s))
            ELSE Completed(Completed(s, (Len(s) + length) \div 2), length)
    IN  Completed(<<>>, total)

Rotated(s, offset) == SubSeq(s, offset + 1, Len(s)) \o SubSeq(s, 1, offset)

First(s, x) == CHOOSE i \in DOMAIN s : s[i] = x /\ \A j \in 1..(i - 1) : s[j] # x

\* A session starts at its own place of the mix, where no CSV precedes every
\* analysis.
SafeOffset(routes, offset) ==
    LET rotated == Rotated(routes, offset)
    IN  /\ "analysis" \in ToSet(rotated)
        /\ "csv" \in ToSet(rotated) => First(rotated, "analysis") < First(rotated, "csv")

Dephased(routes, session) ==
    LET safe == SelectSeq([i \in 1..Len(routes) |-> i - 1], LAMBDA offset : SafeOffset(routes, offset))
    IN  IF safe = <<>> THEN routes
        ELSE Rotated(routes, safe[1 + (((session * Len(safe)) \div Sessions) % Len(safe))])

IsExact(total) == \A kind \in ToSet(RouteKinds) : (total * PartsPerThousand[kind]) % 1000 = 0

\* The counts of the mix, what is left over going to the largest remainders.
RouteMixCounts(total) ==
    LET Scaled(kind) == total * PartsPerThousand[kind]
        Whole(kind) == Scaled(kind) \div 1000
        assigned == FoldLeft(LAMBDA sum, kind : sum + Whole(kind), 0, RouteKinds)
        Before(a, b) == \/ Scaled(a) % 1000 > Scaled(b) % 1000
                        \/ /\ Scaled(a) % 1000 = Scaled(b) % 1000
                           /\ First(RouteKinds, a) < First(RouteKinds, b)
        Rank(kind) == Cardinality({other \in ToSet(RouteKinds) : Before(other, kind)})
    IN  [kind \in ToSet(RouteKinds) |->
            Whole(kind) + IF Rank(kind) < total - assigned THEN 1 ELSE 0]

\* The requests of one session, by the routes and the classes of its analyses:
\* each analysis takes the next key of its class, each CSV the key of the latest
\* analysis, which is then of the Trade Explorer.
Slots(routes, classes, hot, distinct, session) ==
    LET AnalysesTo(i) == Cardinality({j \in 1..i : routes[j] = "analysis"})
        LatestAnalysis(i) == CHOOSE j \in 1..i : /\ routes[j] = "analysis"
                                                 /\ \A k \in (j + 1)..i : routes[k] # "analysis"
        SameBefore(a) == Cardinality({b \in 1..(a - 1) : classes[b] = classes[a]})
        Key(a) == IF classes[a] = "hot" THEN hot[1 + ((session + SameBefore(a)) % Len(hot))]
                                        ELSE distinct[1 + SameBefore(a)]
        SourceOfCsv(i) == \E j \in (i + 1)..Len(routes) : routes[j] = "csv" /\ LatestAnalysis(j) = i
        Operation(i) == IF SourceOfCsv(i) \/ (AnalysesTo(i) - 1 + session) % 2 = 0
                        THEN "trade-explorer" ELSE "market-analysis"
        Slot(i) ==
            CASE routes[i] = "analysis" ->
                     [route |-> "analysis", operation |-> Operation(i), key |-> Key(AnalysesTo(i)),
                      class |-> classes[AnalysesTo(i)]]
              [] routes[i] = "csv" ->
                     [route |-> "csv", operation |-> Null, key |-> Key(AnalysesTo(LatestAnalysis(i))),
                      class |-> classes[AnalysesTo(LatestAnalysis(i))]]
              [] OTHER -> [route |-> routes[i], operation |-> Null, key |-> Null, class |-> Null]
    IN  [i \in 1..Len(routes) |-> Slot(i)]

SessionTemplate(counts, hot, distinct, session, distinctCount) ==
    Slots(Dephased(RoundRobin(counts, RouteKinds), session),
          Rotated(RoundRobin([hot |-> counts["analysis"] - distinctCount, distinct |-> distinctCount],
                             <<"hot", "distinct">>),
                  (session * counts["analysis"]) \div Sessions),
          hot, distinct, session)

\* Four keys at the start of each window.
CoordinatedBursts(keys, p) ==
    [i \in 1..((p.seconds \div p.interval) * CoordinatedKeys) |->
        [route |-> "analysis", operation |-> "market-analysis", key |-> keys[i], class |-> "distinct"]]

\* The schedule, or Null when the plan does not divide or has too few keys.
MixedLoadSchedule(p) ==
    LET total == p.rate * p.seconds
        perSession == RouteMixCounts(total \div Sessions)
        analyses == perSession["analysis"] * Sessions
        sustained == analyses \div 5
        others == SelectSeq(p.distinct, LAMBDA key : key # p.maximum)
        windows == p.seconds \div p.interval
        coordinated == <<p.maximum>> \o SubSeq(others, sustained + 1, Len(others))
        burst == RouteMixCounts(p.burstRate * p.burstSeconds)
        inBurst == (2 * burst["analysis"] + 5) \div 10
        beforeBurst == sustained + windows * CoordinatedKeys - 1
        Distinct(session) == sustained \div Sessions + IF session < sustained % Sessions THEN 1 ELSE 0
        Before(session) == session * (sustained \div Sessions)
                               + IF session < sustained % Sessions THEN session ELSE sustained % Sessions
        template == [session \in 0..(Sessions - 1) |->
            SessionTemplate(perSession, p.hot, SubSeq(others, Before(session) + 1, sustained), session, Distinct(session))]
    IN  IF \/ total % Sessions # 0 \/ ~IsExact(total \div Sessions)
           \/ analyses % 5 # 0 \/ Len(others) < sustained
           \/ p.seconds % p.interval # 0 \/ Len(coordinated) < windows * CoordinatedKeys
           \/ p.class = "candidate" /\ ~(IsExact(p.burstRate * p.burstSeconds) /\ burst["analysis"] % 5 = 0)
           \/ Len(others) < beforeBurst + inBurst
        THEN Null
        ELSE [sessions |-> template,
              coordinated |-> CoordinatedBursts(coordinated, p),
              burst |-> SessionTemplate(burst, p.hot, SubSeq(others, beforeBurst + 1, beforeBurst + inBurst), 0, inBurst)]
-----------------------------------------------------------------------------
ScheduleInit == plan \in LoadPlans /\ schedule = Null

Build ==
    /\ schedule = Null /\ LoadPlanAccepted(plan)
    /\ schedule' = MixedLoadSchedule(plan) /\ schedule' # Null
    /\ UNCHANGED plan

ScheduleNext == Build
-----------------------------------------------------------------------------
\* No key that is expected to miss the cache is asked for by two analyses of a
\* measurement, in any phase.
Phases == {schedule.sessions[s] : s \in DOMAIN schedule.sessions} \cup {schedule.coordinated, schedule.burst}
UncachedSlots(slots) == {i \in DOMAIN slots : slots[i].route = "analysis" /\ slots[i].class = "distinct"}

NeverReused ==
    /\ \A slots \in Phases : \A i, j \in UncachedSlots(slots) : slots[i].key = slots[j].key => i = j
    /\ \A a, b \in Phases : a # b =>
           {a[i].key : i \in UncachedSlots(a)} \cap {b[i].key : i \in UncachedSlots(b)} = {}

\* A CSV follows a Trade Explorer analysis of its own session with the same key,
\* so that the hit it is expected to be can come from that analysis.
CsvFollowsItsAnalysis ==
    \A slots \in Phases : \A i \in DOMAIN slots : slots[i].route = "csv" =>
        \E j \in 1..(i - 1) : /\ slots[j].operation = "trade-explorer" /\ slots[j].key = slots[i].key
                              /\ \A k \in (j + 1)..(i - 1) : slots[k].route # "analysis"

\* The mix and the share of uncached analyses are exact in the sustained phase,
\* and the largest product is among the coordinated analyses.
MixIsExact ==
    LET Count(Test(_)) == FoldLeft(LAMBDA n, session : n + Len(SelectSeq(schedule.sessions[session - 1], Test)),
                                   0, [i \in 1..Sessions |-> i])
        total == plan.rate * plan.seconds
    IN  /\ \A kind \in ToSet(RouteKinds) :
               Count(LAMBDA slot : slot.route = kind) * 1000 = total * PartsPerThousand[kind]
        /\ Count(LAMBDA slot : slot.route = "analysis" /\ slot.class = "distinct") * 5
               = Count(LAMBDA slot : slot.route = "analysis")
        /\ plan.maximum \in {schedule.coordinated[i].key : i \in DOMAIN schedule.coordinated}

ScheduleIsFair == schedule # Null => NeverReused /\ CsvFollowsItsAnalysis /\ MixIsExact
-----------------------------------------------------------------------------
\* The mixed load.

Completed == DOMAIN answered
InPhase == {r \in Requests : (r.phase = "burst") = (step = "burst")}

\* compareMixedLoadFailures: the burst last, then by time, the sustained phase
\* before the coordinated one, then by sequence.
Before(a, b) ==
    LET Group(r) == IF r.phase = "burst" THEN 1 ELSE 0
        Second(r) == IF r.phase = "sustained" THEN 0 ELSE 1
    IN  \/ Group(a) < Group(b)
        \/ Group(a) = Group(b) /\ a.offset < b.offset
        \/ Group(a) = Group(b) /\ a.offset = b.offset /\ Second(a) < Second(b)
        \/ Group(a) = Group(b) /\ a.offset = b.offset /\ Second(a) = Second(b) /\ a.sequence < b.sequence

\* Fault: the failure that is reported first is kept.
RecordedFirst(request) == IF firstFailure = Null THEN request ELSE firstFailure

Recorded(request) ==
    IF firstFailure = Null THEN request ELSE IF Before(request, firstFailure) THEN request ELSE firstFailure

\* A CSV and a hot key must come from the cache or join an execution under way.
CacheMatches(request, a) ==
    request.route \in {"analysis", "csv"} =>
        IF request.route = "csv" \/ request.class = "hot" THEN a.cache \in {"hit", "coalesced"}
                                                          ELSE a.cache = "miss"

Outcome(a) ==
    IF a.timedOut THEN "timeouts"
    ELSE IF IsSuccess(a) THEN "successes"
    ELSE IF a.status = "503" /\ a.retryAfter THEN "queueRejections" ELSE "unretryableErrors"
-----------------------------------------------------------------------------
\* The deployment attests its identity and the health check confirms it, or the
\* run ends; then every hot key is asked for once per operation.
Confirm == step = "confirm" /\ step' = "prime" /\ UNCHANGED <<primed, answered, firstFailure, tally, violations, samples, sampleError>>
NotConfirmed == step = "confirm" /\ step' = "failed" /\ UNCHANGED <<primed, answered, firstFailure, tally, violations, samples, sampleError>>

Prime ==
    /\ step = "prime" /\ primed < 2 * HotKeys
    /\ \/ primed' = primed + 1 /\ UNCHANGED step
       \/ step' = "failed" /\ UNCHANGED primed
    /\ UNCHANGED <<answered, firstFailure, tally, violations, samples, sampleError>>

\* A scrape of the metrics; scrapes follow one another and the first that fails
\* is remembered.
Scraped(metrics) ==
    IF metrics = Null THEN sampleError' = TRUE /\ UNCHANGED samples
                      ELSE samples' = Append(samples, metrics) /\ UNCHANGED sampleError

FirstScrape(metrics) ==
    /\ step = "prime" /\ primed = 2 * HotKeys
    /\ Scraped(metrics)
    /\ step' = IF metrics = Null THEN "failed" ELSE "sustained"
    /\ UNCHANGED <<primed, answered, firstFailure, tally, violations>>

ScrapeOnInterval(metrics) ==
    /\ step \in {"sustained", "burst"} /\ Len(samples) < MaxSamples - 1 /\ ~sampleError
    /\ Scraped(metrics)
    /\ UNCHANGED <<step, primed, answered, firstFailure, tally, violations>>

\* A scheduled request completes.
Complete(request, a) ==
    /\ step \in {"sustained", "burst"} /\ request \in InPhase \ Completed
    /\ Cardinality({r \in Completed : ~IsSuccess(answered[r]) \/ ~CacheMatches(r, answered[r])}) < MaxFailures
           \/ (IsSuccess(a) /\ CacheMatches(request, a))
    /\ answered' = [r \in Completed \cup {request} |-> IF r = request THEN a ELSE answered[r]]
    /\ tally' = [tally EXCEPT ![Outcome(a)] = @ + 1]
    /\ firstFailure' = IF IsSuccess(a) THEN firstFailure ELSE Recorded(request)
    /\ violations' = IF ~a.timedOut /\ ~CacheMatches(request, a) THEN violations \cup {request} ELSE violations
    /\ UNCHANGED <<step, primed, samples, sampleError>>

\* The connection of a request fails: the run ends, whatever is in flight.
Fail ==
    /\ step \in {"sustained", "burst"} /\ InPhase \ Completed # {}
    /\ step' = "failed"
    /\ UNCHANGED <<primed, answered, firstFailure, tally, violations, samples, sampleError>>

StartBurst ==
    /\ step = "sustained" /\ InPhase \subseteq Completed
    /\ step' = "burst"
    /\ UNCHANGED <<primed, answered, firstFailure, tally, violations, samples, sampleError>>

\* The last scrape and the report: every scrape succeeded and the counters of
\* the container did not start over.
Report(metrics) ==
    /\ step = "burst" /\ InPhase \subseteq Completed
    /\ Scraped(metrics)
    /\ step' = IF sampleError \/ metrics = Null THEN "failed"
               ELSE IF metrics.throttled < samples[1].throttled THEN "failed" ELSE "complete"
    /\ UNCHANGED <<primed, answered, firstFailure, tally, violations>>

\* What the report says of the processor.
CpuWasThrottled == samples[Len(samples)].throttled > samples[1].throttled

RunInit ==
    /\ step = "confirm" /\ primed = 0 /\ answered = [r \in {} |-> Null] /\ firstFailure = Null
    /\ tally = [successes |-> 0, timeouts |-> 0, queueRejections |-> 0, unretryableErrors |-> 0]
    /\ violations = {} /\ samples = <<>> /\ sampleError = FALSE

RunNext ==
    \/ Confirm \/ NotConfirmed \/ Prime \/ Fail \/ StartBurst
    \/ \E metrics \in Metrics : FirstScrape(metrics) \/ ScrapeOnInterval(metrics) \/ Report(metrics)
    \/ \E request \in Requests : \E a \in Responses : Complete(request, a)
-----------------------------------------------------------------------------
\* The failure that is reported is the first of the schedule, not the first to
\* be answered, so that two runs with the same failures report the same.
Failed == {r \in Completed : ~IsSuccess(answered[r])}
FirstFailureIsTheFirst ==
    IF Failed = {} THEN firstFailure = Null
                   ELSE firstFailure \in Failed /\ \A r \in Failed : r = firstFailure \/ Before(firstFailure, r)

\* A complete report counts every request of the schedule once, and says that
\* the cache states are as they should be only if every answered analysis was.
MeasurementIsWhole ==
    step = "complete" =>
        /\ Completed = Requests
        /\ tally.successes + tally.timeouts + tally.queueRejections + tally.unretryableErrors = Cardinality(Requests)
        /\ violations = {} => \A r \in Requests : answered[r].timedOut \/ CacheMatches(r, answered[r])
        /\ CpuWasThrottled => \E i, j \in DOMAIN samples : i < j /\ samples[i].throttled < samples[j].throttled
=============================================================================
