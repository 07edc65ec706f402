# HSTracker: TLA+ models and proofs

HSTracker is a Next.js service that answers trade analyses (candidate markets,
trends, supplier competition, opportunity discovery ...) from immutable data
releases. One process serves the API, keeps a verified release resident on
disk, runs DuckDB queries over it under tight concurrency bounds, and hosts
accounts, watches and alert delivery over an operational store. Release tooling
builds, publishes, promotes and rolls back releases in an object store that the
serving processes poll and hydrate; promotion tooling measures a candidate and
decides whether it may be promoted.

All paths below are relative to `src/src/` seen from the directory above this
one, unless they begin with `scripts/`, `docs/` or `tests/`, which are relative
to `src/`.

## 1. The system's components

| Component | Source | State it keeps | What can go wrong |
|---|---|---|---|
| Analysis execution coordinator | `runtime/bounded-application-runtime.ts:1136-1510` | group queue, member queue, slot counters, timers | leaked or doubled slots, lost calls, starvation |
| Bounded application runtime | `runtime/bounded-application-runtime.ts:150-730` | in-flight map, waiters, cache generation, two result caches | stale result cached after a release change, a shared analysis cancelled under a waiter |
| Byte-weighted LRU, rate limiter, request deadline | `runtime/byte-weighted-lru.ts`, `bounded-application-runtime.ts:1512-1583`, `runtime/request-deadline.ts` | weighted entries; token buckets; a timer | a bound exceeded, the wrong entry evicted, tokens created |
| DuckDB connection pool | `evidence/duckdb-analysis-database.ts` | free connections, FIFO of waiters | a connection lost or given twice, interrupt of the next query |
| Trade Analytics Platform, recipes | `domain/trade-analytics`, `domain/candidate-market`, ... | none (pure), calls in flight | answers from another build's evidence; ranking, ties, rounding |
| Evidence adapters | `evidence/*` | one cached read | what a missing row means |
| Release hydration, verified runtime | `release/release-hydration.ts`, `runtime/verified-release-runtime.ts` | resident activation record, releases on disk, live runtime, retained statuses | serving a release that is not verified, pruning one in use, a start that fails needlessly |
| Source status poller | `runtime/source-status-poller.ts` | served status, retained snapshots | an older answer overwriting a newer one |
| Release publication, status, refresh, monitor | `release/release-publication.ts`, `release/source-*.ts` | two versioned pointers, retention window | lost promotion, a rollback that toggles, a status that contradicts the release |
| Operational store, migration | `operations/store/*.ts` | application lease, accounts, watches, evaluation leases, events, attempts | two holders, double evaluation, a half-imported store |
| Watch evaluation | `operations/watch/*.ts` | claims, last evaluation | duplicate or missing alerts across crashes |
| Alert delivery | `operations/delivery/*.ts` | attempts per event and channel | more than the maximum attempts, delivery after unsubscribe |
| Account access | `operations/account/*.ts` | failed sign-ins, lock, sessions, recovery tokens, portfolio, audit trail | stale reads across awaits, rows that outlive an account |
| HTTP routes, exports | `app/api`, `http/`, `export/` | caches of clients | an error told wrongly, a "not modified" that is untrue, an export under a status nobody showed |
| Discovery pages | `app/discovery-workspace.tsx`, `opportunity-discovery-workspace.tsx` | inputs, URL, history, calls in flight | a late answer shown for other inputs |
| Release builders | `scripts/release/*.ts` | files and directories | a partial or wrong publication after a death |
| Promotion measurements and gates | `promotion/*`, `scripts/promotion` | samples, check sets, reports | a question asked twice of a cold cache, a report of a different candidate |
| Service levels | `operations/service-levels.ts`, `service-level-report.ts` | none (pure): counts of a month | a month judged better for worse measurements, an alert that softens |
| Links, search controls | `app/trade-analysis-context.ts`, `app/economy-combobox.tsx`, `app/product-combobox.tsx` | the address, what is typed, searches in flight | a link that asks another question when it is read back |
| Catalogs, metrics registry, browser lab, deployment scripts | `catalog/`, `economy/`, `operations/runtime-prometheus-metrics.ts`, `deployment/` | indexes, counters | not modelled, section 8 |

How the parts interact. An HTTP route asks the bounded runtime, which answers
from its cache, joins an analysis that is under way, or opens a group of the
execution coordinator; the coordinator's members call the platform, which
resolves a package and evidence of the build that is asked for, and run queries
on connections of the DuckDB pool. Source-status polling and hydration decide
which deployment the runtime serves, and a change of it invalidates the
runtime's cache. Release commands and the source monitor never talk to the
servers: they meet them, and each other, in two versioned pointers of the object
store. Builders and promotion commands meet in directories and report files.
Watch evaluators and delivery workers are separate runs that share nothing but
the operational store, whose transactions are short: every longer operation is a
sequence of them with awaits between. A page talks to routes only, and several
of its calls may be in flight.

What is hard, in one line per part: the coordinator, because aborts, two kinds
of timers and completions of the same member race; the runtime, because results
arrive after the world they were computed for; evaluation and delivery, because
they are retried, overlap and die between two transactions; activation, because
two pointers are changed by two swaps; hydration and the builders, because they
may die between any two file operations and must find their way back; pages and
exports, because what a user sees is older than what the server serves; scores
and pages of the opportunity feed, because several computations of the same
numbers must agree. `PROJECT.json` lists these at their lines under "hazards".

## 2. The modules

| Module | Models | Extends |
|---|---|---|
| `DistinctSequences` | queues without repeats, batches of a sorted list; the lemmas about both | |
| `AnalysisCoordinator` | `AnalysisExecutionCoordinator` | `DistinctSequences` |
| `BoundedRuntime` | `createBoundedApplicationRuntime`: cache and sharing | `AnalysisCoordinator` |
| `WatchAlertLog` | when an evaluation alerts; what evaluation promises: one evaluator that never fails | |
| `WatchEvaluation` | `evaluateOpportunityWatchesForPackage` over the store | `WatchAlertLog` |
| `AlertDelivery` | `deliverOpportunityWatchAlerts` over the store | |
| `SourceRefresh` | Source Freshness Status, refresh, rollback, promotion and source checks | |
| `ServedWindow` | what a serving machine promises | |
| `ReleaseHydration` | `ReleaseHydrator`, `VerifiedReleaseRuntime.load` | |
| `RetainedPairings` | `ReleasePublisher`, package recommendation, the bundles of the window | |
| `SourceStatusPoller` | the poll and the served status | |
| `DuckDbPool` | `DuckDbAnalysisDatabase` | |
| `RuntimeLimits` | the limiter and its paced client; the cache and the deadline | |
| `AccountAccess` | `AccountService` over the store | |
| `StoreLifecycle` | application lease, backup copy, migration to PostgreSQL | |
| `AnalyticsPlatform` | the platform's calls, pins and identities; the market analysis | |
| `TradeEvidence` | what the evidence queries return; trend and supplier recipes over it | |
| `RecipeArithmetic` | exact means, shares and ranks; nomenclature coverage and the momentum signal | |
| `CandidateScore` | CMS v1 and the comparison of releases | `RecipeArithmetic` |
| `ExplorerQuery` | the two transports and the normal form of an explorer question; the links between the recipes' pages | |
| `OpportunityPages` | cohort, index rows, keyset pages, detail | `RecipeArithmetic` |
| `AnalysisRoutes`, `ExportRoutes` | the JSON routes; manifests, statuses and CSV exports | |
| `DiscoveryWorkspace`, `OpportunityFeed` | the two discovery pages; the search controls | |
| `ServiceLevels` | monthly service levels, budgets, the alerts | |
| `SourceStaging`, `ArtifactBuild`, `OpportunityIndexBuild`, `MomentumBuild`, `EurostatBuild` | the builders | `MomentumBuild`: `RecipeArithmetic` |
| `HttpPerformanceRunner`, `PerformanceGates`, `PromotionReport` | from the measurement of a candidate to its promotion | |
| `BoundedRuntimeProofs`, `WatchEvaluationProofs`, `AlertDeliveryProofs`, `SourceRefreshProofs`, `ReleaseHydrationProofs` | proofs (section 5), the first also of the coordinator it extends, the last also of the promotions that make the window | the modules they are about; `RetainedPairings` |
| `PartsProofs` | proofs about `DuckDbPool`, `AccountAccess`, `StoreLifecycle`, the limiter of `RuntimeLimits`, `SourceStatusPoller`, `DiscoveryWorkspace`, `OpportunityFeed` | instances of them |
| `MC...` | constants for TLC; `MCParts` instantiates the components that are checked on their own | |

A definition whose comment begins with "Fault:" is a deliberately wrong variant
of the definition after it. It is part of no specification; it is there to show
that the property it is paired with in `PROJECT.json` ("mutants") would notice.

### How state and actions correspond to the code

One action is what the code does between two awaits: one turn of the event loop,
one store transaction, one file operation. What a process may die between is two
actions.

**AnalysisCoordinator.** `state`, `roster` and `remaining` are the fields of a
`QueuedAnalysisGroup`; `queue`, `memberQueue`, `active` and `activeMembers` are
the coordinator's; `worker` is the set of members between `startMember` and its
`finally`; `outcome`, `aborted` and `timedOut` are the members' promises,
controllers and execution timers. `Submit` is `createGroup`, `addToGroup`,
`sealGroup` (1220-1323); `AbortQueued`, `AbortPending`, `AbortExecuting` are the
departure of the last waiter (1454, 1382, 1398); `QueueTimeout` and
`ExecutionTimeout` the two timers; `Settle` and `Release` the end of
`startMember`. The last two are two actions because a new request may come
between the answer and the `finally`.

**BoundedRuntime.** Every request is named, and a shared operation is named after
the request that started it, which is also the member the coordinator runs. The
variables are those of the closure (`cacheGeneration`, `analysisCache`,
`analyses`, waiters); `origin` remembers under which deployment an operation
started. Cache eviction is a nondeterministic choice here; `RuntimeLimits`
models what is evicted. `UsesCoordinator` states that the composed system implements
`AnalysisCoordinator!Spec`.

**WatchAlertLog, WatchEvaluation.** Growth rates are integers, in twentieths where
rounding matters; the rounding of `Number(a) - Number(b)` is kept as the set
`RoundsDown` of pairs whose difference falls below the exact one.
`WatchAlertLog` is the abstract specification: it evaluates each watch once per
activated package and appends at most one event. In `WatchEvaluation` evaluators
claim batches under leases, keep the watch as it was at the claim, record the
event, create delivery rows and complete, each in a transaction of its own, and
may die or outlive a lease anywhere between. A row of the lease table is a record,
`NoLease` where the store has none.

**AlertDelivery.** One account, watch, channel and address. A run lists the events
and the watch, then per event screens, ensures the row, sends and records. The
provider's answers, its idempotency and the run's policy are parameters;
`mailed`, `sends`, `bounced` and `afterwards` are observed.

**SourceRefresh.** A job is a refresh, rollback or promotion command or a source
check, with the step it is at and what it has read. A version of a pointer is
the flag `fresh`: true when the job reads the pointer, made false by every other
writer. What a command derives is one of the sets `Statuses`, `Pairings` and
`Deployments`; `Progress` is what a job may carry. Times are arguments of the
commands and free. Uploading and validating
objects is one step that may fail. Two variables are observed: `overtaken`, the
commands that go by a deployment which another command has replaced since, and
`owed`, which says that a command ended before it published the status of its
activation, or that an overtaken one published, and that no status that describes
the deployment was published since.

**ReleaseHydration, ServedWindow, RetainedPairings.** A pairing's directory is the
set of contents in it, and what is wrong with a pairing is told apart by where
the code notices it. The machine may stop at any step; the volume keeps what was
written. `ServedWindow` is the promise; `ServesTheRecord` says that hydration
implements it. `RetainedPairings` is the other side: how a publisher derives an
analysis build and its packages, and which package and index the platform binds
to a build when the whole window is open.

**DuckDbPool.** A granted connection is held before its requester runs; an
interrupt that finds no statement executing is lost and repeated. A release and
a close hand over or refuse waiters in the same turn, as the code does.

**AccountAccess, StoreLifecycle.** A request is at its next store call, with what
it read before. Deletion is one transaction; a deleted identity may register
again under a new id. `StoreLifecycle` has the lease, the SQLite file, its
archive and seal, the PostgreSQL target and migrators that may die; an instance
that outlived its lease goes on. `SourceStatusPoller` counts the calls of
`runAndSchedule` that await the poll under way and the timers that will make more
of them, since `stop` and then `start` during a poll leave two.

**Pages.** A call that is aborted or superseded writes nothing, so that the latest
call of each kind is enough; a callback that waits for the manifest goes on with
the inputs it closed over. `url`, `visited` and the timers are the page's. The
search controls are a second machine of `DiscoveryWorkspace`: what is typed, the
debounce, the search in flight and the choice. The links are a second machine of
`ExplorerQuery`: an address is a record of its parameters, `Parse` and `Serialize`
are `parseTradeAnalysisContext` and `serializeTradeAnalysisContext`, and each way
to leave a page (another recipe, a tool, another build) is an action.

**Platform, evidence, scores, queries.** Calls of the platform interleave at their
awaits. Evidence is small tables; the recipes over it are operators with exact
arithmetic: values are powers of two, so that logarithms are integers, means are
counted in units of 1/2520, and shares and slopes are fractions. Numbers of six
decimals in `OpportunityPages` are integers. `ExplorerQuery` compares the POST
body and the address form of the same question.

**Routes, exports.** One client asks one address again and again through a shared
cache that follows RFC 9111 (external). `ExportRoutes` lets a page show a
manifest, time go on, statuses be polled and the server be deployed anew, before
the page exports what it shows.

**Builders, promotion.** A run is the step it is at; the file system outlives it.
`HttpPerformanceRunner` has the plan and samples of the origin benchmark, the
schedule of a mixed load as a function of its plan, and the run of that schedule
with every order of completion. `PerformanceGates` judges samples and then reads
the same reports as the launch gate does, which trusts nothing the gates said;
`PromotionReport` collects attempts, amendments and checks. `ServiceLevels` counts
the good and bad requests and probes of a month, and the alerts over two windows.

## 3. What the runs check

| Run | States | Shows |
|---|---|---|
| `coordinator` | 0.43 M | a batch of two and three single requests, two group slots, one worker, one queue place: exact counters, no idle slot, no lost call, no overtaking; every call is answered |
| `runtime` | 0.20 M | a batch of two builds' keys and a request of the same key under changing deployments: one live computation per key, cancelled exactly by its last waiter; nothing stale is served from the cache; the coordinator is used as specified; every request is answered |
| `evaluation` | 0.10 M | two evaluators, two watches, a death, an outlived lease: disjoint batches, every watch evaluated, every run ends |
| `evaluation_as_one` | 1.4 M | four activations, a package, its revision, the next month and the revision again: the evaluators act as one; retries and the return raise at most one alert per activation |
| `delivery` | 0.16 M | two workers, every answer, a death and a change: bounded sends, a bounce stops all but the event in hand, every alert is resolved |
| `source_refresh` | 6.6 M | three commands, two at a time, with checks throughout and one loss: nothing activated is lost, no rollback toggles, status and deployment agree when no command runs and none is owed, and a second run repairs what a run cut off left |
| `serving` | 1.6 M | starts, deaths, outages and a pointer that moves over three pairings: the record stays whole, what is served is what is recorded, only the window remains, an outage is survived |
| `parts` | 1.2 M | the other components, below |

Four runs expect a violation. They show where the code does something else than
the repository says:

* `evaluated_twice`: an evaluation of the previous package that still runs when
  the next is activated claims the watch back and moves its cursor to the older
  package; the watch is evaluated, and alerts, twice for one activation.
  `operations/store/operational-store.ts:160` says "no Watch is ever evaluated
  twice for one package activation". `evaluation_as_one` holds because there
  (`Overlap = FALSE`) packages are activated only between evaluations.
* `delivered_twice`: recording a suppression overwrites `SENT`, and the event is
  mailed again when the cause of suppression is gone.
* `bad_target`: a deployment whose Opportunity Index or smoke query fails throws
  a plain error, so that a restart fails although a verified window is on the
  volume; `docs/production-deployment.md:186-189` says it must fall back.
* `shared_build`: promotions that change the Opportunity Index alone leave two
  retained pairings with one analysis build, and the platform, whose maps are
  filled with the active bundle first, binds the build to the older index.

### The parts of `parts`

`MCParts` has one variable `part`, fixed by `Init`, and fifteen slots that stand
for the variables of the component that `part` names. The state space is the
disjoint union of the components' state spaces, and every property is an
implication from the part it is about; nothing is composed here that is not
composed in a module of its own.

| Part | Module | States | What is checked |
|---|---|---|---|
| `poller` | `SourceStatusPoller` | 18 k | stopped and started again, also during a poll: the served status never goes back and stays resolvable, poller and runtime agree; a status that stays acceptable is served, a poller that stays stopped comes to rest |
| `pool` | `DuckDbPool` | 4 k | connections are exact, an interrupt strikes the aborted query only; every request ends |
| `limit` | `RuntimeLimits` | 44 k | a window admits no more than burst and refill, a refused source that waits as told is admitted |
| `cache` | `RuntimeLimits` | 2 k | weights add up under the bound, what is disposed stays so |
| `accounts` | `AccountAccess` | 209 k | rows belong to the account that exists, a token lets one request through, a deleted account's trail ends |
| `store` | `StoreLifecycle` | 45 k | an instance within its lease is the one the row names, so that one that outlived its lease frees nobody's and lets no third one in; an import is whole or nothing |
| `delivery` | `AlertDelivery` | 112 k | two events: a suppressed address gets at most the event in hand, and what a run keeps it keeps for every later event |
| `discovery`, `feed` | `DiscoveryWorkspace`, `OpportunityFeed` | 115 k, 44 k | the market shown is the selected candidate's once a location is restored, the URL names what is shown, a feed is a prefix of one cohort; no page loads for ever |
| `pairings` | `RetainedPairings` | 74 k | activations are a chain, the window is sound, what was activated starts, a build answers with packages of its own evidence |
| `platform` | `AnalyticsPlatform` | 72 k | answers come from the pins, the identity is the question, a market analysis is of one evidence |
| `evidence` | `TradeEvidence` | 80 k | suppliers, trend, explorer and candidates agree on the same flows; rates and shares are nearest; nobody waits for a read that ended |
| `score` | `CandidateScore` | 4 k | ranks follow the evidence and fill the cohort, high confidence is earned, a comparison of releases adds up and is its own opposite |
| `query` | `ExplorerQuery` | 6 k | both transports ask the same question, the normal form is one per question |
| `links` | `ExplorerQuery` | 4 k | a link read back is the context that wrote it, a journey through the tools keeps the selection, a tool stays with the build it was opened on |
| `control` | `DiscoveryWorkspace` | 0.8 k | what a search control names is what is chosen, and a search that was superseded offers nothing |
| `levels`, `alerts` | `ServiceLevels` | 94 k, 0.1 k | an accepted month was available, and a longer or worse outage never softens an alert |
| `pages` | `OpportunityPages` | 3 k | pages of any size walk the cohort in order across ties, cursors stay with their feed, a detail shows what its row was computed from |
| `routes` | `AnalysisRoutes` | 10 k | encodings are accepted, "not modified" is true, outcomes are told alike on all routes, bodies are bounded |
| `exports` | `ExportRoutes` | 10 k | an export that may be kept for ever is always the same; a cached manifest is true; what a page shows it may export |
| `staging`, `artifact`, `index`, `momentum`, `eurostat` | the builders | 18 k, 1 k, 0.1 k, 4 k, 1 k | whatever dies and is repeated, what is published is whole, checked and what the inputs say |
| `benchmark`, `schedule`, `load`, `gates` | the measurements | 21 k, 0.1 k, 7 k, 44 k | no uncached question is asked twice, the mix is exact, the first failure is the first, measuring worse is never judged better, what is accepted is deserved, and the launch gate agrees with the gates on what both read |
| `promotion` | `PromotionReport` | 131 k | an accepted promotion rests on evidence of every gate, on the very reports and drill that are retained, and on failures resolved before a later success |

### Bounds, and why they are enough

* Coordinator: one worker makes members of two running groups compete; one queue
  place makes the queue full; the batch of two makes a group outlive a member.
  More slots add interleavings of the same pairs; the invariants are proved for
  every number of them (section 5).
* Runtime: a deployment may return to an earlier one, so that a generation, not
  an identity, has to tell results apart; three deployments contain such a return.
* Evaluation: one death and one outlived lease give each evaluator the chance to
  repeat and to be overtaken. `MaxEvents` is never reached by a correct system;
  an action that would exceed it is disabled. `evaluation_as_one` returns to an
  earlier package, so that a watch is due for it a second time.
* Delivery: `MaxAttempts = 2` has a first, a last and an exhausted attempt. The
  bound of sends counts one more per death and per overlapping worker. The run has
  one event, with which the liveness is within reach; what a bounce does to the
  events behind it is checked on two, by the part `delivery`.
* Activation: three commands are needed for a rollback repeated after its answer
  was lost and for a promotion between; two times suffice for every order of two
  events, equal times included. The tries of a check's swap (3) are the code's.
  The retained window is 2 instead of the code's limit, so that it fills. Jobs are
  interchangeable and no liveness is checked in this run, which makes symmetry sound.
* Serving: three pairings, each compared with the one before, and a window of two
  (`MaxHistory = 1`), so that one is pruned whose analysis another still needs; two
  stops at any step.
* Pool: one connection and three requests give a holder, a waiter and one behind it;
  two statements give one before and one after an interrupt.
* Accounts: two requests at once, three in all: deletion and new registration between
  the steps of a third. Store: the lease runs out once, which separates the instance
  that takes it from the one that still believes in it.
* Poller: times to 2 with a writer's clock that may be ahead, and room for three
  statuses, so that one more is dropped; two calls of `runAndSchedule`, one more than
  the poller is meant to have. Pages: three builds, so that the window leaves one behind;
  two inputs and two history entries, so that a late answer meets another URL.
* Builders: two process ids and two or three runs: one that dies, one that finds what
  it left. Inputs are one sound archive, vintage or artifact and each defect alone.
* Promotion: two identities and three measurements, so that a gate is measured again
  after the configuration changed.
* Pure parts (`score`, `query`, `pages`, `evidence`, `schedule`, `gates`): enumerated
  inputs with ties, missing years, absent flows, single candidates, equal displays and
  amounts on both sides of every threshold; results are compared with a second
  definition or with each other.

`CHECK_DEADLOCK FALSE` appears where the system may be done: all calls answered,
no package left to activate, no command left to start.

## 4. Fairness

* Timers fire and microtasks run (`TimersFair`): the event loop of Node.
* An analysis whose signal is aborted settles (`AbortsRespected`): the DuckDB
  adapter repeats `connection.interrupt()` every 2 ms until the query has settled
  (`evidence/duckdb-analysis-database.ts:98-104`), which `DuckDbPool` models. An
  analysis nobody aborts may run for ever. `EveryMemberAnswered` and
  `EveryRequestAnswered` state this as their hypothesis.
* The pool's steps are weakly fair (they are microtasks, timers and queries that
  end or are interrupted). The poller's timer and timeout are weakly fair; an
  answer that is possible again and again arrives at last (strong fairness):
  without it a status that stays acceptable need never be read.
* The calls of a page end in an answer or an error: `fetch` settles, or its
  deadline does. What a user does is never fair.
* Evaluators and delivery workers are started again and again, and their store
  and provider calls return: the repository leaves the schedule to its operator,
  and without one no alert is ever sent. Leases expire because the clock goes on.
* A machine takes the steps it can, and one whose start failed or that stopped is
  started again (the supervisor of `docs/production-deployment.md`).
  `OutageIsSurvived` speaks of an outage that does not end; nothing is assumed of
  the object store.

## 5. What is proved

Each theorem is about `Spec` (or the specification named) for every value of the
constants that satisfies the module's named assumption: any finite number of
members, workers or watches, any bounds, any pairings. The assumptions ask for
what the code's types give: bounds are numbers, `Null` is no datum, a request has
a key and a deployment a build. Each inductive invariant was checked by TLC on the
constants of the module's run before it was proved.

| Module | Theorem | Property |
|---|---|---|
| `BoundedRuntimeProofs`, of the coordinator | `TypeCorrectness`, `SlotsExact`, `NoIdleSlot`, `AbortedNeverWaits`, `NothingLost` | `TypeOK`, `SlotAccounting`, `WorkConserving`, `NoAbortedWaiter`, `NoLostMember` |
| | `NobodyIsOvertaken` | `FirstComeFirstServed` |
| of the runtime | `RuntimeUsesCoordinator` | `UsesCoordinator`, a refinement |
| | `SharedWorkIsShared`, `IdenticalRequestsShare`, `CacheAnswersForTheActiveDeployment` | `SharedWorkSurvives`, `OneLiveOperation`, `HitsAreCurrent` |
| `ReleaseHydrationProofs` | `RecordAlwaysIntact`, `NothingElseRemains` | `RecordIsIntact`, `OnlyTheWindowRemains` |
| | `HydrationServesTheRecord` | `ServesTheRecord`, a refinement |
| of the promotions | `RetainedWindowIsServed` | `WindowIsSound`, `WhatWasActivatedStarts` and `BuildsAnswerWithTheirOwn` of `RetainedPairings`: of `AnswersAreOfTheEvidence` what concerns the pairings |
| | `ActivationsFormAChain` | `ActivationsAreAChain`, of `ServedMovesForward` what concerns the pairings |
| `AlertDeliveryProofs` | `SendsStayWithinTheBudget`, `NoComplaintIsDropped` | `BoundedSends`, `BouncesAreSuppressed`, for any number of events |
| `SourceRefreshProofs` | `RollbackRestoresAnother`, `NoActivationIsLost`, `NoRollbackToggles`, `PublishedStatusMovesForward` | `RollbackIsReal`, `NothingActivatedIsLost`, `RollbackNeverToggles`, `StatusMovesForward` |
| | `StatusDescribesTheDeployment`, `SecondRunsRepair` | `InStepWhenQuiet`, `CommandsRepair`, concurrent commands included |
| `WatchEvaluationProofs` | `BatchesAreDisjoint` | `DisjointBatches` |
| | `EvaluatorsActAsOne` | `ActsAsOneEvaluator`, a refinement, without overlapping packages |
| | `RevisionsNameTheirAlert`, `OneAlertForAnActivation` | `RevisionsReferToTheirAlert`, `OneAlertPerActivation`, without overlapping packages |
| `PartsProofs` | `ConnectionsAreExact` | `PoolIsSound` |
| | `DeletionIsFinal` | `NothingOutlivesTheAccount` |
| | `OneLeaseOneImport` | `StoreIsWhole` |
| | `SourcesStayLimited` | `SourcesAreLimited`, of `LimitsAreKept` all that concerns the limiter |
| | `ServedStatusMovesForward` | `PollerAgreesWithRuntime`, `StatusNeverRegresses`, the safety of `ServedMovesForward` |
| | `PageShowsWhatItsUrlNames`, `ControlShowsItsChoice` | `MarketIsTheSelected` and `UrlNamesTheRanking`, `ControlsNameTheirChoice`: of `PagesShowWhatTheyName` what concerns the candidate market page |
| | `FeedShowsWhatItsUrlNames` | `FeedIsAPrefix` and `UrlNamesTheFeed`, of `PagesShowWhatTheyName` what concerns the feed |

The theorems of `PartsProofs`, and those of the promotions, are about the instances'
own definitions; the run `parts` checks the same definitions through the instances
of `MCParts`.

`DistinctSequences` holds the lemmas on sequences without repeats (append, tail,
removal, prefix, and the batch of the least elements of a set) that the proofs
cite; facts about cardinalities come from the library's `FiniteSetTheorems`. Each
proof has one lemma per action, whose conclusion is the module's inductive
invariant after the step.

**Coordinator, `IInv`.** The five properties with `QueuesConsistent` and `RosterOK`:

* a counter is right after a decrement only if the element that leaves was
  counted, which needs `NoLostMember` and `QueuesConsistent`;
* giving a freed slot to one queued group is enough to restore `WorkConserving`
  only because before the step no slot was free;
* the code re-checks aborted members when it starts a group or drains; that these
  checks find nothing needs `NoAbortedWaiter`, which in turn needs that abort
  listeners cover both queues;
* `RosterOK` says that a group not yet submitted has touched none of its members.

`FirstComeFirstServed` speaks of two states. From `IInv`, each step does one of four
things to a queue: leaves it, removes one element, appends some, or takes a prefix;
none of them puts an element in front of another (`Queues`). What is left is the
group that starts the moment it is submitted: it finds a free slot, and then, by
`WorkConserving`, nobody waits whom it could overtake.

**Runtime, `RInv`.** `IInv` with what the closure keeps. The refinement comes
first: `StepsAsCoordinator` shows that each step is a step of the coordinator or
leaves its variables alone, so that `IInv` is inherited instead of proved again.
`OperationsOK` ties each request and each entry of the map to an operation of its
own key, which lets `waiters` be a count of requests. `CurrencyOK` is why the
generation suffices: an operation of the current generation is of the deployment
the cache knows, and a result is stored only under the current generation.

**Hydration, `HInv`.** `RecordIsIntact` is not inductive: a commit keeps it because
every pairing of the window is done by then, and "done" must mean that its files
are whole and its metadata verified although another pairing's hydration ran in
between (`StagesOK`); pruning keeps it because then the window in memory is the
recorded one (`WindowOK`). The refinement to `ServedWindow` follows from the same
invariant in the states before and after a step (`NextPromise`).

**Promotions, `RetainedInv`.** What a publisher has validated was derived from the
window it read, so that with the version it read it holds a successor of the active
window (`OperationOK`); the compare-and-swap does the rest. That the deployment it
replaces is not the pairing it activates needs that operations bear different
numbers and that no window, active or about to be, has the number of another
operation under way (`Numbered`). A pairing was opened and smoked alone; that it
also starts next to others is because its packages for the artifact depend on its
build only (`OwnPackage`), so that it does not matter which pairing of a build the
platform's maps keep (`BoundPackage`). Assumed: a pairing published before mappings
existed is one that opens, passes its smoke and fits the volume, and its artifact
declares nothing for the annual recipes; otherwise a rollback to it would recommend
packages that it did not.

**Delivery, `DInv`.** `BoundedSends` counts calls of the provider, the code counts
rows. `Counted` says where a call may be that the row does not count: with a
worker about to record it, or lost with one that died. It is needed twice, below
the limit as an account of the calls so far, and at the limit with the workers
that passed the check before and have yet to send. `OnlyRaised` and `AnswersOK`
keep a run's event and answer meaningful; `NoComplaintIsDropped` uses the latter.
That a worker mails a suppressed address at most once more needs to know where it
stands after it did (`Stopped`): the answer is in its hand, or it is before the next
event's screening, or held by it; and the suppression lasts as long as the account.

**Activation, `SInv`, `KInv` and `QInv`.** `FreshOK` is what compare-and-swap gives:
a job that holds the current version of the pointer holds its content, so that what
it derived from its reading is still derived from the present. `JobOK` says what a
job has read, built and compared by each step; for a rollback, that the one it
repeats was not committed when it began (`NotCommitted`). `KInv`, for the status,
dates every status a command passes on: none is later than the published one, since
source checks alone move `checkedAt` forward; and a job that holds the version of
the status has compared with its content, so that a check forgets nothing. `QInv` is
what `InStepWhenQuiet` and `CommandsRepair` rest on: what a command has read of the
deployment is still so, and what it is about to publish describes it, unless another
command activated in between, which is what `overtaken` records (`UpToDate`). So
the two pointers disagree only while a command that activated has yet to publish
(`Owing`) or after one ended without (`owed`); commands may overlap in any other
way. An overtaken command that goes on to publish is the one that can undo what a
check or another command has put right (`Diverted`), and owes when it has. A check takes no part
in this order and may swap at any time; one that holds the current version of a
status that agrees with the deployment publishes one that agrees too (`CheckOK`). A
rollback to another build of the same release may end without writing a status,
because the published one already describes it. `CommandsRepair` is about the
second run: one that finds its activation committed ends without publishing only
if the status it read describes the deployment, so that a status left behind by a
run that was cut off is not passed over; and what it publishes describes the
deployment.

**Evaluation, `EInv`.** While no lease is outlived, a claim holds its lease
(`ClaimsAreLive`), a lease has one identity, and a batch claims a watch once; the
disjointness of two batches is a consequence, and inductive only with both.

**Evaluators as one, `FInv`.** A lease that is outlived breaks disjointness, and two
evaluators may then work on one watch. That the log stays that of one evaluator
rests on `Current`: a claim knows the last evaluation of a watch still to be
evaluated, and of a watch evaluated meanwhile it has nothing to announce that is
not recorded. So the evaluator that comes first takes a step of `WatchAlertLog`,
and the one that comes late, whose event is recorded and whose lease is gone,
takes none. The latter needs that an evaluated watch is unleased
(`EvaluatedUnleased`) and that a new claim has a lease no other claim holds
(`FreshLeases`, by counting). The refinement is proved for `Overlap = FALSE`; with
overlapping packages it is false, which is the finding of `evaluated_twice`.
`RevisionsReferToTheirAlert` and `OneAlertPerActivation` are then proved of the
single evaluator alone and carried over by the refinement. `LogInv` says that the
alert an evaluation names is a signal of its month. `AlertInv` says that a watch
still to be evaluated either has the alert it is about to raise on record or has
fewer alerts about the package than the package has activations. A package that
comes back is a new activation with another history of the watch, and may raise
another kind of event: the schedule of the run shows both alerts.

**Pool, `PoolInv`.** That a connection is somewhere and nowhere twice is kept with no
counting: the free list and the waiters have no repeats, holders of one connection
are equal, and no holder's connection is free; the sum of the property is computed
from that at the end (`PoolIsCounted`). An interrupt timer belongs to an aborted
request that holds the connection it strikes, which is why `finally` must clear the
timer before it releases. Assumed: finitely many connections.

**Accounts, `AccountInv`.** A request carries what it read some calls ago; of that
the invariant claims only that its account existed (`RequestOK`). All the rest is the
store's: each of its statements looks for the account again in the transaction that
writes, so that sessions, tokens and portfolio rows belong to the live account, and
account numbers grow, so that the trail of a deleted one is closed for good.

**Store, `StoreInv`.** `LeaseIsHonoured` needs no more than itself: the row passes
to another instance only after the lease in it has run out, and an instance that
closes frees the row only if it is named there. Nothing is promised of what an
instance writes after its lease (section 6). For the migration: what migrators have read is
ordered by inclusion, because the file only grows while one has begun; two with
uncommitted rows share none, because the second waits for the first at their primary
keys; so of two that both pass validation one has nothing to import, and the target
is what one of them read.

**Limiter, `LimiterInv`.** What a source has spent and what is left in its bucket
never exceed a full bucket and the refills since it is tracked, as long as the clock
goes forward; every later bound is read off from that. A source that was refused was
told its last refill and the seconds until there is a token again, rounded up, and
`Waits` shows that the rounding suffices, also if the clock was set back meanwhile.
Assumed: a bucket holds a token and refills within the retention, so that a source
gains nothing by being forgotten. The default policy does both (60 tokens, 10 a
second, 15 minutes); a policy that overrides it need not (section 6).

**Poller, `PollerInv`.** All the runtime keeps is of the served release, and the status
the poller compares with is the one the runtime serves. A late answer is judged by the
poll that waits for it, and one that timed out is dropped, so that no order of
publications, polls and answers takes the served status back. However often the
poller is stopped and started, the calls that overlap share one poll.

**Page, `PageInv`.** Selecting a candidate asks for its market analysis only if there
are inputs, so that the property needs "there are inputs once a location is restored";
and an analysis under way must find nothing loaded, because its answer selects.
The attempt to prove this showed that the property had been stated too widely: on
a history one entry longer than the run's, a ranking is shown while the inputs
are still read from the URL (section 6). `MarketIsTheSelected` now speaks of restored
locations, and what a build ranks is the constant `Ranking`, the same whenever it
is asked. Any number of inputs, candidates, builds and history entries.

**Controls, `ControlInv`.** A search under way is of the text in the box, a product
box with a choice searches and lists nothing, and an economy box that was not
edited looks up the code that the URL still names. With the first, an answer that
is late cannot list matches of another text.

**Feed, `FeedInv`.** What is shown, or read by a load that goes on, is the first `k`
rows of its feed with the cursor of the `k`-th, or without one at the end
(`IsFirstRows`). A page cut after such a cursor is the next rows (`PageContinues`),
whichever the page limit and wherever the order has ties; a late page is of the feed
on the page because a call for more lives only as long as that feed does (`MoreOK`).
Assumed: a projected cohort is in the strict order of the cursor. That filtering
keeps an order is an induction over the cohort, which the prover does not have; TLC
checks it on the run's cohorts.

Only model-checked:

* all liveness, which is out of the prover's reach: `EveryMemberAnswered`,
  `EveryRequestAnswered`, `EveryWatchEvaluated`, `EveryAlertResolved`,
  `OutageIsSurvived`, `WhatBeginsEnds`;
* the other parts of `MCParts`. The pure ones use recursive definitions and folds whose
  results for every input would need induction over data, which the prover does
  not have; so does the weight of the cache, a fold over its entries. The pace of
  the measurement is checked for its costs only: that it is never refused depends
  on how long its requests travel. The pins of `AnalyticsPlatform` are the next that
  can be proved.

## 6. Observations without a run

Seen while modelling, confirmed on the models with other constants or by reading
where no run is named; not kept as runs.

Statuses and releases

* A retained build's manifest shows its freshness as of its check
  (`runtime/verified-release-runtime.ts:438-454`), while an export looks for a
  status as of its publication and of every later transition (456-490). If the
  status was published 14 days or more after its check, or 7 days after the
  detection of a newer release, what the page shows is never found and every CSV
  export of that build is 404, against the comment at 469-475. `ShownIsExportable`
  excludes this one status.
* A page that shows a status polled before a deployment gets 404 on export when
  the build is then retained under the status of its release.
* A rollback whose status publication is cut off, followed by a check that had
  read the old deployment and carries a later time, cannot be reconciled by
  running it again: the second run does not end at once (`CommandsRepair`), but its
  fallback status has an older `checkedAt` and is refused as a regression (`release/source-refresh.ts:254`,
  `release/source-status-publication.ts:240`). The next check repairs it.
  `docs/release-publication.md:229-231` describes the retry as sufficient.
* A refresh that fails after a check later than its own `activatedAt` cannot
  publish `REFRESH_DELAYED`, for the same reason.
* Of two overlapping commands the one that activates first may publish last
  (`publish` loads the version anew, `release/source-status-publication.ts:193`), and
  then both have ended well while the status describes the deployment of the first.
  `InStepWhenQuiet` counts such a status as owed, whatever the runs' outcome; checks
  repair it.
* `stop` and then `start` while a poll is under way leave two loops: both calls of
  `runAndSchedule` await the one poll and then each sets a timer, of which the handle
  keeps the last; a timer forgets the handle, were it the other's
  (`runtime/source-status-poller.ts:171-186`). The loops end when the poller stays
  stopped. Production starts and stops it once (`runtime/runtime-startup.ts:98-108`).
* `poll` fails for as long as the statuses outgrow the runtime's small cache
  (`runtime/verified-release-runtime.ts:631`).
* A rate-limit policy may be configured whose buckets are forgotten before they are
  full again, or that hold less than one token
  (`runtime/bounded-application-runtime.ts:1092-1113`): a source that pauses then gets
  a full bucket, or none is ever admitted. The default policy is neither.

Alerts and accounts

* `revisionMateriallyChanged` (`operations/watch/watch-evaluator.ts:311`) subtracts
  doubles, so that a change from 0.5 to 0.6 is not material there while
  `decideWatchAlert`, on exact decimals, alerts: the revision is announced as a new
  signal. `RoundsDown` in `WatchAlertLog` keeps this rounding.
* An evaluation that overlaps with the next package may go on for ever: each of
  the two evaluators keeps making the other's watches claimable.
* A package that is activated again, after its revision or another month, is alerted
  again for a watch whose decision is another now: at most once per activation.
* A revision may name no alert when the evaluation it revises had none
  (`watch-evaluator.ts:104`).
* A suppressed run counts as a delivery attempt
  (`operations/store/sqlite-operational-store.ts:1507`): a pause that is long enough
  uses up the attempts, and the event is never delivered.
* Two wrong passwords at once count as one failure, two portfolio edits at once
  keep one, and a recovery that dies after consuming its token has used it up
  (`operations/account/account-service.ts:124-139`, `286-324`, `230-248`).
* An instance never renews its application lease and never looks at it again, so
  that after the lease it goes on writing beside the next holder, where the comment at
  `operations/store/sqlite-operational-store.ts:346-348` says that a second
  application is rejected.
* In a migration, what SQLite accepts after the source was read is lost, and a
  death between the commit and the seal leaves the file writable.

Pages, questions and scores

* A refresh from a stale page awaits the manifest; if the inputs change meanwhile,
  it then shows the ranking of the inputs it began with
  (`discovery-workspace.tsx:640-653`, `opportunity-discovery-workspace.tsx:595-619`;
  the comment at 376-379 says a late answer writes nothing). A refresh from a
  control without inputs leaves the page "refreshing".
* A refresh that is overtaken by Back shows its ranking while the page still restores
  the earlier location. If another Back selects one of its candidates before both
  economies and the product are there, its market analysis is not asked for
  (`discovery-workspace.tsx:383-388`, `640-653`, `680-745`): the candidate is shown as
  selected with the former one's market, or none. Found by the proof of `PageInv`.
* Going back to a location whose candidate is not in the ranking that is loaded
  leaves the page as it was.
* A product with a year without trade between two years with trade fails the
  candidate market analysis (`domain/candidate-market/cms-v1.ts:709-711`), also when
  only the previous release has the gap; `opportunity-discovery-v1.ts:792` accepts it.
* The comparison of opportunity releases does not exclude the exporter's own market
  (`opportunity-discovery-v1.ts`, `buildRowsForComparison`), so that two releases of
  the same evidence may show revisions. Production passes no previous release.
* A tiny negative growth is "-0.000000" in memory and "0.000000" when rebuilt from
  its index row (`opportunity-index-row.ts:137-142`).
* `divideHalfUp` truncates negative quotients toward zero
  (`docs/research/2026-07-11-result-export-contract.md:231-232` says half up), and an
  absent flow is `MISSING` among suppliers but `NO_RECORDED...` in the explorer.
* GET checks the budget of all codes before their form, POST the other way round;
  both count duplicates.
* A market analysis route refuses bad parameters with an error of the candidate
  market family; only the explorer tells an incompatible package from an outage.
* `opportunity-detail` binds its identity to the index while its evidence is the
  artifact's; the trend of one artifact has one identity in two builds.

Links and search controls

* An economy box that is left within the 150 ms of its debounce says "Searching
  economies…" until it is used again (`app/economy-combobox.tsx:107-110`, `174`, `296`).
* A restored product given up with "Change product" while a rebuild looks the
  address's product up again comes back, with no product in the address
  (`app/product-combobox.tsx:362`).
* From the Trade Explorer to Opportunity Discovery a link carries up to 25 products;
  its parser accepts 20 (`app/trade-analysis-context.ts:55`, `923`), and a link with 21
  to 25 reads back as no product scope. An opportunity link with a market in focus but
  neither exporter nor pin is written without `recipe` and reads back as
  candidate-market (`358-364`, `894-902`). `CONTEXT.md:115-116` says that a canonical
  link reproduces its meaning; `LinksKeepTheirMeaning` excludes exactly these two.

Builders and promotion

* A rerun of the analysis artifact after a death between publication and report, with
  another `builtAt`, is refused as incompatible. The opportunity index removes the
  publication before it renames the new one. Two stagings share one `.partial`.
* The Eurostat builder publishes before it compares totals; the report and the exit
  code alone say that a package does not reconcile.
* Check sets carry no identity; `build-promotion-input.ts:104-125` stamps the
  configured one on them (`docs/promotion-and-observability.md:319-324` says that they
  are bound to it). A gate whose every attempt failed cannot be accepted later.
  `promote()` always publishes `recentTradeMomentum: null`.
* A counter that is reset between two scrapes and catches up is not noticed, and
  requests that timed out are not checked for their cache state.

## 7. Plan

Done: what serves requests, what alerts users, what activates and serves
releases, what answers questions, what builds and promotes; the safety of the
coordinator, the runtime, hydration, delivery, evaluation, activation,
promotion, the pool, the accounts, the store, the limiter, the poller, the candidate
market page and the opportunity feed proved.
Left, in order:

1. Proofs. The pins of `AnalyticsPlatform`, the routes of a retained build.
2. Product and economy searches as operations of `BoundedRuntime`; the filesystem
   object store below `SourceRefresh`.
3. The page and the exports composed: what a page shows through a deployment and a
   poll, down to the file it downloads.

## 8. Not modelled

* Product catalog and economy directory: immutable search indexes over normalised
  text; their parameters and errors are part of `AnalysisRoutes`.
* The metrics registry: counters are written and rendered, and nothing decides by
  them but the mixed load run, where scraped counters are inputs.
* The browser lab runner, which drives Chrome, and deployment scripts that call a
  platform's command line. `pg_dump` and `pg_restore`.
* The filesystem object store, which compares and then renames
  (`release/filesystem-release-object-store.ts:136`); the models assume the atomic
  compare-and-swap that the in-memory and S3 stores give.
* Left out of modelled components: the batch entry point of alert delivery, account
  consent, preferences and data export, health and readiness documents, quantity
  coverage of candidate markets, the columns and quoting of CSV files, wording,
  rendering, forms and the remaining pages. Of what the launch gate reads, the table
  of analyst needs, which is a constant of its own source.
* Arithmetic in doubles is exact in the models, with the one exception above. In
  the schedule of a load ties between equal credits may therefore fall otherwise in the code.
