------------------------- MODULE SourceStatusPoller -------------------------
(***************************************************************************)
(* The background poll of a serving machine (source-status-poller.ts) and  *)
(* the Source Freshness Status the runtime serves and keeps resolvable     *)
(* (verified-release-runtime.ts).  A status is the time it was published   *)
(* and the release it describes; statuses are published elsewhere, by a    *)
(* writer whose clock may be ahead.                                        *)
(***************************************************************************)
EXTENDS Naturals, Sequences, FiniteSets, SequencesExt

CONSTANTS
    Release, Other,   \* the served BACI Release and another one
    MaxTime,          \* bound on the clock
    MaxKept,          \* statusMicroCacheMaxBytes, in statuses
    WarnAfter,        \* consecutive failures until the warning
    MaxLoops          \* bound on the calls of runAndSchedule that stop and start leave

VARIABLES
    store,      \* the published statuses, the pointer's current one last
    now,
    polledAt,   \* when the poll under way began
    loop,       \* running; the calls of runAndSchedule that await the poll under
                \* way, the timers that will call it, and is one of them the
                \* timerHandle?
    current,    \* the poller's status
    failures,   \* consecutive ones, counted up to WarnAfter
    warning,
    served,     \* the runtime's status
    kept        \* its retainedSourceStatuses

vars == <<store, now, polledAt, loop, current, failures, warning, served, kept>>

Status(at, release) == [at |-> at, release |-> release]

\* retainSourceStatuses: the served status and the published ones of its release.
Kept(statuses) == {served} \union {s \in statuses : s.release = Release}

\* assertStatusMicroCacheBudget.
FitsCache(statuses) == Cardinality(statuses) <= MaxKept

\* Fault: a status of any age is taken.
AnyIsAcceptable(s) == s.release = Release /\ s.at <= polledAt

\* performPoll: of the served release, not from the future and no regression.
IsAcceptable(s) == s.release = Release /\ s.at <= polledAt /\ s.at >= current.at

\* The answer is taken: retain and accept go through.
IsTaken(s) == IsAcceptable(s) /\ FitsCache(Kept(Range(store)))

\* runAndSchedule: pollOnce, which joins the poll under way if there is one.
Await(from) ==
    /\ loop' = [from EXCEPT !.awaiting = @ + 1]
    /\ polledAt' = IF loop.awaiting = 0 THEN now ELSE polledAt

\* runAndSchedule after the poll: every call that awaited it schedules the next,
\* the last one's timer being kept as the handle, unless the poller is stopped.
NextLoop ==
    IF loop.running THEN [running |-> TRUE, awaiting |-> 0,
                          timers |-> loop.timers + loop.awaiting, handle |-> TRUE]
    ELSE [loop EXCEPT !.awaiting = 0]

\* acceptSourceStatus, and the poller after it.
PollSucceeds(s) ==
    /\ current' = s /\ served' = s
    /\ kept' = Kept(Range(store))
    /\ failures' = 0 /\ warning' = FALSE

Counted ==
    /\ failures' = IF failures < WarnAfter THEN failures + 1 ELSE failures
    /\ warning' = (failures' >= WarnAfter)
    /\ UNCHANGED <<served, kept>>

\* performPoll: catch.
PollFails == Counted /\ UNCHANGED current

Polls ==
    /\ loop.awaiting > 0
    /\ loop' = NextLoop
    /\ UNCHANGED <<store, now, polledAt>>

\* The store answers.
Answer ==
    /\ Polls
    /\ \/ IsTaken(Last(store)) /\ PollSucceeds(Last(store))
       \/ ~IsTaken(Last(store)) /\ PollFails

\* It does not, or not in time: withPollTimeout abandons the read.
TimeOut == Polls /\ PollFails

\* A timer of runAndSchedule: it forgets the handle, were that another timer's,
\* and does not ask whether the poller was stopped.
Fire ==
    /\ loop.timers > 0
    /\ Await([loop EXCEPT !.timers = @ - 1, !.handle = FALSE])
    /\ UNCHANGED <<store, now, current, failures, warning, served, kept>>

\* start
Start ==
    /\ ~loop.running /\ loop.awaiting + loop.timers < MaxLoops
    /\ Await([loop EXCEPT !.running = TRUE])
    /\ UNCHANGED <<store, now, current, failures, warning, served, kept>>

\* stop: the handle's timer is cancelled; a poll under way still ends.
Stop ==
    /\ loop.running
    /\ loop' = [loop EXCEPT !.running = FALSE, !.handle = FALSE,
                            !.timers = IF loop.handle THEN @ - 1 ELSE @]
    /\ UNCHANGED <<store, now, polledAt, current, failures, warning, served, kept>>

\* SourceStatusPublisher (see SourceRefresh): never older than the current one.
Publish(s) ==
    /\ Len(store) <= MaxTime
    /\ s # Last(store) /\ s.at >= Last(store).at /\ s.at <= now + 1
    /\ store' = Append(store, s)
    /\ UNCHANGED <<now, polledAt, loop, current, failures, warning, served, kept>>

Tick ==
    /\ now < MaxTime
    /\ now' = now + 1
    /\ UNCHANGED <<store, polledAt, loop, current, failures, warning, served, kept>>

\* The machine starts with its deployment's own status, which may be newer
\* than the published one.
Init ==
    /\ now = 1 /\ polledAt = 1
    /\ \E at \in 0 .. 1, release \in {Release, Other} : store = <<Status(at, release)>>
    /\ \E at \in 0 .. 1 : current = Status(at, Release)
    /\ served = current /\ kept = {current}
    /\ loop = [running |-> TRUE, awaiting |-> 1, timers |-> 0, handle |-> FALSE]
    /\ failures = 0 /\ warning = FALSE

Next ==
    \/ Answer \/ TimeOut \/ Fire \/ Start \/ Stop \/ Tick
    \/ \E at \in 0 .. MaxTime + 1, release \in {Release, Other} : Publish(Status(at, release))

\* The timer fires, a poll ends, and the store answers again and again.
Fairness == WF_vars(Fire) /\ WF_vars(Answer \/ TimeOut) /\ SF_vars(Answer)

Spec == Init /\ [][Next]_vars /\ Fairness

-----------------------------------------------------------------------------
\* The poller and the runtime never disagree about the status that is served,
\* and the served one can always be resolved.
PollerAgreesWithRuntime == current = served /\ served \in kept

\* A served status is replaced by a later one only, and what was served before
\* stays resolvable for as long as the pointer retains it.
NoRegress ==
    /\ served'.at >= served.at
    /\ \A s \in kept : s \in Range(store) => s \in kept'
StatusNeverRegresses == [][NoRegress]_<<served, kept>>

\* The pointer's status can be taken, and the machine runs.
Offered ==
    /\ loop.running /\ Last(store).release = Release
    /\ served.at <= Last(store).at /\ Last(store).at <= now /\ FitsCache(Kept(Range(store)))

\* A status that stays acceptable is served in the end, unless the poller is
\* stopped or the statuses of the release outgrow the cache; and a poller that
\* stays stopped comes to rest, however often it was started before.
AtRest == loop.awaiting = 0 /\ loop.timers = 0
StatusIsPickedUp ==
    /\ <>[]Offered => <>(served = Last(store))
    /\ <>[]~loop.running => <>[]AtRest
=============================================================================
