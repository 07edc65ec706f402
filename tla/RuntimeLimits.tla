---------------------------- MODULE RuntimeLimits ----------------------------
(***************************************************************************)
(* What the runtime limits, beside its executions.                         *)
(*                                                                         *)
(* The limit on anonymous requests: one token bucket per source            *)
(* (AnonymousSourceRateLimiter of bounded-application-runtime.ts), and the *)
(* measurement that paces its own requests so as to stay within it         *)
(* (createAnonymousSourcePacedHttpExecutor of http-performance-runner.ts). *)
(* A request of the measurement that fans out to three analyses spends     *)
(* three tokens and is paced accordingly.  Tokens are counted in units, so *)
(* that refills are whole numbers.                                         *)
(*                                                                         *)
(* The cache of results by weight (byte-weighted-lru.ts), and the deadline *)
(* of the request that fills it (request-deadline.ts, as                   *)
(* measured-runtime-route.ts uses it).  The entries are a sequence, the    *)
(* least recently used first.                                              *)
(***************************************************************************)
EXTENDS Integers, Sequences, FiniteSets, FiniteSetsExt, SequencesExt, Folds

CONSTANTS
    Sources, Paced,     \* the sources; the one of the measurement
    Token,              \* units of one token
    Capacity, Refill,   \* units of a full bucket; units per second
    MaxSources, Retention,
    Costs,              \* the costs of the paced requests, in order
    MaxTime,
    Keys, Weights, MaxBytes, MaxSets,   \* of the cache
    Null

VARIABLES
    now, steppedBack,   \* the clock of the runtime
    buckets,            \* by tracked source
    promise,            \* when the source was told to come back
    spent,              \* since when a source is tracked and what it has spent
    nextStartAt, sent, travelling, refused,  \* the measurement
    entries, bytes,     \* [key, weight]; the running total
    recent,             \* every key that was kept or found, the latest use last
    sets,               \* how many sets there were
    deadline            \* [reason, timer, request, disposed]

measurement == <<nextStartAt, sent, travelling, refused>>
-----------------------------------------------------------------------------
\* evictInactive, and evictToCapacity when the source is a new one: the least
\* recently seen goes, the first to enter among equals (any of them here).
Active == {s \in DOMAIN buckets : now - buckets[s].accessedAt <= Retention}
Oldest == {s \in Active : \A t \in Active : buckets[s].accessedAt <= buckets[t].accessedAt}
Evictions(source) ==
    IF source \in Active \/ Cardinality(Active) < MaxSources THEN {{}} ELSE {{s} : s \in Oldest}

Refilled(source) ==
    LET b == buckets[source]
    IN  Min({Capacity, b.tokens + Max({0, now - b.refilledAt}) * Refill})
Available(source) == IF source \in Active THEN Refilled(source) ELSE Capacity

\* Fault: the seconds to wait are rounded down.
RetryAfterRounded(tokens) == Max({1, (Token - tokens) \div Refill})

RetryAfter(tokens) == Max({1, (Token - tokens + Refill - 1) \div Refill})

Consume(source) ==
    \E gone \in Evictions(source) :
        LET tokens == Available(source)
            admitted == tokens >= Token
            left == IF admitted THEN tokens - Token ELSE tokens
            before == IF source \in Active THEN spent[source] ELSE [since |-> now, units |-> 0]
        IN  /\ buckets' = [s \in (Active \ gone) \cup {source} |->
                              IF s = source THEN [tokens |-> left, refilledAt |-> now, accessedAt |-> now]
                                            ELSE buckets[s]]
            /\ promise' = [promise EXCEPT ![source] = IF admitted THEN Null ELSE now + RetryAfter(tokens)]
            /\ spent' = [spent EXCEPT ![source] =
                            [before EXCEPT !.units = @ + IF admitted THEN Token ELSE 0]]

\* A request of any other source.
Request(source) == source # Paced /\ Consume(source) /\ UNCHANGED <<now, steppedBack, measurement>>

\* The measurement starts its next request when the time for it has come; a
\* nine tenths of the refill is what it allows itself.
StartPaced ==
    /\ sent < Len(Costs) /\ nextStartAt <= now
    /\ sent' = sent + 1
    /\ travelling' = Append(travelling, [left |-> Costs[sent + 1], late |-> FALSE])
    /\ nextStartAt' = now + (Costs[sent + 1] * Token * 10) \div (Refill * 9)
    /\ UNCHANGED <<now, steppedBack, buckets, promise, spent, refused>>

\* The analyses of a paced request reach the limiter one after the other.
ArrivePaced ==
    /\ travelling # <<>> /\ Consume(Paced)
    /\ travelling' = IF travelling[1].left = 1 THEN Tail(travelling)
                     ELSE [travelling EXCEPT ![1].left = @ - 1]
    /\ refused' = (refused \/ promise'[Paced] # Null)
    /\ UNCHANGED <<now, steppedBack, nextStartAt, sent>>

\* A request that is sent has arrived two seconds later.
Tick ==
    /\ now < MaxTime /\ now' = now + 1
    /\ \A i \in DOMAIN travelling : ~travelling[i].late
    /\ travelling' = [i \in DOMAIN travelling |-> [travelling[i] EXCEPT !.late = TRUE]]
    /\ UNCHANGED <<steppedBack, buckets, promise, spent, nextStartAt, sent, refused>>

\* The clock of the runtime is set back.
StepBack ==
    /\ now > 0 /\ ~steppedBack /\ travelling = <<>> /\ sent = 0
    /\ now' = now - 1 /\ steppedBack' = TRUE
    /\ UNCHANGED <<buckets, promise, spent, measurement>>

LimitInit ==
    /\ now = 0 /\ steppedBack = FALSE /\ buckets = [s \in {} |-> Null]
    /\ promise = [s \in Sources |-> Null] /\ spent = [s \in Sources |-> [since |-> 0, units |-> 0]]
    /\ nextStartAt = 0 /\ sent = 0 /\ travelling = <<>> /\ refused = FALSE

LimitNext == (\E s \in Sources : Request(s)) \/ StartPaced \/ ArrivePaced \/ Tick \/ StepBack

limitVars == <<now, steppedBack, buckets, promise, spent, measurement>>

LimitSpec == LimitInit /\ [][LimitNext]_limitVars
-----------------------------------------------------------------------------
\* A source that comes back when it was told to is admitted.
RetryAfterSuffices ==
    \A s \in Sources : promise[s] # Null /\ now >= promise[s] => Available(s) >= Token

\* A source that stays tracked is admitted its capacity and the refill, and no
\* more, as long as the clock goes forward.
NeverMoreThanTheLimit ==
    ~steppedBack => \A s \in Active : spent[s].units <= Capacity + Refill * (now - spent[s].since)

\* Forgetting a source for its inactivity gives it nothing.
InactiveAreFull == \A s \in DOMAIN buckets \ Active : Refilled(s) = Capacity

\* The paced measurement is never refused.
PacedIsNeverRefused == ~refused

\* The limiter does to any sources what it promises.
SourcesAreLimited ==
    /\ Cardinality(DOMAIN buckets) <= MaxSources
    /\ RetryAfterSuffices /\ NeverMoreThanTheLimit /\ InactiveAreFull

LimitIsKept == SourcesAreLimited /\ PacedIsNeverRefused
-----------------------------------------------------------------------------
Weight(s) == FoldLeft(LAMBDA sum, entry : sum + entry.weight, 0, s)
Without(s, key) == SelectSeq(s, LAMBDA entry : entry.key # key)
Has(key) == \E i \in DOMAIN entries : entries[i].key = key
Entry(key) == entries[CHOOSE i \in DOMAIN entries : entries[i].key = key]

Lookup(key) ==
    /\ Has(key)
    /\ entries' = Append(Without(entries, key), Entry(key))
    /\ recent' = Append(SelectSeq(recent, LAMBDA k : k # key), key)
    /\ UNCHANGED <<bytes, sets, deadline>>

\* The oldest go while the new entry does not fit; one that never fits only
\* removes the entry of its own key.
Kept(s, total, weight) ==
    LET fits == {n \in 0..Len(s) : n = Len(s) \/ total - Weight(SubSeq(s, 1, n)) + weight <= MaxBytes}
    IN  SubSeq(s, 1 + CHOOSE n \in fits : \A k \in fits : n <= k, Len(s))

Set(key, weight) ==
    LET others == Without(entries, key)
        total == bytes - IF Has(key) THEN Entry(key).weight ELSE 0
        kept == Kept(others, total, weight)
    IN  /\ sets < MaxSets /\ sets' = sets + 1
        /\ IF weight > MaxBytes
           THEN entries' = others /\ bytes' = total /\ recent' = SelectSeq(recent, LAMBDA k : k # key)
           ELSE /\ entries' = Append(kept, [key |-> key, weight |-> weight])
                /\ bytes' = total - (Weight(others) - Weight(kept)) + weight
                /\ recent' = Append(SelectSeq(recent, LAMBDA k : k # key), key)
        /\ UNCHANGED deadline

Clear ==
    /\ entries # <<>> /\ entries' = <<>> /\ bytes' = 0 /\ recent' = <<>>
    /\ UNCHANGED <<sets, deadline>>

\* The signal of a request: aborted by its client or by the timer, whichever
\* is first, until it is disposed of with the answer.
RequestAborts ==
    /\ deadline.request = "open"
    /\ deadline' = [deadline EXCEPT !.request = "aborted",
                                    !.reason = IF ~deadline.disposed /\ @ = Null THEN "client" ELSE @]
    /\ UNCHANGED <<entries, bytes, recent, sets>>
TimerFires ==
    /\ deadline.timer = "running"
    /\ deadline' = [deadline EXCEPT !.timer = "fired", !.reason = IF @ = Null THEN "deadline" ELSE @]
    /\ UNCHANGED <<entries, bytes, recent, sets>>
Dispose ==
    /\ ~deadline.disposed
    /\ deadline' = [deadline EXCEPT !.disposed = TRUE, !.answered = deadline.reason,
                                    !.timer = IF @ = "running" THEN "cleared" ELSE @]
    /\ UNCHANGED <<entries, bytes, recent, sets>>

CacheInit ==
    /\ entries = <<>> /\ bytes = 0 /\ recent = <<>> /\ sets = 0
    /\ \E request \in {"open", "aborted"} :
           deadline = [request |-> request, timer |-> "running", disposed |-> FALSE, answered |-> Null,
                       reason |-> IF request = "aborted" THEN "client" ELSE Null]

CacheNext ==
    \/ \E key \in Keys : Lookup(key) \/ \E weight \in Weights : Set(key, weight)
    \/ Clear \/ RequestAborts \/ TimerFires \/ Dispose
-----------------------------------------------------------------------------
\* The total is the weight of the entries and never above the limit; what is
\* kept are entries in the order of their last use, and no entry is gone while
\* one that was used before it stays.
KeysOf(s) == [i \in DOMAIN s |-> s[i].key]
Position(key) == CHOOSE i \in DOMAIN recent : recent[i] = key
CacheIsAccounted ==
    /\ bytes = Weight(entries) /\ bytes <= MaxBytes
    /\ IsInjective(KeysOf(entries))
    /\ \A i, j \in DOMAIN entries : i < j => Position(entries[i].key) < Position(entries[j].key)
    /\ \A key \in ToSet(recent) : ~Has(key) =>
           \A i \in DOMAIN entries : Position(key) < Position(entries[i].key)

\* A signal that was answered for is never aborted afterwards, so that no work
\* that outlives its request is cancelled for a reason that request never had.
DisposedIsFinal == deadline.disposed => deadline.reason = deadline.answered
=============================================================================
