----------------------------- MODULE DuckDbPool -----------------------------
(***************************************************************************)
(* DuckDbAnalysisDatabase: a few connections shared by requests that may   *)
(* be aborted at any time, and a pool that may be closed under them.  A    *)
(* granted request runs later than the call that granted it.  A query is   *)
(* interrupted again and again until it settles, because an interrupt that *)
(* finds no statement executing is lost.                                   *)
(***************************************************************************)
EXTENDS Naturals, FiniteSets, DistinctSequences

CONSTANTS
    Null,
    Requests, Connections,
    MaxStatements   \* statements of one query

VARIABLES
    state,        \* of each request
    connection,   \* the one it was given
    aborted,      \* requests whose signal is aborted
    retrying,     \* the interrupt timers: a request, the connection it interrupts
    left,         \* statements each query has still to run
    outcome,      \* what each request was answered
    available, waiters, closed

vars == <<state, connection, aborted, retrying, left, outcome, available, waiters, closed>>

Holding == {"granted", "between", "executing"}
Holders == {r \in Requests : state[r] \in Holding}

\* The requests in s are answered o.
Answered(s, o) == [r \in Requests |-> IF r \in s THEN o ELSE outcome[r]]
Ended(s) == [r \in Requests |-> IF r \in s THEN "ended" ELSE state[r]]

\* acquire.
Acquire(r) ==
    /\ state[r] = "new"
    /\ UNCHANGED <<aborted, retrying, left, closed>>
    /\ \/ /\ closed \/ r \in aborted
          /\ state' = Ended({r})
          /\ outcome' = Answered({r}, IF closed THEN "closed" ELSE "aborted")
          /\ UNCHANGED <<connection, available, waiters>>
       \/ /\ ~closed /\ r \notin aborted /\ available # <<>>
          /\ state' = [state EXCEPT ![r] = "granted"]
          /\ connection' = [connection EXCEPT ![r] = Head(available)]
          /\ available' = Tail(available)
          /\ UNCHANGED <<outcome, waiters>>
       \/ /\ ~closed /\ r \notin aborted /\ available = <<>>
          /\ state' = [state EXCEPT ![r] = "waiting"]
          /\ waiters' = Append(waiters, r)
          /\ UNCHANGED <<connection, outcome, available>>

\* The signal of a request: a waiter leaves the queue, a running query is
\* interrupted for the first time.
Abort(r) ==
    /\ state[r] # "ended" /\ r \notin aborted
    /\ aborted' = aborted \union {r}
    /\ \/ /\ state[r] = "waiting"
          /\ waiters' = Without(waiters, r)
          /\ state' = Ended({r}) /\ outcome' = Answered({r}, "aborted")
          /\ UNCHANGED retrying
       \/ /\ state[r] \in {"between", "executing"}
          /\ retrying' = retrying \union {<<r, connection[r]>>}
          /\ UNCHANGED <<state, outcome, waiters>>
       \/ /\ state[r] \in {"new", "granted"}
          /\ UNCHANGED <<state, outcome, waiters, retrying>>
    /\ UNCHANGED <<connection, left, available, closed>>

\* withConnection continues with the connection it was granted.
Enter(r) ==
    /\ state[r] = "granted"
    /\ state' = [state EXCEPT ![r] = "between"]
    /\ retrying' = IF r \in aborted THEN retrying \union {<<r, connection[r]>>} ELSE retrying
    /\ UNCHANGED <<connection, aborted, left, outcome, available, waiters, closed>>

\* release: a waiter gets the connection, or it is available again.
Handed(c) ==
    \/ closed /\ UNCHANGED <<available, waiters>>
    \/ ~closed /\ waiters # <<>> /\ waiters' = Tail(waiters) /\ UNCHANGED available
    \/ ~closed /\ waiters = <<>> /\ available' = Append(available, c) /\ UNCHANGED waiters

\* Fault: the interrupt timer survives the query.
TimerGoesOn(r) == retrying

\* withConnection: finally.
TimerCleared(r) == {t \in retrying : t[1] # r}

\* The query ends, whatever way: its timer is cleared, its connection released.
Settle(r, result) ==
    LET c == connection[r]
        next == IF ~closed /\ waiters # <<>> THEN {Head(waiters)} ELSE {}
    IN /\ Handed(c)
       /\ state' = [q \in Requests |-> CASE q = r -> "ended"
                                         [] q \in next -> "granted"
                                         [] OTHER -> state[q]]
       /\ connection' = [q \in Requests |-> CASE q = r -> Null
                                              [] q \in next -> c
                                              [] OTHER -> connection[q]]
       /\ outcome' = Answered({r}, IF r \in aborted THEN "aborted" ELSE result)
       /\ retrying' = TimerCleared(r)
       /\ UNCHANGED <<aborted, left, closed>>

\* A statement begins, ends, or fails because the connection was closed.
Execute(r) ==
    /\ state[r] = "between" /\ left[r] > 0 /\ ~closed
    /\ state' = [state EXCEPT ![r] = "executing"]
    /\ left' = [left EXCEPT ![r] = @ - 1]
    /\ UNCHANGED <<connection, aborted, retrying, outcome, available, waiters, closed>>

EndStatement(r) ==
    /\ state[r] = "executing"
    /\ state' = [state EXCEPT ![r] = "between"]
    /\ UNCHANGED <<connection, aborted, retrying, left, outcome, available, waiters, closed>>

Finish(r) ==
    /\ state[r] = "between" /\ (left[r] = 0 \/ closed)
    /\ Settle(r, IF closed THEN "closed" ELSE "ok")

Strikes(c) == \E q \in Requests : state[q] = "executing" /\ connection[q] = c /\ Settle(q, "interrupted")
Misses(c) == \A q \in Requests : ~(state[q] = "executing" /\ connection[q] = c)

\* interruptUntilSettled, every 2 ms: what executes on the connection fails; an
\* interrupt that strikes nothing is repeated.
Interrupt(r) == \E t \in retrying : t[1] = r /\ Strikes(t[2])

\* close: the waiters are refused, the connections closed under their queries.
Close ==
    /\ ~closed /\ closed' = TRUE
    /\ waiters' = <<>> /\ available' = <<>>
    /\ state' = [r \in Requests |-> IF r \in Range(waiters) THEN "ended"
                                    ELSE IF state[r] = "executing" THEN "between" ELSE state[r]]
    /\ outcome' = Answered(Range(waiters), "closed")
    /\ UNCHANGED <<connection, aborted, retrying, left>>

Init ==
    /\ state = [r \in Requests |-> "new"]
    /\ connection = [r \in Requests |-> Null]
    /\ aborted = {} /\ retrying = {}
    /\ left = [r \in Requests |-> MaxStatements]
    /\ outcome = [r \in Requests |-> Null]
    /\ available = SetToSeq(Connections) /\ waiters = <<>> /\ closed = FALSE

Next ==
    \/ Close
    \/ \E r \in Requests : \/ Acquire(r) \/ Abort(r) \/ Enter(r) \/ Execute(r)
                           \/ EndStatement(r) \/ Finish(r) \/ Interrupt(r)

\* Callbacks and timers run, a deadline aborts every request in the end; a
\* statement may execute for ever unless it is interrupted.
Fairness ==
    \A r \in Requests : /\ WF_vars(Acquire(r)) /\ WF_vars(Abort(r)) /\ WF_vars(Enter(r))
                        /\ WF_vars(Execute(r)) /\ WF_vars(Finish(r)) /\ WF_vars(Interrupt(r))

Spec == Init /\ [][Next]_vars /\ Fairness
-----------------------------------------------------------------------------
\* While the pool is open every connection is either available once or held by
\* one request, through grants, aborts and releases in any order.
PoolAccounting ==
    ~closed => \A c \in Connections :
        Cardinality({i \in DOMAIN available : available[i] = c})
        + Cardinality({r \in Holders : connection[r] = c}) = 1

\* The interrupts of an aborted request never strike the query of the request
\* that holds the connection after it.
OnlyOwnInterrupts == \A r \in Requests : outcome[r] # "interrupted"

\* A connection is where the pool believes it is, and strikes whom it should.
PoolIsSound == PoolAccounting /\ OnlyOwnInterrupts

\* Every request is answered, also one that is aborted between two statements
\* and one that is granted a connection just before the pool is closed.
EveryQueryEnds == \A r \in Requests : <>(state[r] = "ended")
=============================================================================
