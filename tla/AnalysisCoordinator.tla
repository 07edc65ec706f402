------------------------- MODULE AnalysisCoordinator -------------------------
(***************************************************************************)
(* The AnalysisExecutionCoordinator of the bounded application runtime     *)
(* (src/src/runtime/bounded-application-runtime.ts).                       *)
(*                                                                         *)
(* Every distinct analysis is a member of an execution group: a group of   *)
(* one for a single request, one group for a whole batch.  At most         *)
(* MaxConcurrent groups run, at most MaxQueued groups wait for a group     *)
(* slot, and the members of the running groups share MaxConcurrentMembers  *)
(* workers.  A queued group is dropped by its wait timer, a member that    *)
(* executes too long has its controller aborted, and any member is         *)
(* abandoned when its last waiter leaves.                                  *)
(*                                                                         *)
(* One action is one JavaScript turn.  A group object is identified with   *)
(* the call that creates it, so "collecting" is also the state of a group  *)
(* that no call has created yet.  Members are numbered in the order in     *)
(* which their batch lists them.                                           *)
(***************************************************************************)
EXTENDS Naturals, FiniteSets, DistinctSequences

CONSTANTS Groups,                \* execution groups, one per call
          Members,               \* the analyses the groups are made of
          GroupOf,               \* the group each member is added to
          MaxConcurrent,         \* maxConcurrentAnalyses
          MaxConcurrentMembers,  \* maxConcurrentAnalysisMembers
          MaxQueued              \* maxQueuedAnalyses

ASSUME CoordinatorAssumption ==
  /\ IsFiniteSet(Groups)
  /\ IsFiniteSet(Members)
  /\ Members \subseteq Nat
  /\ GroupOf \in [Members -> Groups]
  /\ MaxConcurrent \in Nat \ {0}
  /\ MaxConcurrentMembers \in Nat \ {0}
  /\ MaxQueued \in Nat

VARIABLES state,          \* group.state
          roster,         \* group.members, as a set
          remaining,      \* group.remainingMembers
          queue,          \* this.queue
          memberQueue,    \* this.memberQueue
          active,         \* this.active
          activeMembers,  \* this.activeMembers
          worker,         \* the members inside startMember
          outcome,        \* how a member's promise settled, "none" before
          aborted,        \* the members whose controller is aborted
          timedOut        \* the members whose execution timer fired

groupVars == <<state, roster, remaining, queue, active>>
memberVars == <<memberQueue, activeMembers, worker>>
promiseVars == <<outcome, aborted, timedOut>>
vars == <<groupVars, memberVars, promiseVars>>

GroupStates == {"collecting", "queued", "running", "settled"}

Rejections ==
  {"aborted", "queue-full", "queue-timeout", "execution-timeout", "error"}

Outcomes == {"none", "value"} \cup Rejections

MembersOf(g) == {m \in Members : GroupOf[m] = g}

Lesser(a, b) == IF a <= b THEN a ELSE b

\* The members of S in the order in which their batch lists them.
Orderings(S) ==
  {s \in [1..Cardinality(S) -> S] :
     \A i, j \in 1..Cardinality(S) : i < j => s[i] < s[j]}

Init ==
  /\ state = [g \in Groups |-> "collecting"]
  /\ roster = [g \in Groups |-> {}]
  /\ remaining = [g \in Groups |-> 0]
  /\ queue = <<>>
  /\ memberQueue = <<>>
  /\ active = 0
  /\ activeMembers = 0
  /\ worker = {}
  /\ outcome = [m \in Members |-> "none"]
  /\ aborted = {}
  /\ timedOut = {}

-----------------------------------------------------------------------------
(* Fault: the loop ends when one member is left.                           *)
DrainMembersButOne(q, w, busy) ==
  LET n == IF Len(q) <= 1 THEN 0 ELSE Lesser(Len(q) - 1, MaxConcurrentMembers - busy)
  IN  /\ memberQueue' = SubSeq(q, n + 1, Len(q))
      /\ worker' = w \cup {q[i] : i \in 1..n}
      /\ activeMembers' = busy + n

(* Fault: free workers take members from the end of the queue.             *)
DrainMembersFromEnd(q, w, busy) ==
  LET n == Lesser(Len(q), MaxConcurrentMembers - busy)
      left == Len(q) - n
  IN  /\ memberQueue' = SubSeq(q, 1, left)
      /\ worker' = w \cup {q[i] : i \in (left + 1)..Len(q)}
      /\ activeMembers' = busy + n

(* drainMembers: free workers take members from the front of the member    *)
(* queue q; w are the members still at work.  Its rejection of an aborted  *)
(* member is never reached: the abort listener has already removed the     *)
(* member (NoAbortedWaiter).                                               *)
DrainMembers(q, w, busy) ==
  LET n == Lesser(Len(q), MaxConcurrentMembers - busy)
  IN  /\ memberQueue' = SubSeq(q, n + 1, Len(q))
      /\ worker' = w \cup {q[i] : i \in 1..n}
      /\ activeMembers' = busy + n

(* settleGroupMember(g), then drainMembers.  The last member of g returns  *)
(* the group slot, and drain gives it to the first queued group.  Its loop *)
(* has at most one turn, because no group is queued while another slot is  *)
(* free (WorkConserving), and removeAbortedMembers finds nothing to remove *)
(* in that group (NoAbortedWaiter).                                        *)
SettleGroupMember(g, q, w, busy) ==
  \/ /\ remaining[g] # 1
     /\ remaining' = [remaining EXCEPT ![g] = @ - 1]
     /\ DrainMembers(q, w, busy)
     /\ UNCHANGED <<state, roster, queue, active>>
  \/ /\ remaining[g] = 1
     /\ queue = <<>>
     /\ state' = [state EXCEPT ![g] = "settled"]
     /\ remaining' = [remaining EXCEPT ![g] = 0]
     /\ active' = active - 1
     /\ DrainMembers(q, w, busy)
     /\ UNCHANGED <<roster, queue>>
  \/ /\ remaining[g] = 1
     /\ queue # <<>>
     /\ LET h == Head(queue)
        IN  /\ state' = [state EXCEPT ![g] = "settled", ![h] = "running"]
            /\ remaining' = [remaining EXCEPT ![g] = 0,
                                              ![h] = Cardinality(roster[h])]
            /\ \E s \in Orderings(roster[h]) : DrainMembers(q \o s, w, busy)
     /\ queue' = Tail(queue)
     /\ UNCHANGED <<roster, active>>

-----------------------------------------------------------------------------
(* createGroup, addToGroup and sealGroup: one turn of execute or           *)
(* executeBatch.  S are the requests of the call that need work of their   *)
(* own; the others were answered, refused, or joined to work under way.    *)
SubmitEmpty(g, S) ==
  /\ state[g] = "collecting"
  /\ S = {}
  /\ state' = [state EXCEPT ![g] = "settled"]
  /\ UNCHANGED <<roster, remaining, queue, active, memberVars, promiseVars>>

SubmitAndStart(g, S) ==
  /\ state[g] = "collecting"
  /\ S # {}
  /\ active < MaxConcurrent
  /\ state' = [state EXCEPT ![g] = "running"]
  /\ roster' = [roster EXCEPT ![g] = S]
  /\ remaining' = [remaining EXCEPT ![g] = Cardinality(S)]
  /\ active' = active + 1
  /\ \E s \in Orderings(S) :
       DrainMembers(memberQueue \o s, worker, activeMembers)
  /\ UNCHANGED <<queue, promiseVars>>

SubmitQueueFull(g, S) ==
  /\ state[g] = "collecting"
  /\ S # {}
  /\ active >= MaxConcurrent
  /\ Len(queue) >= MaxQueued
  /\ state' = [state EXCEPT ![g] = "settled"]
  /\ roster' = [roster EXCEPT ![g] = S]
  /\ outcome' = [m \in Members |->
                   IF m \in S THEN "queue-full" ELSE outcome[m]]
  /\ UNCHANGED <<remaining, queue, active, memberVars, aborted, timedOut>>

SubmitAndQueue(g, S) ==
  /\ state[g] = "collecting"
  /\ S # {}
  /\ active >= MaxConcurrent
  /\ Len(queue) < MaxQueued
  /\ state' = [state EXCEPT ![g] = "queued"]
  /\ roster' = [roster EXCEPT ![g] = S]
  /\ queue' = Append(queue, g)
  /\ UNCHANGED <<remaining, active, memberVars, promiseVars>>

Submit(g, S) ==
  \/ SubmitEmpty(g, S)
  \/ SubmitAndStart(g, S)
  \/ SubmitQueueFull(g, S)
  \/ SubmitAndQueue(g, S)

-----------------------------------------------------------------------------
(* Fault: no abort listener is registered for a member of a started group. *)
AbortPendingUnheard(m) ==
  /\ m \in ToSet(memberQueue) \ aborted
  /\ aborted' = aborted \cup {m}
  /\ UNCHANGED <<groupVars, memberVars, outcome, timedOut>>

(* Fault: an abort frees the worker that is still at work.                 *)
AbortExecutingFreesWorker(m) ==
  /\ m \in worker \ aborted
  /\ outcome[m] = "none"
  /\ aborted' = aborted \cup {m}
  /\ activeMembers' = activeMembers - 1
  /\ UNCHANGED <<groupVars, memberQueue, worker, outcome, timedOut>>

(* The last waiter of a member leaves and aborts its controller.  While    *)
(* the group is queued the listener is removeQueuedMember, which settles a *)
(* group it empties; in the member queue it is removePendingMember; a      *)
(* member at work only sees its signal.                                    *)
AbortQueued(m) ==
  LET g == GroupOf[m]
  IN  /\ state[g] = "queued"
      /\ m \in roster[g]
      /\ roster' = [roster EXCEPT ![g] = @ \ {m}]
      /\ \/ /\ roster[g] # {m}
            /\ UNCHANGED <<state, queue>>
         \/ /\ roster[g] = {m}
            /\ queue' = Without(queue, g)
            /\ state' = [state EXCEPT ![g] = "settled"]
      /\ outcome' = [outcome EXCEPT ![m] = "aborted"]
      /\ aborted' = aborted \cup {m}
      /\ UNCHANGED <<remaining, active, memberVars, timedOut>>

AbortPending(m) ==
  /\ m \in ToSet(memberQueue)
  /\ outcome' = [outcome EXCEPT ![m] = "aborted"]
  /\ aborted' = aborted \cup {m}
  /\ SettleGroupMember(GroupOf[m], Without(memberQueue, m),
                       worker, activeMembers)
  /\ UNCHANGED timedOut

AbortExecuting(m) ==
  /\ m \in worker \ aborted
  /\ outcome[m] = "none"
  /\ aborted' = aborted \cup {m}
  /\ UNCHANGED <<groupVars, memberVars, outcome, timedOut>>

Abort(m) == AbortQueued(m) \/ AbortPending(m) \/ AbortExecuting(m)

(* Fault: the wait timer does not reject the members of the group.         *)
QueueTimeoutSilent(g) ==
  /\ state[g] = "queued"
  /\ state' = [state EXCEPT ![g] = "settled"]
  /\ queue' = Without(queue, g)
  /\ UNCHANGED <<roster, remaining, active, memberVars, promiseVars>>

(* group.waitTimer of a queued group fires.                                *)
QueueTimeout(g) ==
  /\ state[g] = "queued"
  /\ state' = [state EXCEPT ![g] = "settled"]
  /\ queue' = Without(queue, g)
  /\ outcome' = [m \in Members |->
                   IF m \in roster[g] THEN "queue-timeout" ELSE outcome[m]]
  /\ aborted' = aborted \cup roster[g]
  /\ UNCHANGED <<roster, remaining, active, memberVars, timedOut>>

(* Fault: the execution timer does not abort the controller.               *)
ExecutionTimeoutNoAbort(m) ==
  /\ m \in worker \ timedOut
  /\ outcome[m] = "none"
  /\ timedOut' = timedOut \cup {m}
  /\ UNCHANGED <<groupVars, memberVars, outcome, aborted>>

(* executionTimer of a member at work fires.                               *)
ExecutionTimeout(m) ==
  /\ m \in worker \ timedOut
  /\ outcome[m] = "none"
  /\ timedOut' = timedOut \cup {m}
  /\ aborted' = aborted \cup {m}
  /\ UNCHANGED <<groupVars, memberVars, outcome>>

(* The analysis itself settles: the member's promise is answered at once,  *)
(* with the timeout when the timer has fired.                              *)
Settle(m, result) ==
  /\ m \in worker
  /\ outcome[m] = "none"
  /\ outcome' = [outcome EXCEPT
                   ![m] = IF m \in timedOut THEN "execution-timeout"
                                            ELSE result]
  /\ UNCHANGED <<groupVars, memberVars, aborted, timedOut>>

(* Fault: the finally callback does not give the worker back.              *)
ReleaseLeakingWorker(m) ==
  /\ m \in worker
  /\ outcome[m] # "none"
  /\ SettleGroupMember(GroupOf[m], memberQueue, worker \ {m}, activeMembers)
  /\ UNCHANGED promiseVars

(* The finally callback of startMember, a later microtask: only now is the *)
(* worker free again.                                                      *)
Release(m) ==
  /\ m \in worker
  /\ outcome[m] # "none"
  /\ SettleGroupMember(GroupOf[m], memberQueue, worker \ {m},
                       activeMembers - 1)
  /\ UNCHANGED promiseVars

-----------------------------------------------------------------------------
Next ==
  \/ \E g \in Groups : \/ \E S \in SUBSET MembersOf(g) : Submit(g, S)
                       \/ QueueTimeout(g)
  \/ \E m \in Members :
       \/ Abort(m)
       \/ ExecutionTimeout(m)
       \/ \E result \in {"value", "error"} : Settle(m, result)
       \/ Release(m)

Spec == Init /\ [][Next]_vars

(* Timers fire and microtasks run; nothing is assumed of the analyses.     *)
TimersFair ==
  /\ \A g \in Groups : WF_vars(QueueTimeout(g))
  /\ \A m \in Members : WF_vars(ExecutionTimeout(m)) /\ WF_vars(Release(m))

(* An analysis whose signal is aborted settles: the DuckDB adapter repeats *)
(* its interrupt every 2 ms until the query has settled.  An analysis that *)
(* nobody aborts may still run forever.                                    *)
AbortsRespected ==
  \A m \in Members :
    WF_vars(m \in aborted /\ \E result \in {"value", "error"} :
                               Settle(m, result))

FairSpec == Spec /\ TimersFair

-----------------------------------------------------------------------------
Running == {g \in Groups : state[g] = "running"}

Unfinished(g) ==
  {m \in MembersOf(g) : m \in worker \cup ToSet(memberQueue)}

(* Every variable has the shape the code gives it.                         *)
TypeOK ==
  /\ state \in [Groups -> GroupStates]
  /\ roster \in [Groups -> SUBSET Members]
  /\ remaining \in [Groups -> Nat]
  /\ queue \in Seq(Groups)
  /\ memberQueue \in Seq(Members)
  /\ active \in Nat
  /\ activeMembers \in Nat
  /\ worker \in SUBSET Members
  /\ outcome \in [Members -> Outcomes]
  /\ aborted \in SUBSET Members
  /\ timedOut \in SUBSET Members

(* The slot counters are the slots: this.active counts the running groups, *)
(* this.activeMembers the members at work and group.remainingMembers the   *)
(* members of a running group that are not finished, and none exceeds its  *)
(* bound.  A decrement missed or made twice on any of the abort, timeout   *)
(* and settle paths would leak a slot or admit one analysis too many.      *)
SlotAccounting ==
  /\ active = Cardinality(Running)
  /\ active <= MaxConcurrent
  /\ activeMembers = Cardinality(worker)
  /\ activeMembers <= MaxConcurrentMembers
  /\ Len(queue) <= MaxQueued
  /\ \A g \in Running : remaining[g] = Cardinality(Unfinished(g))

(* Nobody waits while a slot is free: a group is queued only when every    *)
(* group slot is taken, a member waits only when every worker is.          *)
WorkConserving ==
  /\ queue # <<>> => active = MaxConcurrent
  /\ memberQueue # <<>> => activeMembers = MaxConcurrentMembers

(* An aborted member has left both queues, so it never takes a slot.       *)
NoAbortedWaiter ==
  /\ \A g \in ToSet(queue) : roster[g] \cap aborted = {}
  /\ ToSet(memberQueue) \cap aborted = {}

(* No call is forgotten: a submitted member whose promise is not settled   *)
(* belongs to a queued group, or is in the member queue, or at work, and   *)
(* it is in one of these places only.                                      *)
NoLostMember ==
  \A m \in Members :
    LET g == GroupOf[m]
        inQueue == state[g] = "queued" /\ m \in roster[g]
        inMemberQueue == m \in ToSet(memberQueue)
    IN  /\ m \in roster[g] /\ outcome[m] = "none"
             => inQueue \/ inMemberQueue \/ m \in worker
        /\ inQueue \/ inMemberQueue => outcome[m] = "none"
        /\ ~ (inMemberQueue /\ m \in worker)
        /\ inMemberQueue \/ m \in worker => state[g] = "running"

(* The queues hold what their names say, each entry once.                  *)
QueuesConsistent ==
  /\ IsInjective(queue)
  /\ ToSet(queue) = {g \in Groups : state[g] = "queued"}
  /\ \A g \in ToSet(queue) : roster[g] # {}
  /\ IsInjective(memberQueue)

(* First come, first served: whoever starts, or stands in front of one     *)
(* that goes on waiting, stood in front of it before.  So neither a new    *)
(* call nor a later one gets ahead, in either queue.                       *)
Overtaken(waiting, waitingNext, started) ==
  \E i \in 1..Len(waiting), p \in 1..Len(waitingNext) :
    /\ waiting[i] = waitingNext[p]
    /\ \E x \in started \cup {waitingNext[k] : k \in 1..(p - 1)} :
         x \notin {waiting[k] : k \in 1..(i - 1)}

FirstComeFirstServed ==
  [][/\ ~ Overtaken(queue, queue', Running' \ Running)
     /\ ~ Overtaken(memberQueue, memberQueue', worker' \ worker)]_vars

(* The wait for a group slot is bounded by the wait timer alone, even when *)
(* a running analysis ignores its signal.                                  *)
QueueWaitBounded ==
  \A g \in Groups : state[g] = "queued" ~> state[g] # "queued"

(* Every call is answered: the wait is bounded, and where aborted analyses *)
(* settle, a running call ends too, although an analysis may run for ever  *)
(* until its signal is aborted.                                            *)
EveryMemberAnswered ==
  /\ QueueWaitBounded
  /\ AbortsRespected => \A m \in Members : m \in roster[GroupOf[m]] ~> outcome[m] # "none"
=============================================================================
