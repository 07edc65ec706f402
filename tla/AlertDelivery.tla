---------------------------- MODULE AlertDelivery ----------------------------
(***************************************************************************)
(* Delivery of alert events: deliverOpportunityWatchAlerts over the        *)
(* operational store's delivery rows, consent and suppression.             *)
(*                                                                         *)
(* One account with one watch, one channel and one address.  A worker      *)
(* lists the account's events and its watch, then takes the events one by  *)
(* one: screen for a cause of suppression, ensure the delivery row, send,  *)
(* record.  Every step ends at an await, nothing locks a row between two   *)
(* steps, and a worker may die at any of them.                             *)
(***************************************************************************)
EXTENDS Integers, Sequences, FiniteSets

CONSTANTS
    Workers,      \* runs of the worker that may overlap
    MaxAttempts,  \* input.maxAttempts
    Idempotent,   \* provider.supportsIdempotency
    Outcomes,     \* what the provider may answer
    Policies,     \* subset of BOOLEAN: may a run's policy allow / forbid sending?
    MaxEvents,    \* bound: alert events
    MaxDeaths,    \* bound: workers that die
    MaxChanges,   \* bound: changes of watch, consent and account
    Null

Events == 1 .. MaxEvents
Complaints == {"BOUNCE", "COMPLAINT"}

\* A row of operational_delivery_state, and a worker's run over the events.
Rows == [status : {"PENDING", "SENT", "FAILED", "SUPPRESSED", "DEAD_LETTER"},
         attempts : 0 .. MaxAttempts]
Places == {"screen", "suppressed", "ensure", "duplicate", "send", "record", "suppress"}
Runs == [todo : {t \in Seq(Events) : t # <<>>}, watch : {"ACTIVE", "PAUSED"},
         open : BOOLEAN, at : Places, answer : Outcomes \cup {Null}]

ASSUME AlertDeliveryAssumption ==
    /\ IsFiniteSet(Workers)
    /\ Null \notin Rows /\ Null \notin Runs /\ Null \notin Outcomes \cup Complaints
    /\ MaxAttempts \in Nat \ {0} /\ MaxEvents \in Nat \ {0}
    /\ MaxDeaths \in Nat /\ MaxChanges \in Nat
    /\ Idempotent \in BOOLEAN /\ Policies \subseteq BOOLEAN
    /\ "ACCEPTED" \in Outcomes
    /\ Outcomes \subseteq {"ACCEPTED", "TRANSIENT_FAILURE", "PERMANENT_FAILURE",
                           "BOUNCE", "COMPLAINT"}

VARIABLES
    account,      \* does the account exist?
    watch,        \* the watch: "ACTIVE", "PAUSED" or "DELETED"
    consent,      \* "none", "pending", "verified" or "unsubscribed"
    suppression,  \* reasons of operational_delivery_suppression rows
    raised,       \* the alert events are 1 .. raised
    delivery,     \* operational_delivery_state: Null or status and attempts
    job,          \* per worker, Null or its run
    accepted,     \* events whose idempotency key the provider has accepted
    mailed,       \* observed: messages that reached the address, per event
    sends,        \* observed: calls of provider.send, per event
    bounced,      \* observed: the provider has reported a bounce or complaint
    afterwards,   \* observed: messages each worker mailed to a suppressed address
    deaths, changes

storeVars == <<account, watch, consent, suppression, raised, delivery>>
observed == <<mailed, sends, bounced, afterwards>>
vars == <<storeVars, job, accepted, observed, deaths, changes>>

\* Counters saturate where no comparison tells larger values apart.
Cap == MaxAttempts + MaxDeaths + Cardinality(Workers)
Up(n, top) == IF n < top THEN n + 1 ELSE n

Busy(k) == job[k] # Null
At(k, step) == Busy(k) /\ job[k].at = step
EventAt(k) == Head(job[k].todo)

\* The worker turns to the next event, or ends.
NextEvent(k) ==
    job' = [job EXCEPT ![k] =
      IF Len(job[k].todo) = 1 THEN Null
      ELSE [job[k] EXCEPT !.todo = Tail(job[k].todo), !.at = "screen", !.answer = Null]]
Goto(k, step) == job' = [job EXCEPT ![k].at = step]

\* recordDeliveryAttempt: status overwritten, attempt counted.
Attempted(e, status) ==
    delivery' = [delivery EXCEPT ![e] =
      [status |-> status,
       attempts |-> IF @ = Null THEN 1 ELSE Up(@.attempts, MaxAttempts)]]

-----------------------------------------------------------------------------

\* The run lists events and watch once.  A deleted watch is not listed, and
\* without it no event has a delivery preference.
Start(k) ==
    /\ ~Busy(k)
    /\ account /\ watch # "DELETED" /\ raised > 0
    /\ \E open \in Policies :
         job' = [job EXCEPT ![k] =
           [todo |-> [i \in 1 .. raised |-> i], watch |-> watch, open |-> open,
            at |-> "screen", answer |-> Null]]
    /\ UNCHANGED <<storeVars, accepted, observed, deaths, changes>>

\* suppressionCause # null
Suppressed(k) ==
    \/ ~account
    \/ ~job[k].open
    \/ job[k].watch = "PAUSED"
    \/ consent # "verified"
    \/ suppression # {}

Screen(k) ==
    /\ At(k, "screen")
    /\ Goto(k, IF Suppressed(k) THEN "suppressed" ELSE "ensure")
    /\ UNCHANGED <<storeVars, accepted, observed, deaths, changes>>

\* recordSuppressedIfPossible
RecordSuppressed(k) ==
    /\ At(k, "suppressed")
    /\ IF account THEN Attempted(EventAt(k), "SUPPRESSED") ELSE UNCHANGED delivery
    /\ NextEvent(k)
    /\ UNCHANGED <<account, watch, consent, suppression, raised>>
    /\ UNCHANGED <<accepted, observed, deaths, changes>>

\* Fault: the attempt budget is not looked at.
AfterEnsureUnbounded(state) ==
    IF state.status = "DEAD_LETTER" THEN "next"
    ELSE IF state.status = "SENT" /\ ~Idempotent THEN "duplicate" ELSE "send"

\* Fault: a recorded failure is taken for the end of the event.
AfterEnsureGivingUp(state) ==
    IF state.status \in {"PENDING", "SUPPRESSED"} /\ state.attempts < MaxAttempts
    THEN "send" ELSE "next"

\* deliverOne, up to its loop: where the worker goes on.
AfterEnsure(state) ==
    IF state.status = "DEAD_LETTER" THEN "next"
    ELSE IF state.status = "SENT" /\ ~Idempotent THEN "duplicate"
    ELSE IF state.attempts < MaxAttempts THEN "send" ELSE "next"

\* ensureDeliveryState; without the account's rows it throws and the run ends.
Ensure(k) ==
    /\ At(k, "ensure")
    /\ LET e == EventAt(k)
           state == IF delivery[e] = Null THEN [status |-> "PENDING", attempts |-> 0]
                    ELSE delivery[e]
       IN IF ~account
          THEN job' = [job EXCEPT ![k] = Null] /\ UNCHANGED delivery
          ELSE /\ delivery' = [delivery EXCEPT ![e] = state]
               /\ IF AfterEnsure(state) = "next" THEN NextEvent(k)
                  ELSE Goto(k, AfterEnsure(state))
    /\ UNCHANGED <<account, watch, consent, suppression, raised>>
    /\ UNCHANGED <<accepted, observed, deaths, changes>>

\* DUPLICATE_SUPPRESSED is recorded as a further attempt.
RecordDuplicate(k) ==
    /\ At(k, "duplicate")
    /\ IF account THEN Attempted(EventAt(k), "SENT") /\ NextEvent(k)
       ELSE job' = [job EXCEPT ![k] = Null] /\ UNCHANGED delivery
    /\ UNCHANGED <<account, watch, consent, suppression, raised>>
    /\ UNCHANGED <<accepted, observed, deaths, changes>>

\* provider.send under the event's idempotency key.
Send(k) ==
    LET e == EventAt(k) IN
    /\ At(k, "send")
    /\ \E outcome \in IF Idempotent /\ e \in accepted THEN {"ACCEPTED"} ELSE Outcomes :
         /\ job' = [job EXCEPT ![k].at = "record", ![k].answer = outcome]
         /\ accepted' = IF outcome = "ACCEPTED" THEN accepted \cup {e} ELSE accepted
         /\ LET arrives == outcome = "ACCEPTED" /\ ~(Idempotent /\ e \in accepted) IN
            /\ mailed' = IF arrives THEN [mailed EXCEPT ![e] = Up(@, 2)] ELSE mailed
            /\ afterwards' = IF arrives /\ suppression # {}
                             THEN [afterwards EXCEPT ![k] = Up(@, 2)] ELSE afterwards
         /\ bounced' = (bounced \/ outcome \in Complaints)
    /\ sends' = [sends EXCEPT ![e] = Up(@, Cap)]
    /\ UNCHANGED <<storeVars, deaths, changes>>

\* mapProviderOutcome
StatusOf(outcome) ==
    IF outcome = "ACCEPTED" THEN "SENT"
    ELSE IF outcome = "TRANSIENT_FAILURE" THEN "FAILED" ELSE "DEAD_LETTER"

\* Fault: a bounce is dead-lettered without suppressing the address.
AfterRecordForgetting(outcome, attempts) ==
    IF outcome = "TRANSIENT_FAILURE" /\ attempts < MaxAttempts THEN "send" ELSE "next"

\* Where the loop goes on after recording an answer.
AfterRecord(outcome, attempts) ==
    IF outcome \in Complaints THEN "suppress"
    ELSE IF outcome = "TRANSIENT_FAILURE" /\ attempts < MaxAttempts THEN "send"
    ELSE "next"

Record(k) ==
    /\ At(k, "record")
    /\ IF ~account
       THEN job' = [job EXCEPT ![k] = Null] /\ UNCHANGED delivery
       ELSE /\ Attempted(EventAt(k), StatusOf(job[k].answer))
            /\ LET step == AfterRecord(job[k].answer, delivery'[EventAt(k)].attempts)
               IN IF step = "next" THEN NextEvent(k) ELSE Goto(k, step)
    /\ UNCHANGED <<account, watch, consent, suppression, raised>>
    /\ UNCHANGED <<accepted, observed, deaths, changes>>

\* recordDeliverySuppression after a bounce or complaint; it needs the account.
Suppress(k) ==
    /\ At(k, "suppress")
    /\ IF account
       THEN suppression' = suppression \cup {job[k].answer} /\ NextEvent(k)
       ELSE job' = [job EXCEPT ![k] = Null] /\ UNCHANGED suppression
    /\ UNCHANGED <<account, watch, consent, raised, delivery>>
    /\ UNCHANGED <<accepted, observed, deaths, changes>>

Die(k) ==
    /\ Busy(k) /\ deaths < MaxDeaths
    /\ deaths' = deaths + 1
    /\ job' = [job EXCEPT ![k] = Null]
    /\ UNCHANGED <<storeVars, accepted, observed, changes>>

-----------------------------------------------------------------------------

\* The evaluator appends an event; it dies before creating the delivery row
\* or it creates it.
Raise ==
    /\ account /\ raised < MaxEvents
    /\ raised' = raised + 1
    /\ \E row \in {Null, [status |-> "PENDING", attempts |-> 0]} :
         delivery' = [delivery EXCEPT ![raised + 1] = row]
    /\ UNCHANGED <<account, watch, consent, suppression>>
    /\ UNCHANGED <<job, accepted, observed, deaths, changes>>

Change == changes < MaxChanges /\ changes' = changes + 1

\* pauseWatch, resumeWatch, deleteWatch
ChangeWatch(to) ==
    /\ Change /\ account /\ watch # "DELETED" /\ watch # to
    /\ watch' = to
    /\ UNCHANGED <<account, consent, suppression, raised, delivery>>
    /\ UNCHANGED <<job, accepted, observed, deaths>>

\* requestDeliveryConsent: whatever was, the address must be verified anew.
RequestConsent ==
    /\ Change /\ account
    /\ consent' = "pending"
    /\ UNCHANGED <<account, watch, suppression, raised, delivery>>
    /\ UNCHANGED <<job, accepted, observed, deaths>>

\* verifyDeliveryConsent
VerifyConsent ==
    /\ Change /\ account /\ consent = "pending"
    /\ consent' = "verified"
    /\ UNCHANGED <<account, watch, suppression, raised, delivery>>
    /\ UNCHANGED <<job, accepted, observed, deaths>>

\* unsubscribeDeliveryTarget
Unsubscribe ==
    /\ Change /\ account /\ consent \in {"pending", "verified"}
    /\ consent' = "unsubscribed"
    /\ suppression' = suppression \cup {"UNSUBSCRIBE"}
    /\ UNCHANGED <<account, watch, raised, delivery>>
    /\ UNCHANGED <<job, accepted, observed, deaths>>

\* deleteAccount: every row of the account goes with it.
DeleteAccount ==
    /\ Change /\ account
    /\ account' = FALSE
    /\ watch' = "DELETED" /\ consent' = "none" /\ suppression' = {}
    /\ delivery' = [e \in Events |-> Null]
    /\ UNCHANGED <<raised, job, accepted, observed, deaths>>

Init ==
    /\ account = TRUE /\ watch = "ACTIVE" /\ consent \in {"verified", "pending"} /\ suppression = {}
    /\ raised = 0 /\ delivery = [e \in Events |-> Null]
    /\ job = [k \in Workers |-> Null]
    /\ accepted = {} /\ bounced = FALSE /\ afterwards = [k \in Workers |-> 0]
    /\ mailed = [e \in Events |-> 0] /\ sends = [e \in Events |-> 0]
    /\ deaths = 0 /\ changes = 0

Work(k) ==
    \/ Screen(k) \/ RecordSuppressed(k) \/ Ensure(k) \/ RecordDuplicate(k)
    \/ Send(k) \/ Record(k) \/ Suppress(k)

Next ==
    \/ \E k \in Workers : Start(k) \/ Work(k) \/ Die(k)
    \/ Raise
    \/ \E to \in {"ACTIVE", "PAUSED", "DELETED"} : ChangeWatch(to)
    \/ RequestConsent \/ VerifyConsent \/ Unsubscribe \/ DeleteAccount

Spec == Init /\ [][Next]_vars

\* Workers are run again and again, and the provider answers.
FairSpec == Spec /\ \A k \in Workers : WF_vars(Start(k)) /\ WF_vars(Work(k))

-----------------------------------------------------------------------------
(* Properties *)

(* The provider is called for an event at most maxAttempts times, plus one *)
(* for every other worker that passed the check before, plus one for every *)
(* worker that died before recording.                                      *)
BoundedSends ==
    \A e \in Events : sends[e] <= MaxAttempts + (Cardinality(Workers) - 1) + deaths

\* While no worker dies and the account exists, a complaint is recorded or
\* in the hands of a worker that is about to record it.
ComplaintsAreKept ==
    bounced /\ deaths = 0 /\ account =>
        \/ suppression \cap Complaints # {}
        \/ \E k \in Workers : Busy(k) /\ job[k].answer \in Complaints

\* After the address complained or unsubscribed, each worker mails at most
\* the one event it already had in hand, however many follow.
StopsWithTheEventInHand == \A k \in Workers : afterwards[k] <= 1

(* A bounce or a complaint is not lost, and once it or the end of the      *)
(* subscription is recorded it keeps every later event, also of workers    *)
(* that listed their events before.                                        *)
BouncesAreSuppressed == ComplaintsAreKept /\ StopsWithTheEventInHand

(* With a provider that cannot suppress duplicates the delivery row does:  *)
(* an event is mailed once.  The code overwrites the row's SENT when a     *)
(* later run finds a cause of suppression, and sends again when the cause  *)
(* is gone.                                                                *)
MailedOnce == \A e \in Events : mailed[e] <= 1

(* Every alert comes to an end: sent, dead-lettered or out of attempts,    *)
(* also when a worker dies on it.                                          *)
EveryAlertResolved ==
    \A e \in Events : raised >= e ~>
        \/ ~account \/ watch # "ACTIVE"
        \/ /\ delivery[e] # Null
           /\ \/ delivery[e].status \in {"SENT", "DEAD_LETTER"}
              \/ delivery[e].attempts = MaxAttempts
=============================================================================
