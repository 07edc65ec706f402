---------------------------- MODULE PromotionReport ----------------------------
(***************************************************************************)
(* The promotion of a candidate.  A gate is measured by a script, which    *)
(* retains its evidence file and then a check set bound to it; the build   *)
(* writes a report of every gate and, last, the promotion input; the       *)
(* evaluation judges the input and verifies the files it names.  Commands  *)
(* are run one at a time and may stop between two writes; the files stay   *)
(* where they are when the configured identity changes.                    *)
(***************************************************************************)
EXTENDS Integers, Sequences, FiniteSets, SequencesExt, FiniteSetsExt, Functions

CONSTANTS
    Order,          \* the gates in the order of PROMOTION_GATE_REQUIRED_CHECKS
    Launch,         \* market-analysis-launch, which reads the other gates
    Raw,            \* the gates whose evidence file it reads as well
    Lifecycle,      \* the one of them with the rollback drill
    RequiredChecks, \* [gate -> the names of its checks]
    MaxIdentity,    \* bound on the candidates
    Outcomes,       \* what measuring may come to: [class, checks, drill]
    Amendments,     \* of the input: [gate, at, resolution]
    MaxTime,        \* bound on the measurements
    Null

VARIABLES
    now, identity,  \* the identity in the candidate's configuration
    evidence,       \* [gate -> the evidence file of its last measurement]
    measuring,      \* the check set a script is about to write
    checkSets,      \* [gate -> check set]
    reports,        \* [gate -> gate report]
    build,          \* the build of a promotion input that runs
    input           \* the promotion input

vars == <<now, identity, evidence, measuring, checkSets, reports, build, input>>

Gates == ToSet(Order)
Predecessors == Gates \ {Launch}

\* A single blocked check blocks; one to be reviewed leaves the gate so.
DeriveGateStatus(checks) ==
    LET statuses == Range(checks)
    IN  IF "blocked" \in statuses THEN "blocked"
        ELSE IF "review-required" \in statuses THEN "review-required" ELSE "accepted"

\* The files under reports/, by path.
Content(path) == IF path[1] = "report" THEN reports[path[2]] ELSE evidence[path[2]]
ReportPath(gate) == <<"report", gate>>
EvidencePath(gate) == <<"evidence", gate>>

NoPaths == [path \in {} |-> Null]

Init ==
    /\ now = 0 /\ identity = 1
    /\ evidence = [g \in Gates |-> Null] /\ checkSets = evidence /\ reports = evidence
    /\ measuring = Null /\ build = Null /\ input = Null
-----------------------------------------------------------------------------
\* No command is running.
Idle == measuring = Null /\ build = Null

\* The configuration names the next candidate.
ConfigureIdentity ==
    /\ Idle /\ identity < MaxIdentity /\ identity' = identity + 1
    /\ UNCHANGED <<now, evidence, measuring, checkSets, reports, build, input>>

\* A measurement: the evidence file names the identity that was measured, the
\* check set to be written only the file and its digest.
Retain(gate, result, alsoBound) ==
    LET file == [of |-> identity, at |-> now, class |-> result.class, checks |-> result.checks, drill |-> result.drill]
    IN  /\ evidence' = [evidence EXCEPT ![gate] = file]
        /\ measuring' = [gate |-> gate, class |-> result.class, checks |-> result.checks, at |-> now,
                         bound |-> [p \in alsoBound \cup {EvidencePath(gate)} |->
                                       IF p = EvidencePath(gate) THEN file ELSE Content(p)]]

Measure(gate) ==
    /\ gate \in Predecessors /\ Idle /\ now < MaxTime
    /\ \E result \in Outcomes :
        /\ DOMAIN result.checks = RequiredChecks[gate] /\ (result.drill # Null) = (gate = Lifecycle)
        /\ Retain(gate, result, {})
    /\ now' = now + 1
    /\ UNCHANGED <<identity, checkSets, reports, build, input>>

\* The rollback drill restored the prior image and data exactly, after serving
\* the candidate's, under a pairing and a source status of its own.
RollbackProven(drill, candidate) ==
    /\ drill.restored.image = drill.before.image
    /\ drill.successor.image # drill.before.image
    /\ drill.successor.image = candidate
    /\ drill.restored.release = drill.before.release
    /\ drill.successor.release = candidate
    /\ \A field \in {"pairing", "snapshot"} : drill.restored[field] \notin {drill.before[field], drill.successor[field]}
    /\ drill.successor.pairing # drill.before.pairing

AcceptedGate(gate) ==
    /\ reports[gate] # Null
    /\ reports[gate].class = "candidate" /\ reports[gate].status = "accepted"
    /\ reports[gate].identity = identity

\* The launch gate binds the reports of all others; the evidence it reads was
\* measured on the configured identity.
MeasureLaunch ==
    /\ Idle /\ now < MaxTime
    /\ \A gate \in Predecessors : AcceptedGate(gate)
    /\ \A gate \in Raw : /\ evidence[gate].of = identity
                         /\ evidence[gate].class = "candidate"
    /\ RollbackProven(evidence[Lifecycle].drill, identity)
    /\ Retain(Launch,
              [class |-> "candidate", checks |-> [c \in RequiredChecks[Launch] |-> "accepted"], drill |-> Null],
              {EvidencePath(g) : g \in Raw} \cup {ReportPath(g) : g \in Predecessors})
    /\ now' = now + 1
    /\ UNCHANGED <<identity, checkSets, reports, build, input>>

WriteCheckSet ==
    /\ measuring # Null
    /\ checkSets' = [checkSets EXCEPT ![measuring.gate] =
                        [class |-> measuring.class, checks |-> measuring.checks, at |-> measuring.at, bound |-> measuring.bound]]
    /\ measuring' = Null
    /\ UNCHANGED <<now, identity, evidence, reports, build, input>>

MeasurementStops ==
    /\ measuring # Null /\ measuring' = Null
    /\ UNCHANGED <<now, identity, evidence, checkSets, reports, build, input>>
-----------------------------------------------------------------------------
\* The build reads the identity and every check set, then writes.
LatestTimestamp(times) == Max(times)

BeginBuild ==
    /\ Idle
    /\ build' = [identity |-> identity, evidence |-> <<>>,
                 at |-> LatestTimestamp({now} \cup {checkSets[g].at : g \in {h \in Gates : checkSets[h] # Null}})]
    /\ UNCHANGED <<now, identity, evidence, measuring, checkSets, reports, input>>

\* A gate that was not measured is to be reviewed, in every check.
ReviewRequiredChecks(gate) == [c \in RequiredChecks[gate] |-> "review-required"]

Unmeasured(gate, at) ==
    [class |-> "candidate", checks |-> ReviewRequiredChecks(gate), at |-> at, bound |-> NoPaths]

\* The report, which carries the identity of the configuration.
GateReport(gate, set, of) ==
    [gate |-> gate, class |-> set.class, status |-> DeriveGateStatus(set.checks), identity |-> of,
     checks |-> set.checks, bound |-> set.bound]

\* Its descriptor in the input: one attempt, the one reported.
Descriptor(gate, set, report) ==
    [gate |-> gate, status |-> report.status, identity |-> report.identity, report |-> report, at |-> set.at,
     logs |-> {ReportPath(gate)} \cup DOMAIN set.bound,
     attempts |-> <<[at |-> set.at, status |-> report.status, log |-> report]>>, resolution |-> Null]

Buildable(gate, set) ==
    /\ RequiredChecks[gate] \subseteq DOMAIN set.checks
    /\ set.class = "candidate" \/ DeriveGateStatus(set.checks) # "accepted"

\* Reports are written one by one, the input after all of them.
BuildGate ==
    /\ build # Null /\ Len(build.evidence) < Len(Order)
    /\ LET gate == Order[Len(build.evidence) + 1]
           set == IF checkSets[gate] # Null THEN checkSets[gate] ELSE Unmeasured(gate, build.at)
           report == GateReport(gate, set, build.identity)
       IN  IF Buildable(gate, set)
           THEN /\ reports' = [reports EXCEPT ![gate] = report]
                /\ build' = [build EXCEPT !.evidence = Append(@, Descriptor(gate, set, report))]
                       ELSE build' = Null /\ UNCHANGED reports
    /\ UNCHANGED <<now, identity, evidence, measuring, checkSets, input>>

WriteInput ==
    /\ build # Null /\ Len(build.evidence) = Len(Order)
    /\ input' = [identity |-> build.identity, at |-> build.at, evidence |-> build.evidence]
    /\ build' = Null
    /\ UNCHANGED <<now, identity, evidence, measuring, checkSets, reports>>

BuildStops ==
    /\ build # Null /\ build' = Null
    /\ UNCHANGED <<now, identity, evidence, measuring, checkSets, reports, input>>

\* An operator adds what the build leaves out: an earlier attempt that failed,
\* with its log, and perhaps how it was resolved.
RetainAttempt ==
    /\ Idle /\ input # Null
    /\ \E amendment \in Amendments, i \in DOMAIN input.evidence :
        LET e == input.evidence[i]
        IN  /\ e.gate = amendment.gate /\ Len(e.attempts) = 1
            /\ input' = [input EXCEPT !.evidence[i].attempts =
                            <<[at |-> amendment.at, status |-> "blocked", log |-> e.report]>> \o @,
                                      !.evidence[i].resolution = amendment.resolution]
    /\ UNCHANGED <<now, identity, evidence, measuring, checkSets, reports, build>>
-----------------------------------------------------------------------------
Failures(attempts) == SelectSeq(attempts, LAMBDA a : a.status # "accepted")

\* Made by the same build, between the first failure and the latest attempt.
ValidResolution(e) ==
    e.resolution # Null =>
        /\ Failures(e.attempts) # <<>>
        /\ e.resolution.build = input.identity
        /\ e.resolution.at >= Head(Failures(e.attempts)).at
        /\ e.resolution.at <= Last(e.attempts).at

WellFormed(e) ==
    /\ e.identity = input.identity
    /\ e.at <= input.at
    /\ e.attempts # <<>>
    /\ \A i \in 2..Len(e.attempts) : e.attempts[i - 1].at <= e.attempts[i].at
    /\ Last(e.attempts).status = e.status
    /\ ValidResolution(e)

Accepted(e) == e.status = "accepted" /\ (Failures(e.attempts) # <<>> => e.resolution # Null)

\* The report a descriptor names by its digest supports what it says.
VerifyRetainedReport(e) ==
    /\ e.status = "accepted" => e.report.class = "candidate"
    /\ e.report.status = e.status /\ e.report.identity = e.identity /\ e.report.gate = e.gate
    /\ RequiredChecks[e.gate] \subseteq DOMAIN e.report.checks
    /\ DeriveGateStatus(e.report.checks) = e.status

\* The retained files are there, the report and the attempts' logs are among
\* them, and the report binds each other file as it is.
VerifyRetainedEvidence(e) ==
    /\ \A p \in e.logs : Content(p) # Null
    /\ Content(ReportPath(e.gate)) = e.report
    /\ VerifyRetainedReport(e)
    /\ DOMAIN e.report.bound = e.logs \ {ReportPath(e.gate)}
    /\ \A p \in DOMAIN e.report.bound : e.report.bound[p] = Content(p)
    /\ \A i \in DOMAIN e.attempts : e.attempts[i].log \in {Content(p) : p \in e.logs}

\* Duplicate, unknown or missing gates, a malformed descriptor or a file that is
\* not as described end the evaluation.
LoadPromotionEvaluation ==
    LET e == input.evidence
    IN  IF \/ Len(e) # Cardinality(Gates) \/ {e[i].gate : i \in DOMAIN e} # Gates
           \/ \E i \in DOMAIN e : ~WellFormed(e[i]) \/ ~VerifyRetainedEvidence(e[i])
        THEN "refused"
        ELSE IF \A i \in DOMAIN e : Accepted(e[i]) THEN "accepted" ELSE "blocked"

Next ==
    \/ ConfigureIdentity
    \/ \E gate \in Predecessors : Measure(gate)
    \/ MeasureLaunch \/ WriteCheckSet \/ MeasurementStops
    \/ BeginBuild \/ BuildGate \/ WriteInput \/ BuildStops
    \/ RetainAttempt
-----------------------------------------------------------------------------
IsAccepted == input # Null /\ LoadPromotionEvaluation = "accepted"

\* An accepted promotion rests on evidence files that say, each, that every
\* check of the gate was accepted on a candidate; on a launch measured with the
\* very reports and rollback drill that are retained now; and on failures that
\* were resolved before a later attempt succeeded.
PromotionIsDeserved ==
    IsAccepted =>
        /\ \A g \in Gates :
            /\ evidence[g].class = "candidate"
            /\ \A c \in RequiredChecks[g] : evidence[g].checks[c] = "accepted"
            /\ evidence[g].at <= input.at
            /\ reports[g].identity = input.identity
        /\ \A g \in Predecessors : reports[Launch].bound[ReportPath(g)] = reports[g]
        /\ evidence[Lifecycle].drill.restored.release = evidence[Lifecycle].drill.before.release
        /\ \A i \in DOMAIN input.evidence :
            LET attempts == input.evidence[i].attempts
            IN  \A failed \in DOMAIN attempts : attempts[failed].status # "accepted" =>
                    \E later \in failed + 1..Len(attempts) :
                        /\ attempts[later].status = "accepted"
                        /\ input.evidence[i].resolution.at \in attempts[1].at..attempts[later].at

=============================================================================
