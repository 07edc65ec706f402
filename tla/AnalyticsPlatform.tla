-------------------------- MODULE AnalyticsPlatform --------------------------
(***************************************************************************)
(* The Trade Analytics Platform (trade-analytics-platform.ts) over the      *)
(* retained builds, and the Market Analysis above it (market-analysis.ts).  *)
(*                                                                         *)
(* A call validates its request, finds the package and the evidence of the  *)
(* build it names, loads the evidence (a candidate-market call then loads   *)
(* that of the previous release), and completes under an Analysis Identity. *)
(* A market analysis makes three such calls of one build, concurrently, and *)
(* joins them.  The calls of the model interleave at every await.           *)
(***************************************************************************)
EXTENDS Integers, Sequences, FiniteSets, SequencesExt

CONSTANTS
    Null,
    Windows,     \* the served builds: build -> recipe -> Null or a binding
    Sources,     \* evidence by name: what it is, of which build, what it knows
    Numbers,     \* an economy code as written -> its number, Null if malformed
    Requests,    \* requests a caller may make one by one
    Contexts     \* contexts a market analysis may be asked for

VARIABLES
    served,      \* the window of this process
    closed,      \* has the process closed its evidence?
    call,        \* the calls: two of their own, or three of a market analysis
    market       \* the market analysis, or Null

vars == <<served, closed, call, market>>

Calls == 1..3
Idle == [step |-> "idle"]

\* The binding of a build for a recipe; a build that has none is retired.  The
\* detail of an opportunity has the package of the index, and evidence of its
\* own that need not be bound.
Binding(build, recipe) ==
    IF build \in DOMAIN served THEN served[build][recipe] ELSE Null
DetailBinding(build) ==
    LET index == Binding(build, "opportunity-discovery")
    IN IF index = Null THEN Null ELSE IF index.detail = Null THEN Null ELSE [index EXCEPT !.source = index.detail]
BindingFor(request) ==
    IF request.recipe = "opportunity-detail" THEN DetailBinding(request.build)
                                             ELSE Binding(request.build, request.recipe)

\* What is bound for the comparison of a build with the previous release.
Previous(build) == served[build].previous

-----------------------------------------------------------------------------
(* Requests and their normal forms.                                        *)

\* The form of a request, which is checked before anything is looked up.  Only
\* the explorer leaves all but the name of the build for later.
WellFormed(request) ==
    /\ request.build # Null
    /\ request.recipe # "trade-explorer" =>
           /\ request.recipe # "recent-trade-momentum" => Numbers[request.economy] # Null
           /\ request.product # Null
           /\ request.recipe = "opportunity-detail" => Numbers[request.market] # Null

\* The finalized window of a package, which an explorer query must lie in.
FinalizedWindow(package) == package.cutoff - 4 .. package.cutoff
QueryAccepted(request, package) ==
    /\ Numbers[request.economy] # Null /\ request.product # Null
    /\ request.years # Null => request.years # <<>> /\ Range(request.years) \subseteq FinalizedWindow(package)

\* The inputs that are the same however they are written: codes are numbers,
\* a list of years is a set, and no list means the whole window.
Inputs(request, package) ==
    CASE request.recipe = "trade-explorer" ->
             [economy |-> Numbers[request.economy], product |-> request.product,
              years |-> IF request.years = Null THEN FinalizedWindow(package) ELSE Range(request.years)]
      [] request.recipe = "opportunity-discovery" -> [economy |-> Numbers[request.economy]]
      [] request.recipe = "opportunity-detail" ->
             [economy |-> Numbers[request.economy], product |-> request.product, market |-> Numbers[request.market]]
      [] request.recipe = "recent-trade-momentum" -> [economy |-> request.economy, product |-> request.product]
      [] OTHER -> [economy |-> Numbers[request.economy], product |-> request.product]

\* An Analysis Identity is a digest, so it is what is digested.
AnalysisIdentity(recipe, package, inputs) == <<recipe, package.id, inputs>>

-----------------------------------------------------------------------------
Init ==
    /\ served \in Windows
    /\ closed = FALSE
    /\ call = [i \in Calls |-> Idle]
    /\ market = Null

Answer(i, state) == call' = [call EXCEPT ![i] = [step |-> "done", request |-> @.request, state |-> state]]

\* A caller asks for one analysis.
Ask(i, request) ==
    /\ i # 3 /\ market = Null /\ call[i] = Idle
    /\ call' = [call EXCEPT ![i] = [step |-> "asked", request |-> request]]
    /\ UNCHANGED <<served, closed, market>>

\* A caller asks for a market analysis: the candidates of the exporter, and
\* the trend and the suppliers of the market, for one product of one build.
MarketRequest(i, context) ==
    [recipe |-> <<"candidate-market", "trade-trend", "supplier-competition">>[i], build |-> context.build,
     economy |-> IF i = 1 THEN context.exporter ELSE context.market, product |-> context.product]

AskMarket(context) ==
    /\ market = Null /\ \A i \in Calls : call[i] = Idle
    /\ market' = [context |-> context, state |-> "pending"]
    /\ call' = [i \in Calls |-> [step |-> "asked", request |-> MarketRequest(i, context)]]
    /\ UNCHANGED <<served, closed>>

\* The part of execute before the first await: the form, the build and its
\* package; then the evidence is asked for.
LoadFrom(i, binding) ==
    call' = [call EXCEPT ![i] = [step |-> "loading", request |-> @.request, package |-> binding.package,
                                 source |-> binding.source]]

Resolve(i) ==
    LET request == call[i].request
        binding == BindingFor(request)
    IN /\ call[i].step = "asked" /\ request.recipe # "trade-explorer"
       /\ IF ~ WellFormed(request) THEN Answer(i, "invalid-input")
          ELSE IF binding = Null THEN Answer(i, "retired")
          ELSE IF binding.reason # "compatible" THEN Answer(i, "incompatible-package")
          ELSE LoadFrom(i, binding)
       /\ UNCHANGED <<served, closed, market>>

\* The explorer needs the package before it can check the years of a query.
ResolveExplorer(i) ==
    LET request == call[i].request
        binding == BindingFor(request)
    IN /\ call[i].step = "asked" /\ request.recipe = "trade-explorer"
       /\ IF ~ WellFormed(request) THEN Answer(i, "invalid-input")
          ELSE IF binding = Null THEN Answer(i, "retired")
          ELSE IF binding.reason # "compatible" THEN Answer(i, "incompatible-package")
          ELSE IF ~ QueryAccepted(request, binding.package) THEN Answer(i, "invalid-input")
          ELSE LoadFrom(i, binding)
       /\ UNCHANGED <<served, closed, market>>

\* An economy or product that a source has no record of.
Knows(source, request) ==
    /\ (IF request.recipe = "recent-trade-momentum" THEN request.economy ELSE Numbers[request.economy])
           \in Sources[source].economies
    /\ request.recipe # "opportunity-discovery" => request.product \in Sources[source].products

\* A source is of one build, and of none once it is closed.
Retired(source, request) == closed \/ Sources[source].build # request.build

\* What a source says it is, against what the package says it is.
IsThePackages(recipe, source, package) ==
    recipe \in {"recent-trade-momentum", "trade-explorer"} => Sources[source].sha = package.evidence

\* The recipes that answer with a cohort say when it is empty.
CompletionState(recipe, cohort) ==
    IF cohort = {} /\ recipe \in {"candidate-market", "supplier-competition", "trade-explorer", "opportunity-discovery"}
    THEN "empty" ELSE "success"

\* A completed call, and the evidence it used.
Complete(i, compared) ==
    LET c == call[i]
        inputs == Inputs(c.request, c.package)
        cohort == Sources[c.source].cohort[c.request.recipe]
    IN call' = [call EXCEPT ![i] =
           [step |-> "done", request |-> c.request,
            state |-> CompletionState(c.request.recipe, cohort),
            package |-> c.package.id, identity |-> AnalysisIdentity(c.request.recipe, c.package, inputs),
            inputs |-> inputs, evidence |-> Sources[c.source].sha, compared |-> compared, cohort |-> cohort,
            provenance |-> [release |-> Sources[c.source].release, cutoff |-> Sources[c.source].cutoff]]]

\* The evidence answers.  A candidate-market call goes on with the previous
\* release, unless it is the same release or none is bound.
Load(i) ==
    LET c == call[i]
        request == c.request
        previous == Previous(request.build)
    IN /\ c.step = "loading"
       /\ CASE Retired(c.source, request) -> Answer(i, "retired")
            [] ~ Retired(c.source, request) /\ ~ Knows(c.source, request) -> Answer(i, "invalid-input")
            [] OTHER ->
                   IF ~ IsThePackages(request.recipe, c.source, c.package) THEN Answer(i, "incompatible-package")
                   ELSE IF request.recipe # "candidate-market" \/ previous = Null THEN Complete(i, Null)
                   ELSE IF Sources[previous].release = Sources[c.source].release THEN Complete(i, "unrecomputed")
                   ELSE call' = [call EXCEPT ![i].step = "comparing"]
       /\ UNCHANGED <<served, closed, market>>

\* The previous release knows the exporter and the product, or has nothing to
\* compare with; it must be the artifact that was bound.
LoadPrevious(i) ==
    LET c == call[i]
        previous == Previous(c.request.build)
    IN /\ c.step = "comparing"
       /\ IF Retired(previous, c.request) THEN Answer(i, "retired")
          ELSE IF ~ Knows(previous, c.request) THEN Complete(i, "empty")
          ELSE Complete(i, Sources[previous].sha)
       /\ UNCHANGED <<served, closed, market>>

\* While a call waits for evidence it may be refused a place, run out of a
\* budget, find the evidence unavailable, or be abandoned by its caller.
Refuse(i) ==
    /\ call[i].step \in {"loading", "comparing"}
    /\ \/ Answer(i, "capacity")
       \/ Answer(i, "temporary-unavailability")
       \/ call[i].request.recipe \in {"supplier-competition", "trade-explorer"} /\ Answer(i, "budget")
       \/ Answer(i, "thrown")
    /\ UNCHANGED <<served, closed, market>>

Close ==
    /\ ~ closed /\ closed' = TRUE
    /\ UNCHANGED <<served, call, market>>

-----------------------------------------------------------------------------
(* The market analysis.                                                    *)

FailureRank ==
    [s \in {"invalid-input", "retired", "incompatible-package", "budget", "rate-limit", "capacity",
            "temporary-unavailability"} |->
        CASE s = "invalid-input" -> 1 [] s = "retired" -> 2 [] s = "incompatible-package" -> 3 [] s = "budget" -> 4
          [] s = "rate-limit" -> 5 [] s = "capacity" -> 6 [] s = "temporary-unavailability" -> 7]

\* Of the calls that failed, the one with the lowest rank, and the first of those.
PickFailureWinner ==
    LET failed == {i \in Calls : call[i].state \in DOMAIN FailureRank}
        rank(i) == FailureRank[call[i].state]
    IN IF failed = {} THEN Null
       ELSE CHOOSE i \in failed : \A j \in failed : rank(i) < rank(j) \/ (rank(i) = rank(j) /\ i <= j)

\* The adapters tell a caller that a package that is not compatible is
\* unavailable.
Thrown(state) == IF state = "incompatible-package" THEN "temporary-unavailability" ELSE state

\* The annual evidence of the three calls is one.
AnnualProvenanceAgrees == \A i \in Calls : call[i].provenance = call[1].provenance

Conclude ==
    /\ market # Null /\ market.state = "pending"
    /\ LET selected == Numbers[market.context.market]
           state ==
               IF \E i \in Calls : call[i].step = "done" /\ call[i].state = "thrown" THEN "thrown"
               ELSE IF PickFailureWinner # Null THEN Thrown(call[PickFailureWinner].state)
               ELSE IF selected \notin call[1].cohort THEN "not-found"
               ELSE IF ~ AnnualProvenanceAgrees THEN "temporary-unavailability"
               ELSE "completed"
       IN /\ \/ \A i \in Calls : call[i].step = "done"
             \/ \E i \in Calls : call[i].step = "done" /\ call[i].state = "thrown"
          /\ market' = [market EXCEPT !.state = state]
    /\ UNCHANGED <<served, closed, call>>

Next ==
    \/ \E i \in Calls :
           \/ (\E r \in Requests : Ask(i, r))
           \/ Resolve(i) \/ ResolveExplorer(i) \/ Load(i) \/ LoadPrevious(i) \/ Refuse(i)
    \/ \E c \in Contexts : AskMarket(c)
    \/ Conclude
    \/ Close

Spec == Init /\ [][Next]_vars
-----------------------------------------------------------------------------
IsCompleted(i) == call[i].step = "done" /\ call[i].state \in {"success", "empty"}

\* A completed call used the evidence that its own build pins for its recipe,
\* as its package identifies it, and was compared with nothing but the previous
\* artifact of that build: a historical build never inherits the comparison of
\* the current one.
AnswersComeFromThePins ==
    \A i \in Calls : IsCompleted(i) =>
        LET c == call[i]
            binding == BindingFor(c.request)
        IN /\ binding # Null /\ binding.reason = "compatible" /\ binding.package.id = c.package
           /\ c.evidence = Sources[binding.source].sha
           /\ c.compared \notin {Null, "unrecomputed", "empty"} =>
                  /\ c.request.recipe = "candidate-market"
                  /\ \E s \in {served[c.request.build].previous} : s # Null /\ c.compared = Sources[s].sha

\* Two completed calls have one Analysis Identity exactly when they asked the
\* same recipe the same question, however it was written, of the same package;
\* and then they were answered from the same evidence.
IdentityIsTheQuestion ==
    \A i, j \in Calls : IsCompleted(i) /\ IsCompleted(j) =>
        LET c == call[i]
            d == call[j]
        IN /\ c.identity = d.identity <=>
                  /\ c.request.recipe = d.request.recipe /\ c.package = d.package /\ c.inputs = d.inputs
           /\ c.identity = d.identity => c.evidence = d.evidence /\ c.cohort = d.cohort

\* A market analysis is completed only from three completed analyses of one
\* evidence, of a market among the candidates; a market is not found only when
\* nothing failed; and an invalid input is reported before any other failure.
MarketAnalysisIsOfOneEvidence ==
    market # Null =>
        /\ market.state = "completed" =>
               /\ \A i \in Calls : IsCompleted(i) /\ call[i].evidence = call[1].evidence
               /\ Numbers[market.context.market] \in call[1].cohort
        /\ market.state = "not-found" => \A i \in Calls : IsCompleted(i)
        /\ (market.state \notin {"pending", "invalid-input", "thrown"}) =>
               \A i \in Calls : call[i].state # "invalid-input"
=============================================================================
