-------------------------- MODULE RetainedPairings ---------------------------
(***************************************************************************)
(* Promotion and rollback of deployment pairings (ReleasePublisher) and the *)
(* runtime that opens the window they leave (VerifiedReleaseRuntime): which *)
(* analysis build a pairing gets, which packages it recommends, and which   *)
(* packages the platform then answers the requests of a build with.         *)
(*                                                                         *)
(* A publisher validates its candidate against the pointer it has read,     *)
(* publishes, opens the new pairing alone as a runtime would, and activates *)
(* it by compare-and-swap.  The runtime later opens the whole window.       *)
(***************************************************************************)
EXTENDS Integers, DistinctSequences

(***************************************************************************)
(* Dataset Packages and the Recommended Dataset Mapping: what a recipe      *)
(* requires of the evidence of an artifact, what a package says of it, and  *)
(* which packages a deployment pairing recommends.  An identity is a digest *)
(* of the content, so it is modelled by the content itself.                 *)
(***************************************************************************)
CONSTANTS
    Null,
    Requirements,   \* per recipe, its required capabilities in order
    Analysis,       \* analysis artifacts by name: their manifests
    Product,        \* product catalogs by name
    Opportunity     \* Opportunity Indexes by name

\* The recipes whose package is declared by the analysis artifact itself.
Annual == {"trade-trend", "supplier-competition", "trade-explorer"}

\* The first requirement that a set of capabilities does not meet decides.
Evaluate(capabilities, recipe) ==
    LET unmet == SelectSeq(Requirements[recipe], LAMBDA r : r \notin capabilities)
    IN CASE unmet = <<>> -> "compatible"
         [] unmet # <<>> /\ (\E c \in capabilities : c.id = Head(unmet).id) -> "CAPABILITY_VERSION_MISMATCH"
         [] OTHER -> "MISSING_REQUIRED_CAPABILITY"

UniqueIds(capabilities) ==
    \A c, d \in capabilities : c.id = d.id => c = d

\* A legacy artifact embeds one annual check per ingested year, in order.
EmbeddedChecks(m) ==
    /\ Len(m.checks) = Cardinality(m.ingested)
    /\ \A i \in DOMAIN m.checks :
           /\ m.checks[i].year = CHOOSE y \in m.ingested : Cardinality({z \in m.ingested : z < y}) = i - 1
           /\ m.checks[i].present + m.checks[i].absent = m.checks[i].rows

\* A manifest declares the candidate-market treatment together with its source
\* report, or neither: then it is a legacy one.
Declares(m) == m.declaration # Null

IsArtifactManifest(m) ==
    /\ m.window.start <= m.window.end
    /\ m.window.end = m.cutoff
    /\ m.cutoff \in m.finalized /\ \A y \in m.finalized : y <= m.cutoff
    /\ m.finalized \subseteq m.ingested
    /\ m.window.start .. m.window.end \subseteq m.finalized
    /\ m.provisional = {CHOOSE y \in m.ingested : \A z \in m.ingested : z <= y}
    /\ m.provisional \cap m.finalized = {}
    /\ (m.report # Null) <=> Declares(m)
    /\ ~ Declares(m) => EmbeddedChecks(m)
    /\ Declares(m) => UniqueIds(m.declaration.capabilities)
    /\ \A r \in Annual : m.declared[r] # Null => UniqueIds(m.declared[r])

\* What a manifest without a declaration is taken to declare.
DefaultDeclaration ==
    [finalized |-> "SCORE_INPUT", provisional |-> "SUPPORTING_EVIDENCE_ONLY", missing |-> "PRESERVE_MISSINGNESS",
     capabilities |-> Range(Requirements["candidate-market"])]

\* What the candidate-market package says of one artifact.
Evidence(m) ==
    [release |-> m.release, source |-> m.source, artifact |-> m.artifact,
     declaration |-> IF Declares(m) THEN m.declaration ELSE DefaultDeclaration,
     ingested |-> m.ingested, finalized |-> m.finalized, cutoff |-> m.cutoff, window |-> m.window,
     provisional |-> m.provisional, approval |-> m.approval,
     reconciliation |-> IF Declares(m) THEN <<"SOURCE_REPORT", m.report>>
                                       ELSE <<"EMBEDDED_ANNUAL_SOURCE_CHECKS", m.checks>>]

\* The scores take a window of five years and their stability one of ten.
EvaluateEvidence(e) ==
    IF /\ e.declaration.finalized = "SCORE_INPUT"
       /\ e.declaration.provisional = "SUPPORTING_EVIDENCE_ONLY"
       /\ e.declaration.missing = "PRESERVE_MISSINGNESS"
       /\ e.window.end - e.window.start = 4
       /\ e.window.start .. e.window.end \subseteq e.finalized
       /\ \E y \in e.finalized : y <= e.cutoff - 9
    THEN Evaluate(e.declaration.capabilities, "candidate-market")
    ELSE "PACKAGE_IDENTITY_MISMATCH"

\* The candidate-market package of a pairing: its artifact, its release catalog
\* and, when there is a previous artifact, what it is compared with.
CandidatePackage(analysis, previous) ==
    [recipe |-> "candidate-market", catalog |-> <<analysis, previous>>, evidence |-> Evidence(Analysis[analysis]),
     comparison |-> IF previous = Null THEN Null ELSE Evidence(Analysis[previous])]

CandidateCompatibility(package) ==
    LET own == EvaluateEvidence(package.evidence)
    IN IF own # "compatible" \/ package.comparison = Null THEN own
       ELSE EvaluateEvidence(package.comparison)

\* The package of a recipe the artifact declares for itself.
AnnualPackage(recipe, analysis) ==
    LET m == Analysis[analysis]
    IN [recipe |-> recipe, release |-> m.release, evidence |-> m.artifact,
        cutoff |-> IF recipe = "trade-explorer" THEN m.cutoff ELSE Null,
        capabilities |-> IF m.declared[recipe] = Null THEN {} ELSE m.declared[recipe]]

\* The package of an Opportunity Index: its evidence is the index object.
OpportunityPackage(index) ==
    [recipe |-> "opportunity-discovery", release |-> Opportunity[index].release, evidence |-> Opportunity[index].object,
     capabilities |-> Opportunity[index].capabilities]

Compatible(package) == Evaluate(package.capabilities, package.recipe) = "compatible"

-----------------------------------------------------------------------------
\* The mapping of a pairing: the packages it recommends and the catalogs its
\* codes are of.  An annual recipe is recommended when its package is
\* compatible and is of the very artifact of the economy catalog.
Mapping(analysis, previous, product, index) ==
    [package |-> CandidatePackage(analysis, previous),
     annual |-> [r \in Annual |-> IF Compatible(AnnualPackage(r, analysis)) THEN Analysis[analysis].artifact ELSE Null],
     momentum |-> Null,
     opportunity |-> IF index = Null THEN Null
                     ELSE [package |-> OpportunityPackage(index), object |-> Opportunity[index].object],
     product |-> product, economy |-> <<analysis, previous>>, artifact |-> Analysis[analysis].artifact]

\* A legacy artifact recommends its candidate-market package alone.
LegacyMapping(analysis, previous, product) ==
    [Mapping(analysis, previous, product, Null) EXCEPT !.annual = [r \in Annual |-> Null]]

\* A mapping names the catalogs of its pairing and the candidate-market package
\* of its artifact, which must be compatible.
SamePins(mapping, pairing) ==
    /\ mapping.package = CandidatePackage(pairing.analysis, pairing.previous)
    /\ mapping.economy = <<pairing.analysis, pairing.previous>> /\ mapping.product = pairing.product
    /\ mapping.artifact = Analysis[pairing.analysis].artifact
    /\ CandidateCompatibility(mapping.package) = "compatible"

\* A recommended annual recipe has a compatible package of the very artifact of
\* the economy catalog.
ValidAnnual(mapping, pairing) ==
    \A r \in Annual : mapping.annual[r] # Null =>
        /\ mapping.annual[r] = AnnualPackage(r, pairing.analysis).evidence
        /\ mapping.annual[r] = mapping.artifact
        /\ Compatible(AnnualPackage(r, pairing.analysis))

\* Opportunity Discovery is recommended exactly when the pairing pins an index,
\* and then the evidence of its package is the index object.
ValidOpportunity(mapping, pairing) ==
    /\ (mapping.opportunity = Null) <=> (pairing.index = Null)
    /\ mapping.opportunity # Null =>
           /\ mapping.opportunity.package = OpportunityPackage(pairing.index)
           /\ mapping.opportunity.package.evidence = mapping.opportunity.object
           /\ Compatible(mapping.opportunity.package)

ValidMapping(mapping, pairing) ==
    SamePins(mapping, pairing) /\ ValidAnnual(mapping, pairing) /\ ValidOpportunity(mapping, pairing)
-----------------------------------------------------------------------------
CONSTANTS
    Publishers,
    Candidates,     \* candidate directories: [analysis, product, index]
    Legacy,         \* a pairing published before mappings existed, or Null
    Volume,         \* objects the declared serving volume holds
    MaxOperations

VARIABLES
    pointer,     \* [version, window]: the active pairing and its predecessors
    operation,   \* per publisher, the operation it is in
    operations,
    runtime      \* the bundles a runtime serves, or how its start ended

vars == <<pointer, operation, operations, runtime>>

HistoryLimit == 2
Idle == [step |-> "idle"]

\* A build is named after its release catalog, that is after its artifact and
\* the artifact it is compared with; a pairing after everything it holds.
Build(pairing) == <<pairing.analysis, pairing.previous>>

AcceptedAnalysis(candidate) ==
    Analysis[candidate.analysis].accepted /\ IsArtifactManifest(Analysis[candidate.analysis])
AcceptedProduct(candidate) == Product[candidate.product].accepted
AcceptedIndex(candidate) == candidate.index # Null => Opportunity[candidate.index].accepted

\* Fault: an index of the release is enough.
FitsTheRelease(candidate) ==
    LET m == Analysis[candidate.analysis]
    IN /\ Product[candidate.product].release = m.release /\ Product[candidate.product].source = m.source
       /\ candidate.index # Null => Opportunity[candidate.index].release = m.release

\* The catalog and the index are of the release, and the index of the very
\* artifact, that they are to be served with.
Fits(candidate) ==
    LET m == Analysis[candidate.analysis]
        index == Opportunity[candidate.index]
    IN /\ Product[candidate.product].release = m.release /\ Product[candidate.product].source = m.source
       /\ candidate.index # Null =>
              /\ index.release = m.release /\ index.cutoff = m.cutoff /\ index.window = m.window
              /\ index.artifact = m.artifact
              /\ Compatible(OpportunityPackage(candidate.index))

\* The objects that a window needs on the volume, each counted once; a pairing
\* needs room for its manifest and for spilling besides.
PairingObjects(pairing) ==
    {<<"artifact", pairing.analysis>>, <<"catalog", Build(pairing)>>, <<"product", pairing.product>>}
        \cup (IF pairing.previous = Null THEN {} ELSE {<<"artifact", pairing.previous>>})
        \cup (IF pairing.mapping = Null THEN {} ELSE {<<"mapping", pairing.mapping>>})
        \cup (IF pairing.index = Null THEN {} ELSE {<<"index", pairing.index>>})
FitsVolume(window) ==
    Cardinality(UNION {PairingObjects(window[i]) : i \in DOMAIN window}) + Len(window) <= Volume

\* A runtime opens a pairing with all that it pins: the manifests say the
\* production window and the release of the pairing, and the mapping is valid.
\* A pairing without a mapping must be of a legacy artifact.
ProductionWindow(m) == m.window.start = m.cutoff - 4 /\ m.window.end = m.cutoff
Opens(pairing) ==
    LET m == Analysis[pairing.analysis]
    IN /\ IsArtifactManifest(m) /\ ProductionWindow(m) /\ m.release = pairing.release
       /\ pairing.previous # Null => ProductionWindow(Analysis[pairing.previous])
       /\ Product[pairing.product].release = m.release /\ Product[pairing.product].source = m.source
       /\ pairing.mapping # Null => ValidMapping(pairing.mapping, pairing)
       /\ pairing.mapping = Null =>
              /\ ~ Declares(m) /\ m.report = Null
              /\ ValidMapping(LegacyMapping(pairing.analysis, pairing.previous, pairing.product), pairing)
Recommended(pairing) ==
    IF pairing.mapping = Null THEN LegacyMapping(pairing.analysis, pairing.previous, pairing.product)
                              ELSE pairing.mapping

\* The recipes that a pairing recommends and the package of each.
Package(pairing, recipe) ==
    LET mapping == Recommended(pairing)
    IN CASE recipe = "candidate-market" -> mapping.package
         [] recipe \in Annual -> IF mapping.annual[recipe] = Null THEN Null ELSE AnnualPackage(recipe, pairing.analysis)
         [] recipe = "opportunity-discovery" -> IF mapping.opportunity = Null THEN Null ELSE mapping.opportunity.package
Recipes == {"candidate-market", "opportunity-discovery"} \cup Annual

\* The platform keeps one package per build and recipe: the bundles enter in
\* the order of the window, the active one first, and a later one replaces.
Bound(window, build, recipe) ==
    LET declaring == {i \in DOMAIN window : Build(window[i]) = build /\ Package(window[i], recipe) # Null}
    IN IF declaring = {} THEN Null
       ELSE Package(window[CHOOSE i \in declaring : \A j \in declaring : j <= i], recipe)

\* The startup smoke asks the benchmark of each recipe that is recommended and
\* finds the pairing's own packages in a market analysis.
Smokes(window, i) ==
    LET p == window[i]
        m == Analysis[p.analysis]
        Asked(recipe) == Package(p, recipe) # Null
    IN /\ m.benchmarks["candidate-market"] = 1
       /\ \A r \in {"trade-trend", "supplier-competition"} : m.benchmarks[r] <= 1
       /\ Asked("trade-explorer") => m.benchmarks["trade-explorer"] = 1
       /\ (Asked("trade-trend") /\ Asked("supplier-competition")) =>
              \A r \in {"candidate-market", "trade-trend", "supplier-competition"} :
                  Bound(window, Build(p), r) = Package(p, r)

Served(window) == (\A i \in DOMAIN window : Opens(window[i])) /\ (\A i \in DOMAIN window : Smokes(window, i))

-----------------------------------------------------------------------------
Init ==
    /\ pointer \in {[version |-> 0, window |-> <<>>]}
                   \cup (IF Legacy = Null THEN {} ELSE {[version |-> 0, window |-> <<Legacy>>]})
    /\ operation = [p \in Publishers |-> Idle]
    /\ operations = 0
    /\ runtime = [state |-> "down", window |-> <<>>]

\* An operator starts a promotion, possibly for the deployment he last saw
\* active, or a rollback.
Begin(p, kind, candidate, expected) ==
    /\ operation[p] = Idle /\ operations < MaxOperations
    /\ operations' = operations + 1
    /\ operation' = [operation EXCEPT ![p] =
           [step |-> "begun", kind |-> kind, candidate |-> candidate, expected |-> expected,
            at |-> operations + 1]]
    /\ UNCHANGED <<pointer, runtime>>

\* The operation ends, with an error or with nothing to do, and changes nothing.
End(p) ==
    /\ operation' = [operation EXCEPT ![p] = Idle]
    /\ UNCHANGED <<pointer, operations, runtime>>

\* The analysis of the candidate is the one that is active already.
SameAnalysis(candidate, window) == window # <<>> /\ window[1].analysis = candidate.analysis

\* Nothing differs from the active deployment.
Unchanged(candidate, window) ==
    /\ SameAnalysis(candidate, window) /\ window[1].mapping # Null
    /\ window[1].product = candidate.product /\ window[1].index = candidate.index

\* The pairing of a candidate.  An analysis that is active keeps its build; a
\* new one is compared with the artifact that is active.
PairingOf(candidate, window, at) ==
    LET previous == IF SameAnalysis(candidate, window) THEN window[1].previous
                    ELSE IF window = <<>> THEN Null ELSE window[1].analysis
    IN [release |-> Analysis[candidate.analysis].release, analysis |-> candidate.analysis, previous |-> previous,
        product |-> candidate.product, index |-> candidate.index, at |-> at,
        mapping |-> Mapping(candidate.analysis, previous, candidate.product, candidate.index)]

\* A rollback publishes its target again, with the mapping it lacked.
RolledBack(target, at) ==
    [target EXCEPT !.at = at,
                   !.mapping = IF @ # Null THEN @
                               ELSE Mapping(target.analysis, target.previous, target.product, Null)]

\* The window after an activation: what was active comes next, each pairing
\* once, without the one that is activated, and only so many are kept.
NextWindow(pairing, candidates) ==
    LET others == {i \in DOMAIN candidates :
                      candidates[i] # pairing /\ \A j \in 1 .. i - 1 : candidates[j] # candidates[i]}
        kept == FirstOf(others, HistoryLimit)
    IN <<pairing>> \o [n \in DOMAIN kept |-> candidates[kept[n]]]

\* What an operation is refused for before it publishes anything.
Refused(p) ==
    LET o == operation[p]
        window == pointer.window
    IN \/ o.kind = "promote" /\ ~ (/\ AcceptedAnalysis(o.candidate)
                                  /\ AcceptedProduct(o.candidate)
                                  /\ AcceptedIndex(o.candidate)
                                  /\ Fits(o.candidate))
       \/ o.kind = "rollback" /\ Len(window) < 2
       \/ o.expected # Null /\ o.expected # (IF window = <<>> THEN 0 ELSE window[1].at)

\* promote and rollback up to the activation: the pointer is read once, and
\* the pairing must open, and smoke, alone and fit the volume with its history.
Prepare(p) ==
    LET o == operation[p]
        window == pointer.window
        pairing == IF o.kind = "promote" THEN PairingOf(o.candidate, window, o.at) ELSE RolledBack(window[2], o.at)
        next == IF o.kind = "promote" THEN NextWindow(pairing, window)
                ELSE NextWindow(pairing, <<window[1]>> \o SubSeq(window, 3, Len(window)))
    IN /\ o.step = "begun"
       /\ IF \/ Refused(p)
             \/ o.kind = "promote" /\ Unchanged(o.candidate, window)
             \/ CandidateCompatibility(Recommended(pairing).package) # "compatible"
             \/ ~ Opens(pairing)
             \/ ~ Smokes(<<pairing>>, 1)
             \/ ~ FitsVolume(next)
          THEN End(p)
          ELSE /\ operation' = [operation EXCEPT ![p] =
                      [step |-> "validated", window |-> next, version |-> pointer.version]]
               /\ UNCHANGED <<pointer, operations, runtime>>

\* The pointer moves only from the version that was read.
Activate(p) ==
    /\ operation[p].step = "validated"
    /\ IF operation[p].version = pointer.version
       THEN /\ pointer' = [version |-> pointer.version + 1, window |-> operation[p].window]
            /\ operation' = [operation EXCEPT ![p] = Idle]
            /\ UNCHANGED <<operations, runtime>>
       ELSE End(p)

\* A runtime starts on the active window, or fails with all it had opened closed.
Start ==
    /\ runtime.state = "down" /\ pointer.window # <<>>
    /\ runtime' = IF Served(pointer.window) THEN [state |-> "serving", window |-> pointer.window]
                                            ELSE [state |-> "failed", window |-> <<>>]
    /\ UNCHANGED <<pointer, operation, operations>>

Stop ==
    /\ runtime.state = "serving"
    /\ runtime' = [state |-> "down", window |-> <<>>]
    /\ UNCHANGED <<pointer, operation, operations>>

Begins(p) ==
    \/ \E c \in Candidates : Begin(p, "promote", c, Null)
    \/ \E c \in Candidates : Begin(p, "promote", c, IF pointer.window = <<>> THEN 0 ELSE pointer.window[1].at)
    \/ Begin(p, "rollback", Null, Null)

Next == (\E p \in Publishers : Begins(p) \/ Prepare(p) \/ Activate(p)) \/ Start \/ Stop

Spec == Init /\ [][Next]_vars
-----------------------------------------------------------------------------
\* Every retained pairing is of one release throughout, its index of the very
\* artifact, and the window fits the serving volume, whatever was promoted in
\* between.
WindowIsSound ==
    LET window == pointer.window
    IN /\ FitsVolume(window) /\ Len(window) <= HistoryLimit + 1
       /\ \A i \in DOMAIN window :
              /\ Product[window[i].product].release = Analysis[window[i].analysis].release
              /\ window[i].index # Null =>
                     Opportunity[window[i].index].artifact = Analysis[window[i].analysis].artifact

\* A deployment that was validated alone starts as part of any window that
\* promotions and rollbacks can leave.
WhatWasActivatedStarts == runtime.state # "failed"

\* An activation succeeds the very deployment that is active, and a new
\* analysis is compared with the one that was served before it.
ActivationsAreAChain ==
    LET old == pointer.window
        new == pointer'.window
    IN pointer' # pointer /\ old # <<>> =>
           /\ Len(new) > 1 /\ new[2] = old[1]
           /\ \/ Build(new[1]) = Build(old[1])
              \/ new[1].previous = old[1].analysis
              \/ Len(old) > 1 /\ Build(new[1]) = Build(old[2])

\* The requests of a retained build are answered with the packages its own
\* pairing recommends; for the packages of the artifact also when several
\* pairings share the build, for the index as long as none do.
BuildsAnswerWithTheirOwn ==
    \A i \in DOMAIN runtime.window : \A r \in Recipes :
        LET p == runtime.window[i]
            shared == \E j \in DOMAIN runtime.window : j # i /\ Build(runtime.window[j]) = Build(p)
        IN (r # "opportunity-discovery" \/ ~ shared) => Bound(runtime.window, Build(p), r) = Package(p, r)

\* "Nothing here is shared with another pairing's bundle": each retained build
\* is bound to its own packages.  A promotion that changes the index alone, and
\* a rollback that is promoted again, keep the analysis build, so that two
\* bundles of the window have it and the older one is bound.
BundlesShareNothing ==
    \A i \in DOMAIN runtime.window : \A r \in Recipes :
        Bound(runtime.window, Build(runtime.window[i]), r) = Package(runtime.window[i], r)
=============================================================================
