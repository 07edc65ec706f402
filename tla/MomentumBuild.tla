---------------------------- MODULE MomentumBuild ----------------------------
(***************************************************************************)
(* buildRecentTradeMomentumPackage (recent-trade-momentum-package.ts): one *)
(* source vintage after the other is staged, aggregated by market and      *)
(* month, turned into momentum rows, compared with the package before it   *)
(* and published as a directory named after the manifest's digest.         *)
(*                                                                         *)
(* A vintage is a record: id, reporters (source codes), partners (a kind   *)
(* for each), products, complete (months), evidence, and rows, a sequence  *)
(* of [month, reporter, partner, edition, code, special, value, update].   *)
(* A manifest stands for its digest.  The process may stop between any two *)
(* file operations; there is one run at a time.                            *)
(***************************************************************************)
EXTENDS RecipeArithmetic

CONSTANTS Vintages, FirstEdition, MaxRuns, Null

VARIABLES
    vintage,    \* of the run, or Null
    previous,   \* the package given to the run, or Null
    package,    \* the package the run has computed, or Null
    accepted,   \* the published packages
    report,     \* the build report, or Null
    step,       \* where the run is
    runs
vars == <<vintage, previous, package, accepted, report, step, runs>>
-----------------------------------------------------------------------------
SourceRevisionKey(row) == <<row.month, row.reporter, row.partner, row.edition, row.code, row.special>>

\* The mapping of a row's code in its edition: none, or one.
MappingOf(mappings, row) ==
    IF row.edition \in DOMAIN mappings THEN {r \in mappings[row.edition].rows : r.code = row.code} ELSE {}

ProductOf(mappings, row) ==
    LET targets == UNION {r.targets : r \in MappingOf(mappings, row)}
    IN  IF Cardinality(targets) = 1 THEN CHOOSE p \in targets : TRUE ELSE Null

EligibleForAggregation(v, mappings, row) ==
    /\ row.reporter \in v.reporters
    /\ row.partner \in DOMAIN v.partners /\ v.partners[row.partner] = "INDIVIDUAL"
    /\ row.special = "NONE"
    /\ \E r \in MappingOf(mappings, row) : Accepted(r)
    /\ \E p \in mappings[row.edition].products : p.product = ProductOf(mappings, row) /\ p.exact

StageSourceRows(v, mappings) ==
    {[row |-> row, product |-> ProductOf(mappings, row),
      eligible |-> EligibleForAggregation(v, mappings, row)] : row \in Range(v.rows)}

Sum(rows) == MapThenSumSet(LAMBDA row : row.value, rows)

\* The eligible rows of one market, product and month.
Bucket(staged, month, reporter, product) ==
    {s.row : s \in {s \in staged : s.eligible /\ s.row.month = month
                                    /\ s.row.reporter = reporter /\ s.product = product}}

\* The code examines editions from FirstEdition on.
EditionsForHistory(months) == {year \in {Year(m) : m \in months} : year >= FirstEdition}

MappingChain(mappings, row) ==
    IF \E r \in MappingOf(mappings, row) : r.chain = "MULTI_STEP_EXACT" THEN "MULTI_STEP_EXACT" ELSE "DIRECT_EXACT"

MarketMonth(v, mappings, bucket, product) ==
    [state |-> IF ~ExactAcrossEditions(mappings, product, EditionsForHistory(v.complete))
               THEN "UNSUPPORTED_PRODUCT_MAPPING"
               ELSE IF bucket = {} THEN "NOT_OBSERVED"
               ELSE IF Sum(bucket) > 0 THEN "RECORDED_POSITIVE" ELSE "RECORDED_ZERO",
     value |-> Sum(bucket),
     update |-> IF \E row \in bucket : row.update = "PRELIMINARY" THEN "PRELIMINARY"
                                                                  ELSE "FINAL_BY_SOURCE_SCHEDULE",
     chain |-> IF \E row \in bucket : MappingChain(mappings, row) = "MULTI_STEP_EXACT"
               THEN "MULTI_STEP_EXACT" ELSE "DIRECT_EXACT"]

\* The complete months of each market and product.
AggregateMarketMonths(v, mappings, staged) ==
    [market \in v.reporters \X v.products |->
        [month \in v.complete |->
            MarketMonth(v, mappings, Bucket(staged, month, market[1], market[2]), market[2])]]

BuildMomentumRows(v, mappings, marketMonths) ==
    [market \in DOMAIN marketMonths |->
        ComputeRecentTradeMomentumV1(Max(v.complete), "SUPPORTED",
            ExactAcrossEditions(mappings, market[2], EditionsForHistory(v.complete)),
            v.complete, marketMonths[market], FALSE)]

\* Values of the source rows by what became of them, and of the aggregate.
ReconcileValues(v, staged, marketMonths) ==
    LET others == {s.row : s \in {s \in staged : ~s.eligible}}
        world == {row \in others : row.special = "WORLD_TOTAL"}
        confidential(row) == row.partner \in DOMAIN v.partners /\ v.partners[row.partner] = "CONFIDENTIAL"
    IN  [source |-> Sum({s.row : s \in {s \in staged : s.eligible}}),
         aggregate |-> MapThenSumSet(LAMBDA market : Total(marketMonths[market], v.complete), DOMAIN marketMonths),
         special |-> Sum({row \in others \ world : row.special # "NONE" \/ confidential(row)}),
         world |-> Sum(world)]

Abs(n) == IF n < 0 THEN -n ELSE n

\* The differences between the rows of a package and those of the one before.
BuildRevisionReport(rows, momentum, before) ==
    LET keys == {SourceRevisionKey(row) : row \in rows}
        was == IF before = Null THEN rows ELSE before.rows
        former(row) == CHOOSE r \in was : SourceRevisionKey(r) = SourceRevisionKey(row)
        kept == {row \in rows : SourceRevisionKey(row) \in {SourceRevisionKey(r) : r \in was}}
        inserted == rows \ kept
        deleted == {r \in was : SourceRevisionKey(r) \notin keys}
        revalued == {row \in kept : row.value # former(row).value}
        restated == {row \in kept : row.update # former(row).update}
        markets == IF before = Null THEN {} ELSE DOMAIN momentum \cap DOMAIN before.momentum
    IN  [inserted |-> Cardinality(inserted), deleted |-> Cardinality(deleted),
         valueChanged |-> Cardinality(revalued), stateChanged |-> Cardinality(restated),
         unchanged |-> Cardinality(kept \ (revalued \cup restated)),
         delta |-> Sum(inserted) + Sum(deleted)
                   + MapThenSumSet(LAMBDA row : Abs(row.value - former(row).value), revalued),
         affected |-> {row.month : row \in inserted \cup deleted \cup revalued \cup restated},
         momentumValueChanged |-> Cardinality({market \in markets :
             \/ momentum[market].recent # before.momentum[market].recent
             \/ momentum[market].baseline # before.momentum[market].baseline
             \/ momentum[market].growth # before.momentum[market].growth}),
         momentumStateChanged |-> Cardinality({market \in markets :
             \/ momentum[market].coverage # before.momentum[market].coverage
             \/ momentum[market].signal # before.momentum[market].signal}),
         events |-> (IF revalued # {} THEN {"REVISION_UPDATE"} ELSE {})
                    \cup (IF deleted # {} THEN {"REVISION_RETRACTION"} ELSE {})
                    \cup (IF inserted # {} THEN {"REVISION_REINSTATEMENT"} ELSE {})]

PackageOf(v, before) ==
    LET mappings == BuildCnToHs12MappingReport(v.evidence)
        staged == StageSourceRows(v, mappings)
        marketMonths == AggregateMarketMonths(v, mappings, staged)
        momentum == BuildMomentumRows(v, mappings, marketMonths)
        rows == Range(v.rows)
    IN  [id |-> v.id, of |-> [v EXCEPT !.rows = <<>>], rows |-> rows, momentum |-> momentum,
         reconciliation |-> ReconcileValues(v, staged, marketMonths),
         revision |-> BuildRevisionReport(rows, momentum, before), before |-> before]

\* The manifest names its vintage, what it supersedes and, through digests, the
\* artifact and the reports.
MonthlyManifest(p) ==
    [id |-> p.id, momentum |-> p.momentum, revision |-> p.revision,
     supersedes |-> IF p.before = Null THEN Null ELSE p.before.id]
-----------------------------------------------------------------------------
Init ==
    /\ vintage = Null /\ previous = Null /\ package = Null /\ accepted = {}
    /\ report = Null /\ step = "idle" /\ runs = 0

Idle == vintage' = Null /\ previous' = Null /\ package' = Null /\ step' = "idle"

\* A run begins by removing what a run before it left in .partial.
Start(v) ==
    /\ step = "idle" /\ runs < MaxRuns
    /\ \E before \in {Null} \cup accepted :
        previous' = IF before = Null THEN Null
                    ELSE [id |-> before.id, rows |-> before.rows, momentum |-> before.momentum]
    /\ vintage' = v /\ step' = "building" /\ runs' = runs + 1
    /\ UNCHANGED <<package, accepted, report>>

\* Editions are sound, no two rows have one key, and there is a cutoff month.
Valid(v) ==
    /\ \A year \in DOMAIN v.evidence : ValidateEdition(v.evidence[year])
    /\ Cardinality({SourceRevisionKey(row) : row \in Range(v.rows)}) = Len(v.rows)
    /\ v.complete # {}

Refuse ==
    /\ step = "building" /\ ~Valid(vintage)
    /\ Idle /\ UNCHANGED <<accepted, report, runs>>

\* Everything is written to .partial.
Build ==
    /\ step = "building" /\ Valid(vintage)
    /\ package' = PackageOf(vintage, previous)
    /\ step' = "built"
    /\ UNCHANGED <<vintage, previous, accepted, report, runs>>

\* A directory with the same name is removed first.
RemoveAccepted ==
    /\ step = "built"
    /\ accepted' = {p \in accepted : MonthlyManifest(p) # MonthlyManifest(package)}
    /\ step' = "removed"
    /\ UNCHANGED <<vintage, previous, package, report, runs>>

\* .partial is renamed.
Publish ==
    /\ step = "removed"
    /\ accepted' = accepted \cup {package}
    /\ step' = "published"
    /\ UNCHANGED <<vintage, previous, package, report, runs>>

\* The report is "accepted" whether or not the values reconcile.
WriteReport ==
    /\ step = "published"
    /\ report' = [id |-> vintage.id, status |-> "accepted", revision |-> package.revision,
                  reconciled |-> package.reconciliation.source = package.reconciliation.aggregate]
    /\ Idle /\ UNCHANGED <<accepted, runs>>

Crash ==
    /\ step # "idle"
    /\ Idle /\ UNCHANGED <<accepted, report, runs>>

Next ==
    \/ \E v \in Vintages : Start(v)
    \/ Refuse \/ Build \/ RemoveAccepted \/ Publish \/ WriteReport \/ Crash
-----------------------------------------------------------------------------
Rank(signal) ==
    CASE signal = "FALLING_FAST" -> 1 [] signal = "FALLING" -> 2 [] signal = "BROADLY_STABLE" -> 3
      [] signal = "RISING" -> 4 [] signal = "RISING_FAST" -> 5

\* The revision report accounts for the whole difference between a package and
\* the one it supersedes: rows, and the change of the total value.
RevisionAccountsForTheChange ==
    \A p \in accepted : p.before # Null =>
        /\ Cardinality(p.rows) = Cardinality(p.before.rows) + p.revision.inserted - p.revision.deleted
        /\ Abs(Sum(p.rows) - Sum(p.before.rows)) <= p.revision.delta
        /\ p.revision.delta = 0 /\ p.revision.stateChanged = 0 => p.revision.unchanged = Cardinality(p.rows)

\* Trade with partners that are not identified, totals and special codes reach
\* neither the aggregate nor the momentum: two vintages that differ in nothing
\* else have the same momentum.
OnlyIdentifiedTradeCounts ==
    LET identified(p) == {row \in p.rows : row.special = "NONE" /\ row.partner \in DOMAIN p.of.partners
                                             /\ p.of.partners[row.partner] = "INDIVIDUAL"}
    IN  /\ \A p \in accepted : p.reconciliation.aggregate <= p.reconciliation.source
        /\ \A p, q \in accepted :
                [p.of EXCEPT !.id = q.id] = q.of /\ identified(p) = identified(q) => p.momentum = q.momentum

\* Momentum is comparable: of two packages the one with the stronger signal
\* displays a growth that is at least as large.
SignalsFollowGrowth ==
    \A p, q \in accepted : \A m \in DOMAIN p.momentum \cap DOMAIN q.momentum :
        LET a == p.momentum[m]
            b == q.momentum[m]
        IN  a.signal # "none" /\ b.signal # "none" /\ Rank(a.signal) < Rank(b.signal) => a.growth <= b.growth

MomentumIsSound ==
    RevisionAccountsForTheChange /\ OnlyIdentifiedTradeCounts /\ SignalsFollowGrowth
=============================================================================
