---------------------------- MODULE TradeEvidence ----------------------------
(***************************************************************************)
(* The evidence source of one analysis artifact (duckdb-trade-evidence-    *)
(* source.ts): the recipes' questions, asked concurrently, over tables     *)
(* that never change.  The tables derive from the bilateral flows the way  *)
(* the artifact is built (ArtifactBuild): market_year is the sum over all  *)
(* exporters, aggregates included.  Supplier questions share one read of   *)
(* the years in which each economy trades; it is kept once it succeeded.   *)
(***************************************************************************)
EXTENDS Integers, Sequences, FiniteSets, SequencesExt, FiniteSetsExt, TLC

(***************************************************************************)
(* What the recipes Trade Trend, Supplier Competition and Trade Explorer   *)
(* compute from loaded evidence (trade-trend-v1.ts, supplier-competition-  *)
(* v1.ts, trade-explorer-v1.ts).  Values are whole dollars; a percentage,  *)
(* a share or an index is an integer of 10^-Digits (the code has six       *)
(* digits), rounded where the code rounds it.                              *)
(***************************************************************************)
CONSTANTS Digits, MaxCohort, Null

RecordedPositive(value) == [state |-> "RECORDED_POSITIVE", value |-> value]
NoRecordedFlow == [state |-> "NO_RECORDED_POSITIVE_FLOW", value |-> Null]
MissingObservation == [state |-> "MISSING_OBSERVATION", value |-> Null]
IsRecorded(observation) == observation.state = "RECORDED_POSITIVE"

TenTo(digits) == 10 ^ digits
Total(s) == MapThenSumSet(LAMBDA i : s[i], DOMAIN s)

\* The division of BigInts truncates towards zero, so that a negative quotient
\* is never rounded away from it.
DivideHalfUp(numerator, denominator) ==
    IF numerator < 0 THEN -((-numerator) \div denominator)
    ELSE (2 * numerator + denominator) \div (2 * denominator)
-----------------------------------------------------------------------------
\* Trade Trend: the first and the last recorded year of the window.
Factor == 100 * TenTo(Digits)

\* last / first >= ((Factor + percentage) / Factor) ^ span, without division.
RatioAtLeast(last, first, percentage, span) ==
    Factor + percentage > 0 => last * Factor ^ span >= first * (Factor + percentage) ^ span
RatioAtLeastHalf(last, first, percentage, span) ==
    last * (2 * Factor) ^ span >= first * (2 * (Factor + percentage) + 1) ^ span

\* The compound rate: the range is doubled upwards, then halved.
Cagr(last, first, span) ==
    LET AtLeast(percentage) == RatioAtLeast(last, first, percentage, span)
        RECURSIVE Doubled(_)
        Doubled(range) == IF AtLeast(range[2]) THEN Doubled(<<range[2], 2 * range[2]>>) ELSE range
        RECURSIVE Halved(_)
        Halved(range) ==
            LET middle == range[1] + (range[2] - range[1]) \div 2
            IN  IF range[2] - range[1] <= 1 THEN range[1]
                ELSE Halved(IF AtLeast(middle) THEN <<middle, range[2]>> ELSE <<range[1], middle>>)
        lower == Halved(IF AtLeast(0) THEN Doubled(<<-Factor, Factor>>) ELSE <<-Factor, 0>>)
    IN  IF RatioAtLeastHalf(last, first, lower, span) THEN lower + 1 ELSE lower

Summary(observations) ==
    LET recorded == {year \in DOMAIN observations : IsRecorded(observations[year])}
        first == observations[Min(recorded)].value
        last == observations[Max(recorded)].value
        span == Max(recorded) - Min(recorded)
    IN  IF Cardinality(recorded) <= 1 THEN Null
        ELSE [from |-> Min(recorded), to |-> Max(recorded), change |-> last - first,
              percentage |-> 100 * DivideHalfUp((last - first) * TenTo(Digits), first),
              cagr |-> Cagr(last, first, span)]
-----------------------------------------------------------------------------
\* Supplier Competition: a supplier is pooled over the window.
PoolSupplier(supplier) ==
    LET At(state) == {year \in DOMAIN supplier.observations : supplier.observations[year].state = state}
        recorded == At("RECORDED_POSITIVE")
    IN  [economy |-> supplier.economy, recordedYears |-> recorded,
         noRecordedFlowYears |-> At("NO_RECORDED_POSITIVE_FLOW"), missingYears |-> At("MISSING_OBSERVATION"),
         value |-> MapThenSumSet(LAMBDA year : supplier.observations[year].value, recorded)]

Share(pooled, total) == DivideHalfUp(pooled.value * 100 * TenTo(Digits), total)

\* By share, then by value, then by code.
ShareBefore(a, b) ==
    \/ a.share > b.share
    \/ a.share = b.share /\ a.value > b.value
    \/ a.share = b.share /\ a.value = b.value /\ a.economy < b.economy

Herfindahl(eligible, total) ==
    IF total = 0 THEN Null
    ELSE DivideHalfUp(MapThenSumSet(LAMBDA s : s.value * s.value, eligible) * 10000 * TenTo(Digits), total * total)

SupplierWarnings(eligible, concentration, years) ==
    {w \in {"SPARSE_FINALIZED_PERIODS", "INCOMPLETE_SUPPLIER_STRUCTURE", "CONCENTRATION_UNAVAILABLE"} :
        CASE w = "SPARSE_FINALIZED_PERIODS" -> UNION {s.recordedYears : s \in eligible} # years
          [] w = "INCOMPLETE_SUPPLIER_STRUCTURE" -> \E s \in eligible : s.missingYears # {}
          [] OTHER -> concentration = Null}

\* Every supplier of the window has a provisional row; those that are new in
\* the provisional year follow.
ProvisionalRow(economy, market, provisional) ==
    LET evidence == {p \in provisional : p.economy = economy}
    IN  [economy |-> economy,
         state |-> IF market # "RECORDED" THEN "NOT_APPLICABLE"
                   ELSE IF evidence = {} THEN "NO_RECORDED_POSITIVE_FLOW" ELSE "RECORDED_POSITIVE",
         value |-> IF market # "RECORDED" \/ evidence = {} THEN Null
                   ELSE (CHOOSE p \in evidence : TRUE).value]

ProvisionalRows(eligible, market, provisional) ==
    LET economies == {s.economy : s \in eligible} \cup
                     IF market = "RECORDED" THEN {p.economy : p \in provisional} ELSE {}
        Rank(row) == CASE row.state = "RECORDED_POSITIVE" -> 0
                       [] row.state = "NO_RECORDED_POSITIVE_FLOW" -> 1 [] OTHER -> 2
        Before(a, b) ==
            IF Rank(a) # Rank(b) THEN Rank(a) < Rank(b)
            ELSE IF Rank(a) = 0 /\ a.value # b.value THEN a.value > b.value ELSE a.economy < b.economy
    IN  SetToSortSeq({ProvisionalRow(e, market, provisional) : e \in economies}, Before)

ComputeSupplierCompetition(inputs) ==
    LET eligible == {s \in {PoolSupplier(t) : t \in inputs.suppliers} : s.value > 0}
        total == MapThenSumSet(LAMBDA s : s.value, eligible)
        Shared(s) == [economy |-> s.economy, value |-> s.value, share |-> Share(s, total),
                      recordedYears |-> s.recordedYears, noRecordedFlowYears |-> s.noRecordedFlowYears,
                      missingYears |-> s.missingYears]
        concentration == Herfindahl(eligible, total)
    IN  [shares |-> SetToSortSeq({Shared(s) : s \in eligible}, ShareBefore),
         total |-> total, concentration |-> concentration,
         warnings |-> SupplierWarnings(eligible, concentration, inputs.years),
         market |-> inputs.market,
         provisional |-> ProvisionalRows(eligible, inputs.market, inputs.provisional)]
-----------------------------------------------------------------------------
\* Trade Explorer: a row for each value of the grouped dimension.
BuildRow(code, cell, measures) ==
    LET wantsValue == "TRADE_VALUE_USD" \in ToSet(measures)
        wantsCount == "RECORDED_FLOW_COUNT" \in ToSet(measures)
    IN  [code |-> code, state |-> cell.state,
         value |-> IF IsRecorded(cell) /\ wantsValue THEN cell.value ELSE Null,
         count |-> CASE ~wantsCount -> Null
                     [] IsRecorded(cell) -> 1
                     [] cell = NoRecordedFlow -> 0
                     [] OTHER -> Null]

StateRank(state) ==
    CASE state = "RECORDED_POSITIVE" -> 0 [] state = "NO_RECORDED_POSITIVE_FLOW" -> 1 [] OTHER -> 2

\* Whichever the direction, rows without the measure are last, and rows that
\* are equal in it are in order of their codes.
RowBefore(a, b, sort, dimension) ==
    LET Measure(row) == IF sort.key = "RECORDED_FLOW_COUNT" THEN row.count ELSE row.value
        Ahead(x, y) == IF sort.direction = "asc" THEN x < y ELSE x > y
    IN  IF sort.key = dimension THEN Ahead(a.code, b.code)
        ELSE IF Measure(a) # Null /\ Measure(b) # Null /\ Measure(a) # Measure(b)
             THEN Ahead(Measure(a), Measure(b))
        ELSE IF (Measure(a) = Null) # (Measure(b) = Null) THEN Measure(a) # Null
        ELSE IF Measure(a) = Null /\ a.state # b.state THEN StateRank(a.state) < StateRank(b.state)
        ELSE a.code < b.code

TotalRow(query, rows) ==
    LET countable == {i \in DOMAIN rows : rows[i].state # "MISSING_OBSERVATION"}
        recorded == {i \in countable : IsRecorded(rows[i])}
        Sum(Field(_), among) == MapThenSumSet(LAMBDA i : Field(rows[i]), {i \in among : Field(rows[i]) # Null})
    IN  IF query.dimension = "YEAR" THEN Null
        ELSE [value |-> IF "TRADE_VALUE_USD" \in ToSet(query.measures) /\ recorded # {}
                        THEN Sum(LAMBDA row : row.value, recorded) ELSE Null,
              count |-> IF "RECORDED_FLOW_COUNT" \in ToSet(query.measures) /\ countable # {}
                        THEN Sum(LAMBDA row : row.count, countable) ELSE Null,
              included |-> Cardinality(recorded), missing |-> Len(rows) - Cardinality(countable)]

ExplorerWarnings(rows) ==
    (IF rows # <<>> /\ \A i \in DOMAIN rows : ~IsRecorded(rows[i]) THEN {"SPARSE_COHORT"} ELSE {}) \cup
    (IF \E i \in DOMAIN rows : rows[i].state = "MISSING_OBSERVATION" THEN {"INCOMPLETE_COHORT"} ELSE {})

\* The codes of the grouped dimension, in the order of the request.
GroupedValues(query) ==
    CASE query.dimension = "YEAR" -> query.years
      [] query.dimension = "EXPORT_ECONOMY" -> query.exporters
      [] query.dimension = "IMPORT_ECONOMY" -> query.importers
      [] query.dimension = "HS_PRODUCT" -> query.products

ComputeTradeExplorer(query, inputs) ==
    LET grouped == GroupedValues(query)
        rows == SortSeq([i \in DOMAIN inputs.cells |-> BuildRow(grouped[i], inputs.cells[i], query.measures)],
                        LAMBDA a, b : RowBefore(a, b, query.sort, query.dimension))
    IN  IF ~inputs.enumerable
        THEN [rows |-> <<>>, total |-> Null, warnings |-> {}, empty |-> "NO_ENUMERABLE_COHORT"]
        ELSE [rows |-> rows, total |-> TotalRow(query, rows), warnings |-> ExplorerWarnings(rows), empty |-> Null]
-----------------------------------------------------------------------------
CONSTANTS
    Artifacts,      \* [flows, kind, products]
    Questions,      \* what may be asked; a recipe and its inputs
    Build,          \* the analysis build that is served
    Finalized,      \* the finalized years of the artifact
    Years,          \* the finalized window, its last years
    Provisional,    \* the provisional year
    Requests

VARIABLES
    artifact,
    closed,
    coverage,   \* of the suppliers: whether it is read, and the years by direction
    request     \* per request: Null, or its question, stage and answer

vars == <<artifact, closed, coverage, request>>
-----------------------------------------------------------------------------
\* The tables, narrowed by what a query names.
Bilateral(exporters, importers, products, years) ==
    {f \in artifact.flows : /\ f.exporter \in exporters /\ f.importer \in importers
                            /\ f.product \in products /\ f.year \in years}
Economies == DOMAIN artifact.kind
Trading == {e \in Economies : artifact.kind[e] = "ECONOMY"}
Flowing(importer, products, years) == Bilateral(Economies, {importer}, products, years)
WorldValue(importer, product, year) == MapThenSumSet(LAMBDA f : f.value, Flowing(importer, {product}, {year}))

\* market_year has a row of the importer in this year, of whatever product.
Covered(importer, year) == Flowing(importer, artifact.products, {year}) # {}
HasTradeEvidence(economy) == \E f \in artifact.flows : economy \in {f.exporter, f.importer}
-----------------------------------------------------------------------------
\* Trade Trend: a year without the product is a recorded zero if the importer
\* reported any product, and missing otherwise.
TradeTrendObservation(importer, product, year) ==
    IF ~Covered(importer, year) THEN MissingObservation
    ELSE IF Flowing(importer, {product}, {year}) = {} THEN NoRecordedFlow
    ELSE RecordedPositive(WorldValue(importer, product, year))

LoadTradeTrend(q) ==
    IF q.importer \notin Trading THEN [error |-> "unknown importer"]
    ELSE IF q.product \notin artifact.products THEN [error |-> "unknown product"]
    ELSE LET finalized == [year \in Years |-> TradeTrendObservation(q.importer, q.product, year)]
         IN  [error |-> Null, finalized |-> finalized, summary |-> Summary(finalized),
              provisional |-> TradeTrendObservation(q.importer, q.product, Provisional)]
-----------------------------------------------------------------------------
\* Supplier Competition: who exported the product to the importer within the
\* window.  A year without a flow is a recorded zero if the exporter exported
\* anything to anyone.
SupplierObservationCoverage ==
    LET years == Years \cup {Provisional}
    IN  [exporter |-> [e \in Economies |-> {f.year : f \in Bilateral({e}, Economies, artifact.products, years)}],
         importer |-> [e \in Economies |-> {f.year : f \in Bilateral(Economies, {e}, artifact.products, years)}]]

SupplierAnnualObservation(q, exporter, year) ==
    LET flows == Bilateral({exporter}, {q.importer}, {q.product}, {year})
    IN  IF flows # {} THEN RecordedPositive(Max({f.value : f \in flows}))
        ELSE IF year \in coverage.years.exporter[exporter] THEN NoRecordedFlow ELSE MissingObservation

GroupSupplierActivityRows(q) ==
    {[economy |-> e, observations |-> [year \in Years |-> SupplierAnnualObservation(q, e, year)]] :
        e \in {f.exporter : f \in Bilateral(Trading, {q.importer}, {q.product}, Years)}}

\* Whether the market is recorded says market_year, so that aggregates count.
ProvisionalMarketState(q) ==
    IF Flowing(q.importer, {q.product}, {Provisional}) # {} THEN "RECORDED"
    ELSE IF Provisional \in coverage.years.importer[q.importer] THEN "NO_RECORDED_POSITIVE_FLOW"
    ELSE "MISSING_OBSERVATION"

LoadSupplierCompetition(q) ==
    LET suppliers == GroupSupplierActivityRows(q)
        market == ProvisionalMarketState(q)
        rows == Bilateral(Trading, {q.importer}, {q.product}, {Provisional})
    IN  IF q.importer \notin Trading THEN [error |-> "unknown importer"]
        ELSE IF q.product \notin artifact.products THEN [error |-> "unknown product"]
        ELSE IF Cardinality(suppliers) > MaxCohort THEN [error |-> "cohort budget"]
        ELSE [error |-> Null] @@ ComputeSupplierCompetition(
                 [suppliers |-> suppliers, years |-> Years, market |-> market,
                  provisional |-> IF market # "RECORDED" THEN {}
                                  ELSE {[economy |-> f.exporter, value |-> f.value] : f \in rows}])
-----------------------------------------------------------------------------
\* Trade Explorer: whether a cell was observed is a matter of the importer and
\* the year, whichever dimension is grouped.
ExplorerCell(q, code) ==
    LET At(dimension, codes) == IF q.dimension = dimension THEN code ELSE codes[1]
        importer == At("IMPORT_ECONOMY", q.importers)
        year == At("YEAR", q.years)
        flows == Bilateral({At("EXPORT_ECONOMY", q.exporters)}, {importer}, {At("HS_PRODUCT", q.products)}, {year})
    IN  IF flows # {} THEN RecordedPositive(MapThenSumSet(LAMBDA f : f.value, flows))
        ELSE IF Covered(importer, year) THEN NoRecordedFlow ELSE MissingObservation

\* A fixed economy that never trades is outside of what can be enumerated.
CohortEnumerable(q) ==
    /\ q.dimension # "EXPORT_ECONOMY" => HasTradeEvidence(q.exporters[1])
    /\ q.dimension # "IMPORT_ECONOMY" => HasTradeEvidence(q.importers[1])

EconomiesResolve(codes) == ToSet(codes) \subseteq Trading
ProductsResolve(codes) == ToSet(codes) \subseteq artifact.products

LoadTradeExplorer(q) ==
    LET enumerable == CohortEnumerable(q)
        grouped == GroupedValues(q)
    IN  IF ~EconomiesResolve(q.exporters) THEN [error |-> "unknown export economy"]
        ELSE IF ~EconomiesResolve(q.importers) THEN [error |-> "unknown import economy"]
        ELSE IF ~ProductsResolve(q.products) THEN [error |-> "unknown product"]
        ELSE [error |-> Null] @@ ComputeTradeExplorer(q,
                 [enumerable |-> enumerable,
                  cells |-> IF enumerable THEN [i \in DOMAIN grouped |-> ExplorerCell(q, grouped[i])] ELSE <<>>])
-----------------------------------------------------------------------------
\* Candidate markets: every market of the product but the exporter's own, with
\* what the exporter sells there and what the others sell.
MarketYear(q, importer, year) ==
    LET own == Bilateral({q.exporter}, {importer}, {q.product}, {year})
        others == Flowing(importer, {q.product}, {year}) \ own
    IN  [year |-> year, market |-> importer, world |-> WorldValue(importer, q.product, year),
         selected |-> IF own = {} THEN Null ELSE MapThenSumSet(LAMBDA f : f.value, own),
         suppliers |-> Cardinality(others), others |-> MapThenSumSet(LAMBDA f : f.value, others),
         squares |-> MapThenSumSet(LAMBDA f : f.value * f.value, others)]

MarketYears(q, years) ==
    {MarketYear(q, p[1], p[2]) :
        p \in {pair \in (Trading \ {q.exporter}) \X years : Flowing(pair[1], {q.product}, {pair[2]}) # {}}}

LoadCandidateMarkets(q) ==
    IF q.exporter \notin Trading THEN [error |-> "unknown exporter"]
    ELSE IF q.product \notin artifact.products THEN [error |-> "unknown product"]
    ELSE [error |-> Null, markets |-> MarketYears(q, Finalized), provisional |-> MarketYears(q, {Provisional}),
          totals |-> [year \in {f.year : f \in Bilateral(Economies, Economies, {q.product}, Finalized)} |->
                         MapThenSumSet(LAMBDA f : f.value, Bilateral(Economies, Economies, {q.product}, {year}))]]

Load(q) ==
    CASE q.recipe = "trade-trend" -> LoadTradeTrend(q)
      [] q.recipe = "supplier-competition" -> LoadSupplierCompetition(q)
      [] q.recipe = "trade-explorer" -> LoadTradeExplorer(q)
      [] q.recipe = "candidate-market" -> LoadCandidateMarkets(q)
-----------------------------------------------------------------------------
NoCoverage == [loading |-> FALSE, years |-> Null]

Init ==
    /\ artifact \in Artifacts /\ closed = FALSE /\ coverage = NoCoverage
    /\ request = [r \in Requests |-> Null]

Answered(r, answer) == request' = [request EXCEPT ![r].stage = "answered", ![r].answer = answer]

\* A question is refused at once, waits for the shared coverage, or reads.
Ask(r, q) ==
    LET Begins(stage, answer) ==
            request' = [request EXCEPT ![r] = [question |-> q, stage |-> stage, answer |-> answer]]
    IN  /\ request[r] = Null
        /\ \/ closed /\ Begins("answered", [error |-> "closed"]) /\ UNCHANGED coverage
           \/ ~closed /\ q.build # Build /\ Begins("answered", [error |-> "retired"]) /\ UNCHANGED coverage
           \/ /\ ~closed /\ q.build = Build /\ q.recipe = "supplier-competition" /\ coverage.years = Null
              /\ Begins("coverage", Null) /\ coverage' = [coverage EXCEPT !.loading = TRUE]
           \/ /\ ~closed /\ q.build = Build
              /\ q.recipe = "supplier-competition" => coverage.years # Null
              /\ Begins("reading", Null) /\ UNCHANGED coverage
        /\ UNCHANGED <<artifact, closed>>

\* The shared read answers everyone who waits for it; a failure is forgotten.
CoverageLoads ==
    /\ coverage.loading
    /\ coverage' = [loading |-> FALSE, years |-> SupplierObservationCoverage]
    /\ request' = [r \in Requests |->
          IF request[r] # Null /\ request[r].stage = "coverage" THEN [request[r] EXCEPT !.stage = "reading"]
          ELSE request[r]]
    /\ UNCHANGED <<artifact, closed>>

CoverageFails ==
    /\ coverage.loading
    /\ coverage' = NoCoverage
    /\ request' = [r \in Requests |->
          IF request[r] # Null /\ request[r].stage = "coverage"
          THEN [request[r] EXCEPT !.stage = "answered", !.answer = [error |-> "failed"]] ELSE request[r]]
    /\ UNCHANGED <<artifact, closed>>

Read(r) ==
    /\ request[r] # Null /\ request[r].stage = "reading"
    /\ Answered(r, Load(request[r].question))
    /\ UNCHANGED <<artifact, closed, coverage>>

\* The caller leaves, or the connection fails; the shared read goes on.
Leave(r) ==
    /\ request[r] # Null /\ request[r].stage \in {"coverage", "reading"}
    /\ Answered(r, [error |-> "failed"])
    /\ UNCHANGED <<artifact, closed, coverage>>

Close == ~closed /\ closed' = TRUE /\ UNCHANGED <<artifact, coverage, request>>

Next ==
    \/ \E r \in Requests : \E q \in Questions : Ask(r, q)
    \/ \E r \in Requests : Read(r) \/ Leave(r)
    \/ CoverageLoads \/ CoverageFails \/ Close
-----------------------------------------------------------------------------
\* What was answered to the questions of a recipe.
Answers(recipe) ==
    {[q |-> request[r].question, a |-> request[r].answer] :
        r \in {s \in Requests : /\ request[s] # Null /\ request[s].stage = "answered"
                               /\ request[s].question.recipe = recipe /\ request[s].answer.error = Null}}

\* The flow that a row of the explorer is about.
CellOf(q, code) ==
    LET At(dimension, codes) == IF q.dimension = dimension THEN code ELSE codes[1]
    IN  [exporter |-> At("EXPORT_ECONOMY", q.exporters), importer |-> At("IMPORT_ECONOMY", q.importers),
         product |-> At("HS_PRODUCT", q.products), year |-> At("YEAR", q.years)]

\* Two recipes that are asked about the same market and year agree whether it
\* was observed and recorded, and no part of it exceeds the whole.
TrendAgreesWithExplorer ==
    \A t \in Answers("trade-trend"), x \in Answers("trade-explorer") : \A i \in DOMAIN x.a.rows :
        LET row == x.a.rows[i]
            cell == CellOf(x.q, row.code)
            whole == t.a.finalized[cell.year]
        IN  cell.importer = t.q.importer /\ cell.product = t.q.product =>
                /\ row.state = "MISSING_OBSERVATION" <=> whole = MissingObservation
                /\ IsRecorded(row) => IsRecorded(whole) /\ (row.value # Null => row.value <= whole.value)

SuppliersAgreeWithTrend ==
    \A t \in Answers("trade-trend"), s \in Answers("supplier-competition") :
        t.q.importer = s.q.importer /\ t.q.product = s.q.product =>
            LET recorded == {year \in Years : IsRecorded(t.a.finalized[year])}
                whole == MapThenSumSet(LAMBDA year : t.a.finalized[year].value, recorded)
                aggregated == Bilateral(Economies \ Trading, {t.q.importer}, {t.q.product}, Years)
            IN  /\ s.a.market = "RECORDED" <=> IsRecorded(t.a.provisional)
                /\ s.a.market = "MISSING_OBSERVATION" <=> t.a.provisional = MissingObservation
                /\ \A i \in DOMAIN s.a.shares : s.a.shares[i].recordedYears \subseteq recorded
                /\ s.a.total <= whole /\ (aggregated = {} => s.a.total = whole)

SuppliersAgreeWithExplorer ==
    \A s \in Answers("supplier-competition"), x \in Answers("trade-explorer") : \A i \in DOMAIN x.a.rows :
        LET cell == CellOf(x.q, x.a.rows[i].code)
        IN  cell.importer = s.q.importer /\ cell.product = s.q.product =>
                (IsRecorded(x.a.rows[i]) <=> \E j \in DOMAIN s.a.shares : /\ s.a.shares[j].economy = cell.exporter
                                                                      /\ cell.year \in s.a.shares[j].recordedYears)

CandidatesAgree ==
    \A c \in Answers("candidate-market") : \A m \in c.a.markets :
        /\ \A t \in Answers("trade-trend") :
               t.q.importer = m.market /\ t.q.product = c.q.product /\ m.year \in Years =>
                   t.a.finalized[m.year] = RecordedPositive(m.world)
        /\ \A x \in Answers("trade-explorer") : \A i \in DOMAIN x.a.rows :
               LET row == x.a.rows[i]
               IN  CellOf(x.q, row.code) = [exporter |-> c.q.exporter, importer |-> m.market,
                                            product |-> c.q.product, year |-> m.year] =>
                       /\ IsRecorded(row) <=> m.selected # Null
                       /\ row.value # Null => row.value = m.selected

\* The rates of a trend are the nearest that their digits can say.  The change
\* of a decline is truncated instead, so that only growth is held to it.
RatesAreNearest ==
    \A t \in Answers("trade-trend") :
        LET s == t.a.summary
            first == t.a.finalized[s.from].value
            last == t.a.finalized[s.to].value
        IN  s # Null =>
                /\ RatioAtLeastHalf(last, first, s.cagr - 1, s.to - s.from)
                /\ ~RatioAtLeastHalf(last, first, s.cagr, s.to - s.from)
                /\ last >= first /\ s.to = s.from + 1 => s.percentage - s.cagr \in -50..50

\* The shares add up to the whole but for their rounding, the largest is first,
\* and the index is between that of equal suppliers and that of one.
SharesAreSound ==
    \A s \in Answers("supplier-competition") :
        LET n == Len(s.a.shares)
        IN  /\ n > 0 => /\ 2 * (Total([i \in 1..n |-> s.a.shares[i].share]) - 100 * TenTo(Digits)) \in -n..n
                        /\ n * (s.a.concentration + 1) >= 10000 * TenTo(Digits)
                        /\ s.a.concentration <= 10000 * TenTo(Digits)
            /\ \A i, j \in 1..n : i < j => s.a.shares[i].value >= s.a.shares[j].value
            /\ \A i \in 1..n : \E j \in DOMAIN s.a.provisional : s.a.provisional[j].economy = s.a.shares[i].economy

\* However an explorer's rows are ordered, each of its codes has one, and the
\* total is of the recorded ones.
RowsAreTheCohort ==
    \A x \in Answers("trade-explorer") :
        LET codes == [i \in DOMAIN x.a.rows |-> x.a.rows[i].code]
            values == {i \in DOMAIN x.a.rows : x.a.rows[i].value # Null}
        IN  x.a.empty = Null =>
                /\ IsInjective(codes) /\ ToSet(codes) = ToSet(GroupedValues(x.q))
                /\ x.a.total # Null /\ x.a.total.value # Null =>
                       x.a.total.value = MapThenSumSet(LAMBDA i : x.a.rows[i].value, values)

RecipesAgree ==
    /\ TrendAgreesWithExplorer /\ SuppliersAgreeWithTrend /\ SuppliersAgreeWithExplorer /\ CandidatesAgree
    /\ RatesAreNearest /\ SharesAreSound /\ RowsAreTheCohort

\* A request waits for the shared coverage only while it is being read.
NobodyWaitsForNothing ==
    \A r \in Requests : request[r] # Null /\ request[r].stage = "coverage" => coverage.loading
=============================================================================
