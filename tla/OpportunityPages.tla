-------------------------- MODULE OpportunityPages --------------------------
(***************************************************************************)
(* The opportunity feed as it is served: every candidate of the cohort is  *)
(* written to the index as a row of numbers (opportunity-index-row.ts),    *)
(* and pages are cut from the index by keyset, the candidates rebuilt from *)
(* their rows and the dimensions of the artifact (duckdb-opportunity-      *)
(* source.ts); the fixture cuts the same pages from the cohort in memory   *)
(* (page.ts, cursor.ts).  One candidate's evidence is read from the        *)
(* artifact.                                                               *)
(*                                                                         *)
(* An artifact is [cutoff, kind, traded, codes, totals, markets, flows,    *)
(* before]: markets and flows are rows [product, market, year, world] and  *)
(* [exporter, product, market, year, value], before the artifact of the    *)
(* release it is compared with, or Null.  Numbers of six decimals are      *)
(* stored as integers and are not told apart from them here.               *)
(***************************************************************************)
EXTENDS RecipeArithmetic

(***************************************************************************)
(* The cohort of opportunities of one exporter: opportunity-discovery-v1.ts*)
(*                                                                         *)
(* The evidence is [exporter, cutoff, products, rows, previous]: products  *)
(* is a function from codes to [world, exports], the totals by year of the *)
(* world and of the exporter; a row is one year of one market,             *)
(* [product, market, year, world, flow], flow Null if none was recorded;   *)
(* previous is the evidence of another release, or Null.  Percentiles are  *)
(* in sixtieths of a point, exact for cohorts of up to six rows, the axes  *)
(* and the priority in the parts of a point their weights make of these.   *)
(***************************************************************************)
CONSTANT Null

Sixtieth == 60          \* of a percentile
AxisPart == 1200        \* attractiveness and fit
PriorityPart == 24000
Middle == 50 * Sixtieth

Abs(n) == IF n < 0 THEN -n ELSE n
Round(value, part) == (2 * value + part) \div (2 * part)
Key(row) == <<row.product, row.market>>
ValueIn(total, year) == IF year \in DOMAIN total THEN total[year] ELSE 0
-----------------------------------------------------------------------------
\* A change is from the recorded year before, however long ago.
DiscontinuityYears(total) ==
    LET Before(y) == {x \in DOMAIN total : x < y}
    IN  FarFromTheMedian([y \in {y \in DOMAIN total : Before(y) # {}} |->
                             Log2(total[y]) - Log2(total[Max(Before(y))])])

\* An economy is not its own market, and the product must be known.  The rows
\* that a release is compared with are not asked whose market they are.
BuildRows(evidence) == {r \in evidence.rows : r.product \in DOMAIN evidence.products /\ r.market # evidence.exporter}
BuildRowsForComparison(evidence) == {r \in evidence.rows : r.product \in DOMAIN evidence.products}

WindowRow(key, rows, total, window) ==
    LET world == SumOver(rows, LAMBDA r : r.world)
        flow == SumOver({r \in rows : r.flow # Null}, LAMBDA r : r.flow)
        exports == SumOver(Years(window), LAMBDA y : ValueIn(total.exports, y))
        all == SumOver(Years(window), LAMBDA y : ValueIn(total.world, y))
        size == Mean(world, Cardinality(rows))
        reasons == (IF Cardinality(rows) < 3 THEN {"TOO_FEW_OBSERVED_YEARS"} ELSE {})
                   \cup (IF size.at < SmallBase * Unit THEN {"SMALL_MARKET_BASE"} ELSE {})
    IN  [product |-> key[1], market |-> key[2],
         observed |-> {r.year : r \in rows},
         size |-> size,
         growth |-> IF reasons = {} THEN LogLinearGrowth(rows) ELSE Null,
         growthReasons |-> reasons,
         presence |-> IF all > 0 THEN [at |-> Min({exports, all}), of |-> all] ELSE [at |-> 0, of |-> 1],
         noExport |-> exports = 0,
         foothold |-> [at |-> Min({flow, world}), of |-> world],
         flow |-> IF flow > 0 THEN "RECORDED" ELSE "NO_RECORDED_POSITIVE_FLOW",
         discontinuity |-> DiscontinuityYears(total.world)]

\* The middle of the row's place among the rows with a value; equal values share it.
Midrank(rows, key, row) ==
    LET known == {r \in rows : r[key] # Null}
        below == {r \in known : Lower(r[key], row[key])}
        above == {r \in known : Lower(row[key], r[key])}
    IN  IF row[key] = Null THEN Middle
        ELSE (Middle * (Cardinality(known) + Cardinality(below) - Cardinality(above))) \div Cardinality(known)

Components == {"size", "growth", "presence", "foothold"}

\* The axes are 65 % size and 35 % growth, 60 % presence and 40 % foothold; the
\* priority is 55 % attractiveness and 45 % fit.
Axes(percentile) ==
    LET attractiveness == 13 * percentile.size + 7 * percentile.growth
        fit == 12 * percentile.presence + 8 * percentile.foothold
    IN  [attractiveness |-> attractiveness, fit |-> fit, priority |-> 11 * attractiveness + 9 * fit]

ComputeWindowRows(rows, products, window) ==
    LET within == {r \in rows : r.year \in Years(window)}
        raw == {WindowRow(key, {r \in within : Key(r) = key}, products[key[1]], window) : key \in {Key(r) : r \in within}}
        placed == {r @@ [percentile |-> [key \in Components |-> Midrank(raw, key, r)]] : r \in raw}
    IN  {r @@ Axes(r.percentile) : r \in placed}

Display(row) ==
    [priority |-> Round(row.priority, PriorityPart), attractiveness |-> Round(row.attractiveness, AxisPart),
     fit |-> Round(row.fit, AxisPart)]

\* Rows displayed with the same priority share the first rank of their group.
RankRows(rows) ==
    LET displayed == {r @@ [display |-> Display(r)] : r \in rows}
        Ahead(r) == Cardinality({s \in displayed : s.display.priority > r.display.priority})
        Tie(r) == Cardinality({s \in displayed : s.display.priority = r.display.priority})
        n == Cardinality(rows)
    IN  {r @@ [rank |-> Ahead(r) + 1, tie |-> Tie(r),
               rankPercentile |-> IF n = 1 THEN [at |-> 50, of |-> 1]
                                  ELSE [at |-> 50 * (2 * n - 2 * Ahead(r) - Tie(r) - 1), of |-> n - 1]] : r \in displayed}

\* Canonical order: by the displayed numbers downwards, then by the codes.
OrderKey(row) == <<-row.display.priority, -row.display.attractiveness, -row.display.fit, row.product, row.market>>
Precedes(a, b) == \E i \in DOMAIN a : a[i] < b[i] /\ \A j \in 1..(i - 1) : a[j] = b[j]
InOrder(rows) ==
    [i \in 1..Cardinality(rows) |->
        CHOOSE r \in rows : Cardinality({s \in rows : Precedes(OrderKey(s), OrderKey(r))}) = i - 1]
-----------------------------------------------------------------------------
AlternateStability(row, alternates) ==
    LET same == {a \in alternates : Key(a) = Key(row)}
        delta == SumOver(same, LAMBDA a : Abs(row.priority - a.priority))
    IN  IF same = {} THEN [state |-> "COHORT_EXIT", delta |-> Null]
        ELSE [state |-> IF delta >= 15 * PriorityPart THEN "LOW_ALTERNATE_WINDOW_STABILITY" ELSE "NOT_FLAGGED",
              delta |-> delta]

PreviousRanking(previous) ==
    IF previous = Null THEN Null
    ELSE RankRows(ComputeWindowRows(BuildRowsForComparison(previous), previous.products,
                                    Window(previous.cutoff - 4, previous.cutoff)))

\* Ten points of priority or fifteen of the rank percentile are material.
ReleaseRevision(row, ranking) ==
    LET same == {r \in ranking : Key(r) = Key(row)}
        before == CHOOSE r \in same : TRUE
        moved == row.rankPercentile.at * before.rankPercentile.of - before.rankPercentile.at * row.rankPercentile.of
        delta == Abs(row.priority - before.priority)
    IN  IF ranking = Null THEN [state |-> "NOT_COMPARED", transition |-> Null, delta |-> Null]
        ELSE IF same = {} THEN [state |-> "NOT_FLAGGED", transition |-> "COHORT_ENTRY", delta |-> Null]
        ELSE [state |-> IF \/ delta >= 10 * PriorityPart
                           \/ Abs(moved) >= 15 * row.rankPercentile.of * before.rankPercentile.of
                        THEN "MATERIAL_RELEASE_REVISION" ELSE "NOT_FLAGGED",
              transition |-> "COMMON", delta |-> delta]

ClassifyOpportunity(row) ==
    IF /\ row.attractiveness >= 70 * AxisPart
       /\ row.percentile.foothold <= 20 * Sixtieth \/ row.flow = "NO_RECORDED_POSITIVE_FLOW"
    THEN "UNVALIDATED_MARKET_GAP"
    ELSE IF row.flow = "RECORDED" /\ row.attractiveness >= 60 * AxisPart /\ row.fit >= 60 * AxisPart
    THEN "EXPANSION_EVIDENCE"
    ELSE "GENERAL_INVESTIGATION_EVIDENCE"

EvidenceFlags(row) ==
    (IF row.flow = "NO_RECORDED_POSITIVE_FLOW" THEN {"NO_RECORDED_BILATERAL_FLOW"} ELSE {})
    \cup (IF row.noExport THEN {"NO_RECORDED_PRODUCT_EXPORT"} ELSE {})
    \cup (IF row.growth # Null /\ ExtremeGrowth(row.growth) THEN {"EXTREME_NOMINAL_GROWTH"} ELSE {})
    \cup (IF row.market = IdentityProxy THEN {"IDENTITY_PROXY"} ELSE {})

Deductions(row, missing, cutoff, stability, revision) ==
    [MISSING_FINALIZED_MARKET_YEARS |-> Min({40, 10 * Cardinality(missing)}),
     MISSING_CUTOFF_YEAR_MARKET_EVIDENCE |-> IF cutoff \in row.observed THEN 0 ELSE 15,
     NEUTRAL_MARKET_GROWTH |-> IF row.growth = Null THEN 10 ELSE 0,
     NO_EXPORTER_PRODUCT_HISTORY |-> IF row.noExport THEN 20 ELSE 0,
     POSSIBLE_PRODUCT_SERIES_DISCONTINUITY |-> IF row.discontinuity # {} THEN 15 ELSE 0,
     LOW_ALTERNATE_WINDOW_STABILITY |-> IF "LOW_ALTERNATE_WINDOW_STABILITY" \in stability THEN 10 ELSE 0,
     MATERIAL_RELEASE_REVISION |-> IF revision = "MATERIAL_RELEASE_REVISION" THEN 10 ELSE 0,
     IDENTITY_PROXY |-> IF row.market = IdentityProxy THEN 10 ELSE 0]

Label(score) == IF score >= 80 THEN "HIGH" ELSE IF score >= 50 THEN "MEDIUM" ELSE "LOW"

\* Two observed years or fewer cap the score at forty.
Confidence(points, observed) ==
    LET left == Max({0, 100 - SumOver(DOMAIN points, LAMBDA code : points[code])})
        score == IF Cardinality(observed) <= 2 THEN Min({left, 40}) ELSE left
    IN  [score |-> score, label |-> Label(score), capped |-> score < left,
         deductions |-> {[code |-> code, points |-> points[code]] : code \in {c \in DOMAIN points : points[c] > 0}}]

ToCandidate(row, cutoff, three, ten, ranking) ==
    LET threeYear == AlternateStability(row, three)
        tenYear == AlternateStability(row, ten)
        missing == ((cutoff - 4)..cutoff) \ row.observed
        revision == ReleaseRevision(row, ranking)
    IN  [product |-> row.product, market |-> row.market,
         priority |-> row.priority, attractiveness |-> row.attractiveness, fit |-> row.fit, display |-> row.display,
         percentile |-> row.percentile, size |-> row.size, growth |-> row.growth, presence |-> row.presence,
         foothold |-> row.foothold, noExport |-> row.noExport, flow |-> row.flow,
         growthReasons |-> IF row.growth = Null THEN row.growthReasons ELSE {},
         type |-> ClassifyOpportunity(row), observed |-> row.observed, missing |-> missing,
         confidence |-> Confidence(Deductions(row, missing, cutoff, {threeYear.state, tenYear.state}, revision.state),
                                   row.observed),
         threeYear |-> threeYear, tenYear |-> tenYear, revision |-> revision, flags |-> EvidenceFlags(row),
         rank |-> row.rank, tie |-> row.tie]

ComputeOpportunityCohort(evidence) ==
    LET rows == BuildRows(evidence)
        Within(start) == ComputeWindowRows(rows, evidence.products, Window(start, evidence.cutoff))
        three == Within(evidence.cutoff - 2)
        ten == Within(evidence.cutoff - 9)
        ranking == PreviousRanking(evidence.previous)
    IN  {ToCandidate(row, evidence.cutoff, three, ten, ranking) : row \in RankRows(Within(evidence.cutoff - 4))}
-----------------------------------------------------------------------------
CONSTANTS
    Artifacts,
    Queries,    \* [exporter, products]: products is a set of codes, or Null for all
    Limits,     \* the sizes of pages asked for
    Details     \* [exporter, product, market]

VARIABLES
    artifact,
    cohorts,    \* exporter -> its cohort in canonical order, or Null
    index,      \* the rows of the published index, or Null
    feed,       \* the query, its pages so far and their limits, or Null
    other,      \* another query that was asked with the cursor of the feed, or Null
    detail      \* a request for detail and its answer, or Null
vars == <<artifact, cohorts, index, feed, other, detail>>

OPPORTUNITY_TYPE_ORDER == <<"UNVALIDATED_MARKET_GAP", "EXPANSION_EVIDENCE", "GENERAL_INVESTIGATION_EVIDENCE">>
CONFIDENCE_FLAG_ORDER ==
    <<"MISSING_FINALIZED_MARKET_YEARS", "MISSING_CUTOFF_YEAR_MARKET_EVIDENCE", "NEUTRAL_MARKET_GROWTH",
      "NO_EXPORTER_PRODUCT_HISTORY", "POSSIBLE_PRODUCT_SERIES_DISCONTINUITY", "LOW_ALTERNATE_WINDOW_STABILITY",
      "MATERIAL_RELEASE_REVISION", "IDENTITY_PROXY">>
EVIDENCE_FLAG_ORDER ==
    <<"NO_RECORDED_BILATERAL_FLOW", "NO_RECORDED_PRODUCT_EXPORT", "EXTREME_NOMINAL_GROWTH", "IDENTITY_PROXY">>
GROWTH_NEUTRAL_REASON_ORDER == <<"TOO_FEW_OBSERVED_YEARS", "SMALL_MARKET_BASE">>
STABILITY_STATE_ORDER == <<"NOT_FLAGGED", "LOW_ALTERNATE_WINDOW_STABILITY", "COHORT_ENTRY", "COHORT_EXIT">>

FixedPoints ==
    [MISSING_CUTOFF_YEAR_MARKET_EVIDENCE |-> 15, NEUTRAL_MARKET_GROWTH |-> 10, NO_EXPORTER_PRODUCT_HISTORY |-> 20,
     POSSIBLE_PRODUCT_SERIES_DISCONTINUITY |-> 15, LOW_ALTERNATE_WINDOW_STABILITY |-> 10,
     MATERIAL_RELEASE_REVISION |-> 10, IDENTITY_PROXY |-> 10]

\* Sets as bits, the first of the order the lowest.
Place(order, code) == CHOOSE i \in DOMAIN order : order[i] = code
Bits(codes, order) == SumOver(codes, LAMBDA code : 2^(Place(order, code) - 1))
HasBit(bits, n) == (bits \div 2^n) % 2 = 1
Codes(bits, order) == {order[i] : i \in {i \in DOMAIN order : HasBit(bits, i - 1)}}
Mask(years, start) == SumOver(years, LAMBDA y : 2^(y - start))
-----------------------------------------------------------------------------
\* The dimensions of an artifact; product ids follow the codes.
Eligible(a) == {e \in DOMAIN a.kind : a.kind[e] = "ECONOMY" /\ e \in a.traded}
ProductId(a, code) == Cardinality({c \in a.codes : c <= code})
CodeOf(a, id) == CHOOSE c \in a.codes : ProductId(a, c) = id

\* The evidence of one exporter: its flows laid over the ten years of markets.
ExporterTotals(a, e, code) ==
    LET own == {f \in a.flows : f.exporter = e /\ f.product = code /\ f.year \in (a.cutoff - 9)..a.cutoff}
    IN  [y \in {f.year : f \in own} |-> SumOver({f \in own : f.year = y}, LAMBDA f : f.value)]
FlowOf(a, e, row) ==
    LET own == {f \in a.flows : f.exporter = e /\ f.product = row.product /\ f.market = row.market /\ f.year = row.year}
    IN  IF own = {} THEN Null ELSE (CHOOSE f \in own : TRUE).value
EvidenceOf(a, e, previous) ==
    [exporter |-> e, cutoff |-> a.cutoff, previous |-> previous,
     products |-> [code \in DOMAIN a.totals |->
                      [world |-> [y \in {y \in DOMAIN a.totals[code] : y \in (a.cutoff - 9)..a.cutoff} |-> a.totals[code][y]],
                       exports |-> ExporterTotals(a, e, code)]],
     rows |-> {[product |-> r.product, market |-> r.market, year |-> r.year, world |-> r.world, flow |-> FlowOf(a, e, r)] :
                  r \in {r \in a.markets : r.year \in (a.cutoff - 9)..a.cutoff}}]
PreviousOf(a, e) == IF a.before = Null THEN Null ELSE EvidenceOf(a.before, e, Null)

CandidateToIndexRow(c, exporter, a) ==
    [exporter |-> exporter, product |-> ProductId(a, c.product), market |-> c.market,
     priority |-> c.priority, attractiveness |-> c.attractiveness, fit |-> c.fit, display |-> c.display,
     percentile |-> c.percentile, size |-> c.size, growth |-> c.growth, presence |-> c.presence, foothold |-> c.foothold,
     rank |-> c.rank, type |-> Place(OPPORTUNITY_TYPE_ORDER, c.type) - 1,
     confidence |-> c.confidence.score,
     confidenceFlags |-> Bits({d.code : d \in c.confidence.deductions}, CONFIDENCE_FLAG_ORDER),
     evidenceFlags |-> Bits(c.flags, EVIDENCE_FLAG_ORDER),
     observed |-> Mask(c.observed, a.cutoff - 4),
     growthReasons |-> Bits(c.growthReasons, GROWTH_NEUTRAL_REASON_ORDER),
     threeState |-> Place(STABILITY_STATE_ORDER, c.threeYear.state) - 1, threeDelta |-> c.threeYear.delta,
     tenState |-> Place(STABILITY_STATE_ORDER, c.tenYear.state) - 1, tenDelta |-> c.tenYear.delta]

ReconstructConfidence(flags, score, missing) ==
    LET codes == Codes(flags, CONFIDENCE_FLAG_ORDER)
        points == [code \in codes |-> IF code = "MISSING_FINALIZED_MARKET_YEARS"
                                      THEN Min({40, 10 * Cardinality(missing)}) ELSE FixedPoints[code]]
        left == Max({0, 100 - SumOver(codes, LAMBDA code : points[code])})
    IN  [score |-> score, label |-> Label(score), capped |-> score < left,
         deductions |-> {[code |-> code, points |-> points[code]] : code \in codes}]

IndexRowToCandidate(row, tie, a) ==
    LET flags == Codes(row.evidenceFlags, EVIDENCE_FLAG_ORDER)
        observed == {y \in (a.cutoff - 4)..a.cutoff : HasBit(row.observed, y - (a.cutoff - 4))}
        missing == ((a.cutoff - 4)..a.cutoff) \ observed
    IN  [product |-> CodeOf(a, row.product), market |-> row.market,
         priority |-> row.priority, attractiveness |-> row.attractiveness, fit |-> row.fit, display |-> row.display,
         percentile |-> row.percentile, size |-> row.size, growth |-> row.growth, presence |-> row.presence,
         foothold |-> row.foothold, noExport |-> "NO_RECORDED_PRODUCT_EXPORT" \in flags,
         flow |-> IF "NO_RECORDED_BILATERAL_FLOW" \in flags THEN "NO_RECORDED_POSITIVE_FLOW" ELSE "RECORDED",
         growthReasons |-> IF row.growth = Null THEN Codes(row.growthReasons, GROWTH_NEUTRAL_REASON_ORDER) ELSE {},
         type |-> OPPORTUNITY_TYPE_ORDER[row.type + 1], observed |-> observed, missing |-> missing,
         confidence |-> ReconstructConfidence(row.confidenceFlags, row.confidence, missing),
         threeYear |-> [state |-> STABILITY_STATE_ORDER[row.threeState + 1], delta |-> row.threeDelta],
         tenYear |-> [state |-> STABILITY_STATE_ORDER[row.tenState + 1], delta |-> row.tenDelta],
         revision |-> [state |-> "NOT_COMPARED", transition |-> Null, delta |-> Null], flags |-> flags,
         rank |-> row.rank, tie |-> tie]
-----------------------------------------------------------------------------
\* A cursor names the feed it was minted for and the last candidate shown.
Cursor(query, rows) == [exporter |-> query.exporter, products |-> query.products, key |-> OrderKey(Last(rows))]
CursorFits(query, cursor) == cursor = Null \/ (cursor.exporter = query.exporter /\ cursor.products = query.products)

\* buildMarketInvestigationPage.
PageOf(query, size, rows, more) ==
    [error |-> Null, size |-> size, candidates |-> rows,
     next |-> IF more /\ rows # <<>> THEN Cursor(query, rows) ELSE Null]
Refused(code) == [error |-> code, size |-> 0, candidates |-> <<>>, next |-> Null]

FirstOf(rows, n) == SubSeq(rows, 1, Min({n, Len(rows)}))

QueryError(query, cursor) ==
    IF query.exporter \notin Eligible(artifact) THEN "UNKNOWN_EXPORT_ECONOMY"
    ELSE IF query.products # Null /\ ~(query.products \subseteq artifact.codes) THEN "UNKNOWN_PRODUCT"
    ELSE IF ~CursorFits(query, cursor) THEN "INVALID_CURSOR"
    ELSE Null

\* keysetPredicate: strictly after the key in canonical order.
KeysetPredicate(row, key) == Precedes(key, OrderKey(row))

\* A tie is of the whole cohort, whatever the page shows of it.
TieSize(row, cohort, window) == Cardinality({r \in cohort : r.rank = row.rank})

\* DuckDbOpportunityCandidateIndex.page.  Product ids stand for codes in the key.
IndexPage(query, limit, cursor) ==
    LET cohort == {r \in index : r.exporter = query.exporter}
        ids == {ProductId(artifact, code) : code \in query.products}
        key == [cursor.key EXCEPT ![4] = ProductId(artifact, @)]
        projected == IF query.products = Null THEN cohort ELSE {r \in cohort : r.product \in ids}
        window == IF cursor = Null THEN projected ELSE {r \in projected : KeysetPredicate(r, key)}
        fetched == FirstOf(InOrder(window), limit + 1)
        shown == FirstOf(fetched, limit)
    IN  PageOf(query, Cardinality(cohort),
               [i \in DOMAIN shown |-> IndexRowToCandidate(shown[i], TieSize(shown[i], cohort, window), artifact)],
               Len(fetched) > limit)

\* pageOpportunityCohort, of the cohort in memory.
CohortPage(query, limit, cursor) ==
    LET cohort == cohorts[query.exporter]
        projected == SelectSeq(cohort, LAMBDA c : query.products = Null \/ c.product \in query.products)
        later == {i \in DOMAIN projected : Precedes(cursor.key, OrderKey(projected[i]))}
        start == IF cursor = Null THEN 0 ELSE IF later = {} THEN Len(projected) ELSE Min(later) - 1
    IN  PageOf(query, Len(cohort), FirstOf(SubSeq(projected, start + 1, Len(projected)), limit),
               start + limit < Len(projected))

Page(query, limit, cursor) ==
    IF QueryError(query, cursor) # Null THEN Refused(QueryError(query, cursor)) ELSE IndexPage(query, limit, cursor)

\* loadDetail: the years of the market in the score window; the market need not
\* be in the cohort.
LoadDetail(d) ==
    LET years == {[year |-> r.year, world |-> r.world, flow |-> FlowOf(artifact, d.exporter, r)] :
                     r \in {r \in artifact.markets : /\ r.product = d.product /\ r.market = d.market
                                                     /\ r.year \in (artifact.cutoff - 4)..artifact.cutoff}}
    IN  IF d.exporter \notin Eligible(artifact) THEN [error |-> "UNKNOWN_EXPORT_ECONOMY", years |-> {}]
        ELSE IF d.product \notin artifact.codes \/ d.market \notin DOMAIN artifact.kind \/ years = {}
        THEN [error |-> "UNKNOWN_PRODUCT", years |-> {}]
        ELSE [error |-> Null, years |-> years]
-----------------------------------------------------------------------------
Init ==
    /\ artifact \in Artifacts
    /\ cohorts = Null /\ index = Null /\ feed = Null /\ other = Null /\ detail = Null

\* The recipe computes every cohort; an index is written of those that are
\* compared with no other release.
Build ==
    /\ cohorts = Null
    /\ cohorts' = [e \in Eligible(artifact) |->
                      InOrder(ComputeOpportunityCohort(EvidenceOf(artifact, e, PreviousOf(artifact, e))))]
    /\ index' = IF artifact.before # Null THEN Null
                ELSE UNION {{CandidateToIndexRow(c, e, artifact) : c \in ToSet(cohorts'[e])} : e \in Eligible(artifact)}
    /\ UNCHANGED <<artifact, feed, other, detail>>

Ask(query, limit) ==
    /\ index # Null /\ feed = Null /\ detail = Null
    /\ feed' = [query |-> query, pages |-> <<Page(query, limit, Null)>>, limits |-> <<limit>>]
    /\ UNCHANGED <<artifact, cohorts, index, other, detail>>

NextCursor == IF feed = Null THEN Null ELSE Last(feed.pages).next

\* The feed goes on from the cursor of its last page.
More(limit) ==
    /\ NextCursor # Null /\ other = Null
    /\ feed' = [feed EXCEPT !.pages = Append(@, Page(feed.query, limit, NextCursor)), !.limits = Append(@, limit)]
    /\ UNCHANGED <<artifact, cohorts, index, other, detail>>

\* The cursor of the feed is given with another query.  What is asked leaves nothing
\* behind in the server: a detail and a stray page are looked at on their own.
Stray(query) ==
    /\ NextCursor # Null /\ other = Null
    /\ other' = [query |-> query, page |-> Page(query, 1, NextCursor)]
    /\ UNCHANGED <<artifact, cohorts, index, feed, detail>>

OpenDetail(d) ==
    /\ cohorts # Null /\ feed = Null /\ detail = Null
    /\ detail' = [request |-> d, answer |-> LoadDetail(d)]
    /\ UNCHANGED <<artifact, cohorts, index, feed, other>>

Next ==
    \/ Build
    \/ \E query \in Queries, limit \in Limits : Ask(query, limit)
    \/ \E limit \in Limits : More(limit)
    \/ \E query \in Queries : Stray(query)
    \/ \E d \in Details : OpenDetail(d)
-----------------------------------------------------------------------------
Shown == FlattenSeq([i \in DOMAIN feed.pages |-> feed.pages[i].candidates])
Projected(query) ==
    SelectSeq(cohorts[query.exporter], LAMBDA c : query.products = Null \/ c.product \in query.products)

\* The pages of a feed, whatever their sizes, are the cohort in canonical order,
\* every candidate as the recipe computed it, none missing or twice across ties
\* of score and code; the feed ends with the cohort, and a filter changes
\* neither ranks nor ties.
PagesWalkTheCohort ==
    feed # Null /\ feed.pages[1].error = Null =>
        /\ IsPrefix(Shown, Projected(feed.query))
        /\ NextCursor = Null => Shown = Projected(feed.query)
        /\ \A i \in DOMAIN feed.pages :
              feed.pages[i] = CohortPage(feed.query, feed.limits[i], IF i = 1 THEN Null ELSE feed.pages[i - 1].next)

\* A cursor continues no feed but its own.
CursorsStayWithTheirFeed ==
    other # Null /\ other.page.error = Null =>
        \A c \in ToSet(other.page.candidates) : c \in ToSet(Projected(feed.query)) /\ c \notin ToSet(feed.pages[1].candidates)

\* What the detail shows is what the row of the candidate was computed from, and
\* every candidate has a detail.
DetailSupportsTheRow ==
    detail # Null /\ detail.request.exporter \in Eligible(artifact) =>
        LET same == {c \in ToSet(cohorts[detail.request.exporter]) :
                        c.product = detail.request.product /\ c.market = detail.request.market}
            years == detail.answer.years
            world == SumOver(years, LAMBDA y : y.world)
            recorded == {y \in years : y.flow # Null}
        IN  \A c \in same :
                /\ detail.answer.error = Null
                /\ c.observed = {y.year : y \in years}
                /\ c.size = Mean(world, Cardinality(years))
                /\ (c.flow = "RECORDED") = (recorded # {})
                /\ c.foothold = [at |-> SumOver(recorded, LAMBDA y : y.flow), of |-> world]

\* A candidate that is behind another in nothing does not rank behind it, ranks
\* and ties count the cohort, and no economy is its own market.
RanksFollowTheEvidence ==
    cohorts # Null => \A e \in DOMAIN cohorts :
        LET all == ToSet(cohorts[e])
            NowhereBehind(a, b) == \A k \in Components : a[k] # Null /\ b[k] # Null /\ ~Lower(a[k], b[k])
        IN  \A a \in all :
                /\ a.market # e
                /\ a.rank = 1 + Cardinality({b \in all : b.display.priority > a.display.priority})
                /\ Cardinality({b \in all : b.rank = a.rank}) = a.tie
                /\ a.growth = Null => a.percentile.growth = Middle
                /\ \A b \in all : NowhereBehind(a, b) => a.rank <= b.rank

OpportunitiesAreSound ==
    PagesWalkTheCohort /\ CursorsStayWithTheirFeed /\ DetailSupportsTheRow /\ RanksFollowTheEvidence
=============================================================================
