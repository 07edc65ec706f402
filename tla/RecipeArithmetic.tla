-------------------------- MODULE RecipeArithmetic --------------------------
(***************************************************************************)
(* What the analysis recipes compute with.                                 *)
(*                                                                         *)
(* The arithmetic of both scores: cms-v1.ts, whose helpers                 *)
(* opportunity-discovery-v1.ts repeats so that both round and rank alike.  *)
(* The values of a series are powers of two, so that logarithms are        *)
(* integers; a mean over at most ten years is kept in units of 1/2520;     *)
(* shares and slopes are fractions [at, of].  The code uses doubles and    *)
(* takes values within 1e-12 for equal.                                    *)
(*                                                                         *)
(* Recent Trade Momentum: which products of the Harmonized System 2012 the *)
(* codes of the Combined Nomenclature cover (cn-to-hs12-mapping.ts), and   *)
(* the signal of one market and product from 24 monthly observations       *)
(* (recent-trade-momentum-v1.ts).  A month is the number of months since   *)
(* year 0; values are whole euros.  An edition of the nomenclature is a    *)
(* record with the sequence "codes" of [code, kind] and the set            *)
(* "correspondences".                                                      *)
(***************************************************************************)
EXTENDS Integers, Sequences, FiniteSets, SequencesExt, FiniteSetsExt

\* The scores.

SmallBase == 500
IdentityProxy == 490
Unit == 2520

SumOver(S, Value(_)) == MapThenSumSet(Value, S)
Lower(a, b) == IF a.of = b.of THEN a.at < b.at ELSE a.at * b.of < b.at * a.of
Log2(n) == CHOOSE e \in 0..30 : 2^e = n
Mean(total, n) == [at |-> (total * Unit) \div n, of |-> Unit]
Window(start, end) == [start |-> start, end |-> end]
Years(window) == window.start..window.end

\* The slope of the logarithm of a series of rows with a year and a world value.
LogLinearGrowth(rows) ==
    LET n == Cardinality(rows)
        years == SumOver(rows, LAMBDA r : r.year)
        logs == SumOver(rows, LAMBDA r : Log2(r.world))
        squares == SumOver(rows, LAMBDA r : r.year * r.year)
        products == SumOver(rows, LAMBDA r : r.year * Log2(r.world))
    IN  [at |-> n * products - years * logs, of |-> n * squares - years * years]

\* A slope whose growth is above 75 %, or below -75 %: log2(1.75) is 0.80735.
ExtremeGrowth(slope) == slope.at * 100000 > 80735 * slope.of \/ slope.at < -2 * slope.of

TwiceTheMedian(f) ==
    LET n == Cardinality(DOMAIN f)
        UpTo(v) == Cardinality({x \in DOMAIN f : f[x] <= v})
        Nth(k) == Min({v \in {f[x] : x \in DOMAIN f} : UpTo(v) >= k})
    IN  Nth((n + 1) \div 2) + Nth(n \div 2 + 1)

\* The years whose change is far from the median change: more than four times
\* the median deviation, and more than threefold.
FarFromTheMedian(changes) ==
    LET center == TwiceTheMedian(changes)
        deviation == [y \in DOMAIN changes |-> LET d == 2 * changes[y] - center IN IF d < 0 THEN -d ELSE d]
        spread == TwiceTheMedian(deviation)
    IN  IF DOMAIN changes = {} THEN {}
        ELSE {y \in DOMAIN changes : deviation[y] > 2 * spread /\ 2^deviation[y] > 9}
-----------------------------------------------------------------------------
\* The mapping of codes to products, and the momentum signal.

EXPECTED_HISTORY_MONTHS == 24
MINIMUM_RECORDED_HISTORY_MONTHS == 18
MINIMUM_WINDOW_VALUE_EUR == 250000

Year(month) == month \div 12
SPECIAL_KINDS == {"SPECIAL", "CONFIDENTIAL", "RESIDUAL", "TOTAL"}

ValidateEdition(edition) ==
    LET codes == {edition.codes[i].code : i \in DOMAIN edition.codes}
    IN  /\ Cardinality(codes) = Len(edition.codes)
        /\ \A c \in edition.correspondences : c.code \in codes

SummarizeStatus(correspondences) ==
    LET statuses == {c.status : c \in correspondences}
    IN  CASE correspondences = {} -> "UNMAPPED"
          [] Cardinality(statuses) = 1 -> CHOOSE s \in statuses : TRUE
          [] OTHER -> IF "AMBIGUOUS" \in statuses THEN "AMBIGUOUS"
                      ELSE IF "SPLIT" \in statuses THEN "SPLIT"
                      ELSE IF "MERGED" \in statuses THEN "MERGED"
                      ELSE IF "QUALIFIED" \in statuses THEN "QUALIFIED" ELSE "UNMAPPED"

SummarizeChain(correspondences) ==
    LET chains == {c.chain : c \in correspondences}
    IN  IF chains = {} \/ "NON_EXACT" \in chains THEN "NON_EXACT"
        ELSE IF "MULTI_STEP_EXACT" \in chains THEN "MULTI_STEP_EXACT" ELSE "DIRECT_EXACT"

\* What is wrong with the correspondences of an ordinary code.
RejectionReasons(correspondences) ==
    LET qualified == \E c \in correspondences : c.qualified \/ c.status = "QUALIFIED"
        inexact == \E c \in correspondences : c.status # "EXACT_REVIEWED" \/ c.chain = "NON_EXACT"
    IN  {r \in {"MISSING_CORRESPONDENCE", "NON_EXACT_CORRESPONDENCE", "QUALIFIED_CORRESPONDENCE", "MULTIPLE_TARGETS"} :
            \/ r = "MISSING_CORRESPONDENCE" /\ correspondences = {}
            \/ r = "NON_EXACT_CORRESPONDENCE" /\ inexact /\ ~qualified
            \/ r = "QUALIFIED_CORRESPONDENCE" /\ qualified
            \/ r = "MULTIPLE_TARGETS" /\ Cardinality({c.product : c \in correspondences}) # 1}

MapCn8Code(code, kind, correspondences) ==
    IF kind \in SPECIAL_KINDS
    THEN [code |-> code, status |-> "NOT_APPLICABLE", targets |-> {}, chain |-> "NON_EXACT",
          rejected |-> {"SPECIAL_SOURCE_CODE"}]
    ELSE [code |-> code, status |-> SummarizeStatus(correspondences),
          targets |-> {c.product : c \in correspondences},
          chain |-> SummarizeChain(correspondences), rejected |-> RejectionReasons(correspondences)]

\* The row mappings of an edition, one per code.
RowMappings(edition) ==
    {MapCn8Code(edition.codes[i].code, edition.codes[i].kind,
                {c \in edition.correspondences : c.code = edition.codes[i].code}) :
        i \in DOMAIN edition.codes}

Accepted(row) == row.status = "EXACT_REVIEWED" /\ row.rejected = {}

\* The product mappings of an edition: a product is supported when every code
\* that touches it is accepted.
BuildProductMappingsForEdition(edition) ==
    LET rows == RowMappings(edition)
        touching(product) == {row \in rows : product \in row.targets}
    IN  {[product |-> product,
          exact |-> touching(product) # {} /\ \A row \in touching(product) : Accepted(row),
          accepted |-> {row.code : row \in {t \in touching(product) : Accepted(t)}}] :
            product \in UNION {row.targets : row \in rows}}

\* evidence maps each edition's year to it.
BuildCnToHs12MappingReport(evidence) ==
    [year \in DOMAIN evidence |->
        [rows |-> RowMappings(evidence[year]),
         products |-> BuildProductMappingsForEdition(evidence[year])]]

\* A product is exact over some years when every year's edition says so.
ExactAcrossEditions(report, product, years) ==
    \A year \in years :
        year \in DOMAIN report /\ \E p \in report[year].products : p.product = product /\ p.exact
-----------------------------------------------------------------------------
\* The signal of one market and product. observations maps months to records
\* [state, value, update, chain]; a month may be absent.

RecentMonths(cutoff) == (cutoff - 2)..cutoff
BaselineMonths(cutoff) == (cutoff - 14)..(cutoff - 12)
HistoryMonths(cutoff) == (cutoff - (EXPECTED_HISTORY_MONTHS - 1))..cutoff

Total(observations, months) == MapThenSumSet(LAMBDA month : observations[month].value, months)

ExceedsConcentrationCap(observations, months) ==
    \E month \in months : observations[month].value * 100 > Total(observations, months) * 80

ClassifySignal(recent, baseline) ==
    IF recent * 4 >= baseline * 5 THEN "RISING_FAST"
    ELSE IF recent * 10 >= baseline * 11 THEN "RISING"
    ELSE IF recent * 4 <= baseline * 3 THEN "FALLING_FAST"
    ELSE IF recent * 10 <= baseline * 9 THEN "FALLING"
    ELSE "BROADLY_STABLE"

\* The growth in tenths of a per cent, rounded half away from zero.
FormatGrowthPercent(recent, baseline) ==
    LET diff == IF recent < baseline THEN baseline - recent ELSE recent - baseline
        tenths == (diff * 1000 * 2 + baseline) \div (baseline * 2)
    IN  IF recent < baseline THEN -tenths ELSE tenths

\* 3 is HIGH, 2 MEDIUM and 1 LOW.
ComputeConfidence(recorded, observations, comparison, revisionIsMaterial) ==
    Min({3} \cup (IF recorded \in 20..23 THEN {2} ELSE IF recorded \in 18..19 THEN {1} ELSE {})
            \cup (IF \E m \in comparison : observations[m].update = "PRELIMINARY" THEN {2} ELSE {})
            \cup (IF \E m \in DOMAIN observations : observations[m].chain = "MULTI_STEP_EXACT" THEN {2} ELSE {})
            \cup (IF revisionIsMaterial THEN {1} ELSE {}))

NoSignal(coverage, reason, recorded, recent, baseline) ==
    [coverage |-> coverage, signal |-> "none", reason |-> reason, recent |-> recent,
     baseline |-> baseline, growth |-> 0, confidence |-> 0, recorded |-> recorded]

\* marketStatus and productIsExact are the other inputs; complete is the set of
\* eligible complete months, revisionIsMaterial a change rate of at least 0.05.
ComputeRecentTradeMomentumV1(cutoff, marketStatus, productIsExact, complete, observations, revisionIsMaterial) ==
    LET history == HistoryMonths(cutoff)
        comparison == BaselineMonths(cutoff) \cup RecentMonths(cutoff)
        state(month) == IF month \in DOMAIN observations THEN observations[month].state ELSE "absent"
        recorded == Cardinality({month \in history : state(month) = "RECORDED_POSITIVE"})
        without(reason) == NoSignal("SUPPORTED_NO_SIGNAL", reason, recorded, -1, -1)
        recent == Total(observations, RecentMonths(cutoff))
        baseline == Total(observations, BaselineMonths(cutoff))
        ofHistory == [month \in DOMAIN observations \cap history |-> observations[month]]
    IN  IF marketStatus # "SUPPORTED" THEN NoSignal(marketStatus, marketStatus, recorded, -1, -1)
        ELSE IF ~productIsExact
        THEN NoSignal("UNSUPPORTED_PRODUCT_MAPPING", "UNSUPPORTED_PRODUCT_MAPPING", recorded, -1, -1)
        ELSE IF ~(history \subseteq complete) THEN without("INSUFFICIENT_COMPLETE_HISTORY")
        ELSE IF \E month \in history : state(month) = "SUPPRESSED_OR_REALLOCATED"
        THEN without("SUPPRESSED_OR_REALLOCATED")
        ELSE IF \E month \in comparison : state(month) \in {"absent", "NOT_OBSERVED"}
        THEN without("MISSING_COMPARISON_MONTH")
        ELSE IF (\E month \in comparison : state(month) # "RECORDED_POSITIVE")
                \/ recorded < MINIMUM_RECORDED_HISTORY_MONTHS
        THEN without("INSUFFICIENT_RECORDED_MONTHS")
        ELSE IF baseline < MINIMUM_WINDOW_VALUE_EUR \/ recent < MINIMUM_WINDOW_VALUE_EUR
        THEN NoSignal("SUPPORTED_NO_SIGNAL", "SMALL_BASE", recorded, recent, baseline)
        ELSE IF \/ ExceedsConcentrationCap(observations, BaselineMonths(cutoff))
                \/ ExceedsConcentrationCap(observations, RecentMonths(cutoff))
        THEN NoSignal("SUPPORTED_NO_SIGNAL", "WINDOW_CONCENTRATION", recorded, recent, baseline)
        ELSE [coverage |-> "SUPPORTED", signal |-> ClassifySignal(recent, baseline), reason |-> "none",
              recent |-> recent, baseline |-> baseline, growth |-> FormatGrowthPercent(recent, baseline),
              confidence |-> ComputeConfidence(recorded, ofHistory, comparison, revisionIsMaterial),
              recorded |-> recorded]
=============================================================================
