--------------------------- MODULE CandidateScore ---------------------------
(***************************************************************************)
(* The Candidate Market Score: candidate-market-v1-recipe.ts, cms-v1.ts    *)
(* and release-revision.ts.                                                *)
(*                                                                         *)
(* A release is a record: name, sha, revision, cutoff, years (available),  *)
(* known (the exporter and the product are in it), rows and provisional    *)
(* (market years as TradeEvidence loads them) and totals, a function from  *)
(* the years in which the product was traded.  Values are those of         *)
(* RecipeArithmetic; a diversity is in sixteenths.                          *)
(***************************************************************************)
EXTENDS RecipeArithmetic

CONSTANTS Releases, PreviousReleases, Null

VARIABLES
    current,    \* the release the analysis is of
    previous,   \* the release it is compared with, or Null
    answer      \* the result, an error, or Null
vars == <<current, previous, answer>>

MinimumCohort == 10
Neutral == [at |-> 1, of |-> 2]

-----------------------------------------------------------------------------
\* What a market year must satisfy to be scored.
RowIsConsistent(row) ==
    /\ row.world > 0
    /\ row.selected # Null => row.selected > 0 /\ row.selected <= row.world
    /\ IF row.suppliers = 0 THEN row.others = 0 /\ row.squares = 0
       ELSE /\ row.squares * row.suppliers >= row.others * row.others
            /\ row.squares <= row.others * row.others
            /\ row.suppliers > 1 => row.squares < row.others * row.others

\* One less the normalised concentration of the alternative suppliers.
AnnualDiversity(row) ==
    LET all == row.others * row.others
    IN  IF row.suppliers = 1 THEN 0
        ELSE (16 * row.suppliers * (all - row.squares)) \div ((row.suppliers - 1) * all)

RawCandidate(market, rows) ==
    LET world == SumOver(rows, LAMBDA r : r.world)
        recorded == SumOver({r \in rows : r.selected # Null}, LAMBDA r : r.selected)
        diverse == {r \in rows : r.suppliers > 0}
        size == Mean(world, Cardinality(rows))
        reasons == (IF Cardinality(rows) < 3 THEN {"INSUFFICIENT_OBSERVED_YEARS"} ELSE {})
                   \cup (IF size.at < SmallBase * Unit THEN {"BELOW_MATERIALITY_THRESHOLD"} ELSE {})
    IN  [market |-> market,
         years |-> {r.year : r \in rows},
         size |-> size,
         growth |-> IF reasons = {} THEN LogLinearGrowth(rows) ELSE Null,
         growthReasons |-> reasons,
         foothold |-> [at |-> recorded, of |-> world],
         flow |-> IF recorded > 0 THEN "RECORDED" ELSE "NO_RECORDED_POSITIVE_FLOW",
         diversity |-> IF diverse = {} THEN Null
                       ELSE Mean(SumOver(diverse, AnnualDiversity), Cardinality(diverse))]

\* The middle of a candidate's place among those with a value; equal values
\* share it, and without a value a candidate is in the middle of all.
Percentile(raw, key, candidate) ==
    LET known == {c \in raw : c[key] # Null}
        below == {c \in known : Lower(c[key], candidate[key])}
        above == {c \in known : Lower(candidate[key], c[key])}
    IN  IF candidate[key] = Null THEN Neutral
        ELSE [at |-> Cardinality(known) + Cardinality(below) - Cardinality(above), of |-> 2 * Cardinality(known)]

Components == {"size", "growth", "foothold", "diversity"}
WEIGHTS == [size |-> 30, growth |-> 25, foothold |-> 25, diversity |-> 20]

\* The weighted percentiles, rounded half up.
Score(percentiles) ==
    LET common == percentiles.size.of * percentiles.growth.of * percentiles.foothold.of * percentiles.diversity.of
        weighted == SumOver(Components, LAMBDA c : WEIGHTS[c] * percentiles[c].at * (common \div percentiles[c].of))
    IN  (2 * weighted + common) \div (2 * common)

\* Equal scores share the first rank of their group and its average percentile.
Ranked(candidates, candidate) ==
    LET higher == Cardinality({c \in candidates : c.score > candidate.score})
        tie == Cardinality({c \in candidates : c.score = candidate.score})
        n == Cardinality(candidates)
    IN  [rank |-> higher + 1, tie |-> tie,
         rankPercentile |-> IF n = 1 THEN [at |-> 50, of |-> 1]
                            ELSE [at |-> 50 * (2 * n - 2 * higher - tie - 1), of |-> n - 1]]

\* The candidates of a window, each with its market.
ComputeWindow(rows, window) ==
    LET within == {r \in rows : r.year \in window.start..window.end}
        raw == {RawCandidate(m, {r \in within : r.market = m}) : m \in {r.market : r \in within}}
        placed == {c @@ [percentiles |-> [key \in Components |-> Percentile(raw, key, c)]] : c \in raw}
        scored == {c @@ [score |-> Score(c.percentiles)] : c \in placed}
    IN  {c @@ Ranked(scored, c) : c \in scored}
-----------------------------------------------------------------------------
\* Ranks that correlate less than 0.7 are not stable.
CompareWindowRanks(primary, alternate) ==
    LET common == UNION {{[x |-> c.rank, y |-> d.rank, market |-> c.market] :
                              d \in {d \in alternate : d.market = c.market}} : c \in primary}
        n == Cardinality(common)
        X(pair) == pair.x
        Y(pair) == pair.y
        Moment(A(_), B(_)) == n * SumOver(common, LAMBDA p : A(p) * B(p)) - SumOver(common, A) * SumOver(common, B)
        xy == Moment(X, Y)
        xx == Moment(X, X)
        yy == Moment(Y, Y)
    IN  IF n < MinimumCohort THEN "NOT_ESTIMATED_SMALL_COMMON_COHORT"
        ELSE IF xx # 0 /\ yy # 0 /\ (xy < 0 \/ 100 * xy * xy < 49 * xx * yy) THEN "LOW"
        ELSE "NOT_FLAGGED"

Contiguous(years) == years = {} \/ years = Min(years)..Max(years)

DiscontinuityYears(totals) ==
    FarFromTheMedian([y \in {y \in DOMAIN totals : y - 1 \in DOMAIN totals} |-> Log2(totals[y]) - Log2(totals[y - 1])])

DominantCandidate(primary) ==
    {c.market : c \in {c \in primary : 2 * c.size.at > SumOver(primary, LAMBDA d : d.size.at)}}

Deductions(candidate, window, context) ==
    [MISSING_SCORE_WINDOW_YEARS |-> Min({40, 10 * Cardinality((window.start..window.end) \ candidate.years)}),
     MISSING_CUTOFF_YEAR_EVIDENCE |-> IF window.end \in candidate.years THEN 0 ELSE 15,
     SMALL_BASE |-> IF candidate.size.at < SmallBase * Unit THEN 15 ELSE 0,
     UNKNOWN_ALTERNATIVE_SUPPLIER_STRUCTURE |-> IF candidate.diversity = Null THEN 10 ELSE 0,
     POSSIBLE_PRODUCT_SERIES_DISCONTINUITY |-> IF context.discontinuity # {} THEN 15 ELSE 0,
     LOW_WINDOW_STABILITY |-> IF "LOW" \in context.stability THEN 10 ELSE 0,
     SMALL_CANDIDATE_COHORT |-> IF context.cohort < MinimumCohort THEN 10 ELSE 0,
     NO_EXPORTER_PRODUCT_HISTORY |-> IF context.history THEN 0 ELSE 10,
     IDENTITY_PROXY |-> IF candidate.market = IdentityProxy THEN 10 ELSE 0]

Confidence(candidate, window, context) ==
    LET points == Deductions(candidate, window, context)
        left == Max({0, 100 - SumOver(DOMAIN points, LAMBDA code : points[code])})
        score == IF Cardinality(candidate.years) <= 2 THEN Min({left, 40}) ELSE left
    IN  [score |-> score, capped |-> score < left,
         deductions |-> {code \in DOMAIN points : points[code] > 0},
         label |-> IF score >= 80 THEN "HIGH" ELSE IF score >= 50 THEN "MEDIUM" ELSE "LOW"]

CaveatCodes(candidate, context) ==
    (IF candidate.flow = "NO_RECORDED_POSITIVE_FLOW" THEN {candidate.flow} ELSE {})
    \cup (IF candidate.market = IdentityProxy THEN {"IDENTITY_PROXY"} ELSE {})
    \cup (IF candidate.growth # Null /\ ExtremeGrowth(candidate.growth)
          THEN {"EXTREME_NOMINAL_GROWTH"} ELSE {})
    \cup (IF candidate.market \in context.dominant THEN {"DOMINANT_SIZE_OUTLIER"} ELSE {})
    \cup (IF context.discontinuity # {} THEN {"POSSIBLE_PRODUCT_SERIES_DISCONTINUITY"} ELSE {})
    \cup (IF "LOW" \in context.stability THEN {"LOW_WINDOW_STABILITY"}
          ELSE IF "NOT_ESTIMATED_SMALL_COMMON_COHORT" \in context.stability
          THEN {"STABILITY_NOT_ESTIMATED_SMALL_COMMON_COHORT"} ELSE {})

\* The provisional year beside the score; no row is no recorded flow, and then
\* there is nothing to say of the exporter.
ProvisionalEvidence(provisional, market) ==
    IF ~\E row \in provisional : row.market = market
    THEN [market |-> "NO_RECORDED_POSITIVE_FLOW", bilateral |-> "NOT_APPLICABLE"]
    ELSE LET row == CHOOSE row \in provisional : row.market = market
         IN  [market |-> "RECORDED",
              bilateral |-> IF row.selected = Null THEN "NO_RECORDED_POSITIVE_FLOW" ELSE "RECORDED"]
-----------------------------------------------------------------------------
\* resolveReleaseRevisionComparisonIdentity: why the scores of two releases are
\* not compared, or Null.
NotComparedReason(now, before) ==
    IF before = Null THEN "NO_PREVIOUS_ARTIFACT"
    ELSE IF \/ before.name = now.name \/ before.revision # now.revision
            \/ before.version # now.version \/ before.window # now.window
         THEN "NO_COMPATIBLE_PREVIOUS_ARTIFACT"
    ELSE IF ~(now.window.start..now.window.end \subseteq before.years)
         THEN "PREVIOUS_ARTIFACT_MISSING_SCORE_WINDOW"
    ELSE Null

\* A change of ten points of the score, or of fifteen of the rank percentile.
IsMaterial(now, before) ==
    LET points == now.score - before.score
        moved == now.rankPercentile.at * before.rankPercentile.of - before.rankPercentile.at * now.rankPercentile.of
        limit == 15 * now.rankPercentile.of * before.rankPercentile.of
    IN  points \notin -9..9 \/ moved >= limit \/ -moved >= limit

Revision(state, change) == [state |-> state, change |-> change]

CompareReleaseRevisions(now, before) ==
    LET reason == NotComparedReason(now, before)
    IN  IF reason # Null
        THEN [reason |-> reason, gone |-> Null,
              release |-> IF reason = "PREVIOUS_ARTIFACT_MISSING_SCORE_WINDOW" THEN before.name ELSE Null,
              candidates |-> [m \in DOMAIN now.candidates |-> Revision("NOT_COMPARED", Null)]]
        ELSE [reason |-> Null,
              gone |-> Cardinality(DOMAIN before.candidates \ DOMAIN now.candidates),
              release |-> before.name,
              candidates |-> [m \in DOMAIN now.candidates |->
                  IF m \notin DOMAIN before.candidates THEN Revision("NEWLY_ELIGIBLE", Null)
                  ELSE Revision(IF IsMaterial(now.candidates[m], before.candidates[m])
                                THEN "MATERIAL_CHANGE" ELSE "BELOW_THRESHOLD",
                                now.candidates[m].score - before.candidates[m].score)]]
-----------------------------------------------------------------------------
Snapshot(release, cutoff, candidates) ==
    [name |-> release.name, revision |-> release.revision, version |-> "cms-v1",
     window |-> Window(cutoff - 4, cutoff), years |-> release.years,
     candidates |-> [m \in {c.market : c \in candidates} |->
                        LET c == CHOOSE c \in candidates : c.market = m
                        IN  [score |-> c.score, rankPercentile |-> c.rankPercentile]]]

\* computeCmsV1 throws on an inconsistent row of its windows and on a year
\* without trade between years with trade.
Computable(rows, totals, cutoff) ==
    /\ \A row \in rows : row.year \in (cutoff - 9)..cutoff => RowIsConsistent(row)
    /\ Contiguous(DOMAIN totals)

ScoreContext(release, primary, alternates) ==
    [stability |-> {CompareWindowRanks(primary, alternate) : alternate \in alternates},
     cohort |-> Cardinality(primary),
     discontinuity |-> DiscontinuityYears(release.totals), dominant |-> DominantCandidate(primary),
     history |-> \E c \in primary : c.flow = "RECORDED"]

Described(release, before, window, primary, snapshot, context) ==
    [error |-> Null, window |-> window, before |-> before, snapshot |-> snapshot,
     revision |-> CompareReleaseRevisions(snapshot, before),
     candidates |-> {c @@ [confidence |-> Confidence(c, window, context),
                           caveats |-> CaveatCodes(c, context),
                           provisional |-> ProvisionalEvidence(release.provisional, c.market)] : c \in primary}]

\* The last five years; over three and ten years for the stability of the ranks.
Analysed(release, before, primary) ==
    LET alternates == {ComputeWindow(release.rows, Window(release.cutoff - back, release.cutoff)) : back \in {2, 9}}
    IN  Described(release, before, Window(release.cutoff - 4, release.cutoff), primary,
                  Snapshot(release, release.cutoff, primary), ScoreContext(release, primary, alternates))

ComputeCmsV1(release, before) ==
    Analysed(release, before, ComputeWindow(release.rows, Window(release.cutoff - 4, release.cutoff)))

\* loadPreviousArtifact: the previous release is scored over the window of the
\* current one, its provisional year included; an exporter or a product that it
\* does not know had no candidates.
LoadPreviousArtifact(before, cutoff) ==
    Snapshot(before, cutoff,
        IF before.known THEN ComputeWindow(before.rows \cup before.provisional, Window(cutoff - 4, cutoff)) ELSE {})

PreviousArtifact(now, before) ==
    IF before = Null THEN Null
    ELSE IF before.name = now.name THEN Snapshot(before, now.cutoff, {})
    ELSE LoadPreviousArtifact(before, now.cutoff)

PreviousFails(now, before) ==
    /\ before # Null
    /\ before.name # now.name /\ before.known
    /\ ~Computable(before.rows \cup before.provisional, before.totals, now.cutoff)

Init == current \in Releases /\ previous \in PreviousReleases \cup {Null} /\ answer = Null

Execute ==
    /\ answer = Null
    /\ answer' = IF ~current.known THEN [error |-> "unknown"]
                 ELSE IF \/ PreviousFails(current, previous)
                         \/ ~Computable(current.rows, current.totals, current.cutoff)
                 THEN [error |-> "failed"]
                 ELSE ComputeCmsV1(current, PreviousArtifact(current, previous))
    /\ UNCHANGED <<current, previous>>

Next == Execute
-----------------------------------------------------------------------------
Answered == answer # Null /\ answer.error = Null

\* Percentiles are fair to every candidate: their mean over those with a value
\* is the middle, and who is nowhere behind another is not ranked behind it.
\* The ranks with their ties are the places of the cohort.
RanksFollowTheEvidence ==
    LET all == answer.candidates
        Known(key) == {c \in all : c[key] # Null}
        NowhereBehind(a, b) == \A key \in Components : ~Lower(a.percentiles[key], b.percentiles[key])
    IN  /\ \A key \in Components :
               SumOver(Known(key), LAMBDA c : c.percentiles[key].at) = Cardinality(Known(key))^2
        /\ \A key \in Components : \A a, b \in Known(key) :
               Lower(a[key], b[key]) <=> Lower(a.percentiles[key], b.percentiles[key])
        /\ \A a, b \in all : NowhereBehind(a, b) => a.rank <= b.rank
        /\ \A a, b \in all : a.rank < b.rank => a.rank + a.tie <= b.rank
        /\ \A c \in all : Cardinality({a \in all : a.rank = c.rank}) = c.tie
        /\ SumOver(all, LAMBDA c : c.rankPercentile.at) = 50 * SumOver(all, LAMBDA c : c.rankPercentile.of)

\* High confidence is of at least three years, the cutoff year one of them.
ConfidenceIsEarned ==
    \A c \in answer.candidates :
        c.confidence.label = "HIGH" => Cardinality(c.years) >= 3 /\ answer.window.end \in c.years

\* A comparison accounts for every candidate of both releases, and is its own
\* opposite when the releases change places.
RevisionsAddUp ==
    LET r == answer.revision
        In(states) == {m \in DOMAIN r.candidates : r.candidates[m].state \in states}
        back == CompareReleaseRevisions(answer.before, answer.snapshot)
    IN  r.reason = Null =>
            /\ Cardinality(DOMAIN answer.before.candidates)
                   = Cardinality(In({"MATERIAL_CHANGE", "BELOW_THRESHOLD"})) + r.gone
            /\ back.gone = Cardinality(In({"NEWLY_ELIGIBLE"}))
            /\ \A m \in DOMAIN r.candidates \cap DOMAIN back.candidates :
                   /\ r.candidates[m].state = back.candidates[m].state
                   /\ r.candidates[m].change = -back.candidates[m].change

\* A release with the same evidence for the window of the score is no revision.
SameEvidenceIsNoRevision ==
    LET InWindow(rows) == {row \in rows : row.year \in answer.window.start..answer.window.end}
    IN  previous # Null /\ answer.revision.reason = Null =>
            (InWindow(previous.rows \cup previous.provisional) = InWindow(current.rows) /\ previous.known
             => /\ answer.revision.gone = 0
                /\ \A m \in DOMAIN answer.revision.candidates :
                       answer.revision.candidates[m] = Revision("BELOW_THRESHOLD", 0))

ScoresAreSound ==
    Answered => RanksFollowTheEvidence /\ ConfidenceIsEarned /\ RevisionsAddUp /\ SameEvidenceIsNoRevision
=============================================================================
