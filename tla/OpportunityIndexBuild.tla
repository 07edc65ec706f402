------------------------ MODULE OpportunityIndexBuild ------------------------
(***************************************************************************)
(* The opportunity index (scripts/release/opportunity-index.ts): the       *)
(* market universe of the ten-year window is loaded once; for one exporter *)
(* after the other its flows are laid over the shared markets, its cohort  *)
(* is computed and appended, and the next exporter undoes the overlay of   *)
(* the one before.  The finished index is reconciled with the artifact and *)
(* replaces the publication.                                               *)
(***************************************************************************)
EXTENDS Integers, Sequences, FiniteSets, SequencesExt, FiniteSetsExt

CONSTANTS Null,
          Flows,        \* the bilateral flows of the artifact: [year, exporter, importer, product, value]
          Kind,         \* the kind of every economy
          Window5,      \* the years that are scored
          Window10,     \* the years that are loaded
          MaxRuns       \* bound on the runs

VARIABLES flows,        \* bilateral_year of the artifact the run reads
          overlay,      \* market year -> the value of the exporter laid over it, or Null
          touched,      \* the market years the last exporter touched
          left,         \* the exporters still to come
          rows,         \* what was appended: a sequence of index rows
          published,    \* the published index, or Null
          report,
          step, runs

vars == <<flows, overlay, touched, left, rows, published, report, step, runs>>

Row(flow) == <<flow.product, flow.importer, flow.year>>
\* loadSharedInputs: the market years of the window, without bilateral values, and
\* the individual economies that trade, in the order of their codes.
Universe(f) == {Row(flow) : flow \in {g \in f : g.year \in Window10}}
EligibleExporters(f) ==
    SetToSortSeq({e \in DOMAIN Kind : /\ Kind[e] = "ECONOMY"
                                      /\ \E flow \in f : e \in {flow.exporter, flow.importer}}, <)
\* assertCoverage: no year of the window is without a market.
Covered(f) == Window10 \subseteq {flow.year : flow \in f}

\* Fault: the overlay of the exporter before stays.
OverlaidMore(exporter) ==
    [key \in DOMAIN overlay |->
        LET own == {flow \in flows : flow.exporter = exporter /\ Row(flow) = key}
        IN IF own # {} THEN (CHOOSE flow \in own : TRUE).value ELSE overlay[key]]
\* What the last exporter touched is reset; then applyExporterOverlay.
Overlaid(exporter) ==
    [key \in DOMAIN overlay |->
        LET own == {flow \in flows : flow.exporter = exporter /\ Row(flow) = key}
        IN CASE own # {} -> (CHOOSE flow \in own : TRUE).value
             [] own = {} /\ key \in touched -> Null
             [] OTHER -> overlay[key]]

\* computeOpportunityCohort, as far as the index depends on it: a row for every
\* product and market of the scored years but the exporter's own, with the exporter's
\* value there.
Pairs(f, exporter) ==
    {<<flow.product, flow.importer>> :
        flow \in {g \in f : g.year \in Window5 /\ g.importer # exporter}}
ValueOf(over, pair) ==
    MapThenSumSet(LAMBDA key : IF over[key] = Null THEN 0 ELSE over[key],
                  {key \in DOMAIN over : <<key[1], key[2]>> = pair /\ key[3] \in Window5})
Cohort(over, exporter) ==
    {[exporter |-> exporter, product |-> pair[1], importer |-> pair[2], value |-> ValueOf(over, pair)] :
        pair \in {<<key[1], key[2]>> : key \in {k \in DOMAIN over : k[3] \in Window5 /\ k[2] # exporter}}}
-----------------------------------------------------------------------------
Init ==
    /\ flows \in Flows
    /\ overlay = << >> /\ touched = {} /\ left = << >> /\ rows = << >>
    /\ published = Null /\ report = Null /\ step = "idle" /\ runs = 0

\* buildOpportunityIndex up to the first exporter: the partial file is this run's own.
Start ==
    /\ step = "idle" /\ runs < MaxRuns /\ runs' = runs + 1
    /\ overlay' = [key \in Universe(flows) |-> Null]
    /\ left' = EligibleExporters(flows)
    /\ touched' = {} /\ rows' = << >>
    /\ step' = IF Covered(flows) THEN "populate" ELSE "idle"
    /\ UNCHANGED <<flows, published, report>>

\* populateIndex, one exporter: reset, overlay, compute, append.
Populate ==
    LET exporter == Head(left) IN
    /\ step = "populate" /\ left # << >>
    /\ overlay' = Overlaid(exporter)
    /\ touched' = {Row(flow) : flow \in {g \in flows : g.exporter = exporter /\ g.year \in Window10}}
    /\ rows' = rows \o SetToSeq(Cohort(Overlaid(exporter), exporter))
    /\ left' = Tail(left)
    /\ UNCHANGED <<flows, published, report, step, runs>>

\* reconcileIndex: no key twice, and for every exporter as many rows as an independent
\* count of the eligible pairs.
Reconciled ==
    /\ \A m, n \in DOMAIN rows :
          (m # n) => <<rows[m].exporter, rows[m].product, rows[m].importer>>
                      # <<rows[n].exporter, rows[n].product, rows[n].importer>>
    /\ \A e \in ToSet(EligibleExporters(flows)) :
          Len(SelectSeq(rows, LAMBDA row : row.exporter = e)) = Cardinality(Pairs(flows, e))

\* The artifact is hashed again; too large an index, or an artifact that has changed,
\* ends the run.
Reconcile(unchanged) ==
    /\ step = "populate" /\ left = << >>
    /\ step' = IF Reconciled /\ unchanged THEN "remove" ELSE "idle"
    /\ UNCHANGED <<flows, overlay, touched, left, rows, published, report, runs>>

\* publishIndex: the publication of the same identity is removed, the new directory
\* renamed in its place, the report written.
RemovePublished ==
    /\ step = "remove" /\ step' = "rename" /\ published' = Null
    /\ UNCHANGED <<flows, overlay, touched, left, rows, report, runs>>
PublishIndex ==
    /\ step = "rename" /\ step' = "report" /\ published' = rows
    /\ UNCHANGED <<flows, overlay, touched, left, rows, report, runs>>
WriteReport ==
    /\ step = "report" /\ step' = "idle" /\ report' = Len(rows)
    /\ UNCHANGED <<flows, overlay, touched, left, rows, published, runs>>

Crash ==
    /\ step # "idle" /\ step' = "idle"
    /\ UNCHANGED <<flows, overlay, touched, left, rows, published, report, runs>>

Next ==
    \/ Start \/ Populate
    \/ \E unchanged \in BOOLEAN : Reconcile(unchanged)
    \/ RemovePublished \/ PublishIndex \/ WriteReport \/ Crash
-----------------------------------------------------------------------------
\* selectBenchmarkExporters: the exporters at four places of the order by cohort size.
BenchmarkExporters(sizes) ==
    LET sorted == SortSeq(sizes, <=)
        At(n, of) == sorted[1 + (2 * n * (Len(sizes) - 1) + of) \div (2 * of)]
    IN <<sorted[1], At(1, 2), At(3, 4), Last(sorted)>>

\* A published index holds, for every exporter, every eligible pair once, with the
\* value of that exporter's own flows and of no other's.
IndexIsWhole ==
    published # Null =>
        /\ \A e \in ToSet(EligibleExporters(flows)) :
              {<<row.product, row.importer>> : row \in {r \in ToSet(published) : r.exporter = e}}
                  = Pairs(flows, e)
        /\ \A row \in ToSet(published) :
              row.value = MapThenSumSet(LAMBDA flow : flow.value,
                              {flow \in flows : /\ flow.exporter = row.exporter
                                                /\ flow.year \in Window5
                                                /\ Row(flow) = <<row.product, row.importer, flow.year>>})
        /\ LET sizes == [n \in 1..Len(EligibleExporters(flows)) |->
                            Cardinality(Pairs(flows, EligibleExporters(flows)[n]))]
           IN \A n \in 1..3 : BenchmarkExporters(sizes)[n] <= BenchmarkExporters(sizes)[n + 1]
=============================================================================
