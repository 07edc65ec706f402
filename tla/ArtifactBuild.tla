--------------------------- MODULE ArtifactBuild ---------------------------
(***************************************************************************)
(* The analysis artifact (scripts/release/analysis-artifact.ts): the       *)
(* accepted staging is read into six tables, the tables are reconciled     *)
(* with the totals of the source, benchmark queries are selected and run,  *)
(* and the artifact is published in a directory of its own, then its       *)
(* report.  A run may die at every step.                                   *)
(*                                                                         *)
(* Economies, products and years are numbers.  A table is a set of rows or *)
(* a function from its key; only the columns the checks and the later      *)
(* readers use are kept.                                                   *)
(***************************************************************************)
EXTENDS Integers, Sequences, FiniteSets, SequencesExt, FiniteSetsExt

CONSTANTS Null,
          Inputs,       \* the staging directories a run may be given
          Times,        \* builtAt
          Pids,
          MaxRuns       \* bound on the runs

VARIABLES input,        \* the staging directory, with its manifest and report
          published,    \* artifacts/<sha256>, or Null
          report,       \* the report at reportPath, or Null
          temporary,    \* the pids whose temporary report was left behind
          run, runs

vars == <<input, published, report, temporary, run, runs>>

Idle == [step |-> "idle"]
Sum(rows, Of(_)) == MapThenSumSet(Of, rows)
Value(row) == row.value
Present(rows) == {row \in rows : row.quantity # Null}
InYear(rows, year) == {row \in rows : row.year = year}

\* validateStagingInput: manifest and report name each other, every file has its
\* identity, and both count the same rows.
ValidStagingInput(i) ==
    /\ i.reportSource = i.source
    /\ i.intact
    /\ Sum(DOMAIN i.checks, LAMBDA y : i.checks[y].rows) = i.rowCount
-----------------------------------------------------------------------------
\* populateArtifactTables.  A trade row is joined to its product.
Joined(i) == {row \in i.rows : row.product \in i.products}
MarketKeys(i) == {<<row.year, row.product, row.importer>> : row \in Joined(i)}
Of(rows, key) ==
    {row \in rows : row.year = key[1] /\ row.product = key[2] /\ row.importer = key[3]}
MarketYear(i) ==
    [key \in MarketKeys(i) |->
        LET rows == Of(Joined(i), key) IN
        [world |-> Sum(rows, Value), suppliers |-> Cardinality(rows),
         present |-> Cardinality(Present(rows)),
         quantity |-> Sum(Present(rows), LAMBDA row : row.quantity)]]
ProductYear(i) ==
    [key \in {<<k[1], k[2]>> : k \in MarketKeys(i)} |->
        Sum({k \in MarketKeys(i) : <<k[1], k[2]>> = key}, LAMBDA k : MarketYear(i)[k].world)]
PopulateArtifactTables(i) ==
    [products |-> i.products, economies |-> i.economies, kind |-> i.kind,
     bilateral |-> Joined(i), market |-> MarketYear(i), product |-> ProductYear(i),
     traded |-> {row.exporter : row \in Joined(i)} \cup {row.importer : row \in Joined(i)}]

\* reconcileArtifact: the tables hold as many rows as were staged, and the totals of
\* every year, taken from each of the three tables, are those of the source.
Reconciled(i, t) ==
    /\ Cardinality(t.bilateral) = i.rowCount
    /\ Cardinality(t.products) = i.productCount
    /\ Cardinality(t.economies) = i.economyCount
    /\ {row.year : row \in t.bilateral} = DOMAIN i.checks
    /\ \A y \in DOMAIN i.checks :
          LET markets == {k \in DOMAIN t.market : k[1] = y}
              check == i.checks[y]
          IN /\ Cardinality(InYear(t.bilateral, y)) = check.rows
             /\ Sum(InYear(t.bilateral, y), Value) = check.value
             /\ Sum(markets, LAMBDA k : t.market[k].world) = check.value
             /\ Sum({k \in DOMAIN t.product : k[1] = y}, LAMBDA k : t.product[k]) = check.value
             /\ Sum(markets, LAMBDA k : t.market[k].present) = check.present
             /\ Sum(markets, LAMBDA k : t.market[k].quantity) = check.quantity
-----------------------------------------------------------------------------
\* selectBenchmarkQueries: what can be asked is ordered by the number of its rows and
\* then by its code, and four roles are taken from it.
Roles == {"sparse", "median", "upper-quartile", "maximum-row"}
IndexOf(role, n) ==
    1 + CASE role = "sparse" -> 0
          [] role = "median" -> (n - 1) \div 2
          [] role = "upper-quartile" -> (3 * (n - 1)) \div 4
          [] role = "maximum-row" -> n - 1
Before(a, b) == \E n \in DOMAIN a : a[n] < b[n] /\ \A m \in 1..(n - 1) : a[m] = b[m]
Ordered(keys, Count(_)) ==
    SetToSortSeq(keys, LAMBDA a, b : Before(<<Count(a)>> \o a, <<Count(b)>> \o b))
Selected(keys, Count(_)) ==
    LET ordered == Ordered(keys, Count) IN
    [role \in Roles |-> ordered[IndexOf(role, Len(ordered))]]

Windowed(i, t) == {row \in t.bilateral : row.year \in i.window}
Individual(t, economy) == t.kind[economy] = "ECONOMY"

\* Candidate Market: the products with a row in the score window, by all their
\* rows; for each, the exporter with the most rows in the window.
ProductKeys(i, t) == {<<row.product>> : row \in Windowed(i, t)}
ExportersOf(i, t, product) ==
    {row.exporter : row \in {r \in Windowed(i, t) : r.product = product /\ Individual(t, r.exporter)}}
TopExporter(i, t, product) ==
    LET Rows(e) == Cardinality({row \in Windowed(i, t) : row.product = product /\ row.exporter = e})
    IN CHOOSE e \in ExportersOf(i, t, product) :
          \A f \in ExportersOf(i, t, product) : Before(<<-Rows(e), e>>, <<-Rows(f), f>>) \/ e = f
CandidateMarketQueries(i, t) ==
    [role \in Roles |->
        LET product == Selected(ProductKeys(i, t),
                                LAMBDA k : Cardinality({row \in t.bilateral : row.product = k[1]}))[role][1]
        IN <<TopExporter(i, t, product), product>>]

\* Trade Trend: the importers, by their market years in the window and the
\* provisional year.
TrendYears(i, t) ==
    {k \in DOMAIN t.market : k[1] \in i.window \cup {i.provisional} /\ Individual(t, k[3])}
TradeTrendQueries(i, t) ==
    Selected({<<k[3]>> : k \in TrendYears(i, t)},
             LAMBDA c : Cardinality({k \in TrendYears(i, t) : k[3] = c[1]}))

\* Supplier Competition: the importer and product pairs, by their suppliers.
PairKeys(i, t) ==
    {<<row.importer, row.product>> : row \in {r \in Windowed(i, t) : Individual(t, r.importer)}}
SupplierQueries(i, t) ==
    Selected(PairKeys(i, t),
             LAMBDA c : Cardinality({row.exporter : row \in
                            {r \in Windowed(i, t) : <<r.importer, r.product>> = c}}))

\* Trade Explorer: exporter, importer and product, by their rows.
FlowKeys(i, t) ==
    {<<row.exporter, row.importer, row.product>> :
        row \in {r \in Windowed(i, t) : Individual(t, r.exporter) /\ Individual(t, r.importer)}}
ExplorerQueries(i, t) ==
    Selected(FlowKeys(i, t),
             LAMBDA c : Cardinality({r \in Windowed(i, t) : <<r.exporter, r.importer, r.product>> = c}))

\* There is something to select from, for each of the four.
Benchmarkable(i, t) ==
    /\ ProductKeys(i, t) # {} /\ \A k \in ProductKeys(i, t) : ExportersOf(i, t, k[1]) # {}
    /\ TrendYears(i, t) # {} /\ PairKeys(i, t) # {} /\ FlowKeys(i, t) # {}
SelectBenchmarkQueries(i, t) ==
    [candidate |-> CandidateMarketQueries(i, t), trend |-> TradeTrendQueries(i, t),
     supplier |-> SupplierQueries(i, t), explorer |-> ExplorerQueries(i, t)]
-----------------------------------------------------------------------------
Init ==
    /\ input \in Inputs
    /\ published = Null /\ report = Null /\ temporary = {} /\ run = Idle /\ runs = 0

\* buildAnalysisArtifact, to the reconciled partial file of this pid.
Build(pid, builtAt) ==
    LET tables == PopulateArtifactTables(input) IN
    /\ run.step = "idle" /\ runs < MaxRuns
    /\ runs' = runs + 1
    /\ run' = IF ValidStagingInput(input) /\ Reconciled(input, tables)
              THEN [step |-> "benchmark", pid |-> pid, builtAt |-> builtAt, tables |-> tables]
              ELSE Idle
    /\ UNCHANGED <<input, published, report, temporary>>

\* The benchmark queries are selected and run; the partial artifact is removed when
\* there is none for a recipe or one of them fails.
Benchmark(succeeds) ==
    /\ run.step = "benchmark"
    /\ run' = IF Benchmarkable(input, run.tables) /\ succeeds
              THEN [step |-> "prepare", pid |-> run.pid, tables |-> run.tables,
                    manifest |-> [builtAt |-> run.builtAt,
                                  benchmarks |-> SelectBenchmarkQueries(input, run.tables)]]
              ELSE Idle
    /\ UNCHANGED <<input, published, report, temporary, runs>>

\* prepareExternalReport: a temporary report left by this pid fails the run, which
\* removes it.
Prepare ==
    /\ run.step = "prepare"
    /\ IF run.pid \in temporary
       THEN temporary' = temporary \ {run.pid} /\ run' = Idle
       ELSE temporary' = temporary \cup {run.pid} /\ run' = [run EXCEPT !.step = "publish"]
    /\ UNCHANGED <<input, published, report, runs>>

\* publishArtifact: the whole directory is renamed, or found to be there already with
\* the same artifact and manifest; the time of the build is part of the manifest.
PublishArtifact ==
    LET mine == [tables |-> run.tables, manifest |-> run.manifest] IN
    /\ run.step = "publish"
    /\ IF published \in {Null, mine}
       THEN published' = mine /\ run' = [run EXCEPT !.step = "commit"] /\ UNCHANGED temporary
       ELSE temporary' = temporary \ {run.pid} /\ run' = Idle /\ UNCHANGED published
    /\ UNCHANGED <<input, report, runs>>

\* The report is renamed into place.
Commit ==
    /\ run.step = "commit"
    /\ report' = run.manifest
    /\ temporary' = temporary \ {run.pid}
    /\ run' = Idle
    /\ UNCHANGED <<input, published, runs>>

Crash ==
    /\ run.step # "idle" /\ run' = Idle
    /\ UNCHANGED <<input, published, report, temporary, runs>>

Next ==
    \/ \E pid \in Pids, builtAt \in Times : Build(pid, builtAt)
    \/ \E succeeds \in BOOLEAN : Benchmark(succeeds)
    \/ Prepare \/ PublishArtifact \/ Commit \/ Crash
-----------------------------------------------------------------------------
\* A published artifact holds every staged row, its market totals add up to the
\* flows, every benchmark it names has evidence, and the report is its report.
ArtifactIsWhole ==
    published # Null =>
        LET t == published.tables
            asked == published.manifest.benchmarks
        IN /\ t.bilateral = input.rows
           /\ \A row \in input.rows :
                 t.market[<<row.year, row.product, row.importer>>].world >= row.value
           /\ \A role \in Roles :
                 /\ \E row \in t.bilateral : /\ <<row.exporter, row.product>> = asked.candidate[role]
                                              /\ row.year \in input.window
                 /\ \E row \in t.bilateral : <<row.importer>> = asked.trend[role]
                 /\ \E row \in t.bilateral : <<row.importer, row.product>> = asked.supplier[role]
                 /\ \E row \in t.bilateral :
                       <<row.exporter, row.importer, row.product>> = asked.explorer[role]
           /\ report # Null => report = published.manifest
=============================================================================
