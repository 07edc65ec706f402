---------------------------- MODULE EurostatBuild ----------------------------
(***************************************************************************)
(* build-real-eurostat-momentum-package.ts: the momentum package of one    *)
(* cutoff month from Eurostat's monthly files and the pinned nomenclature  *)
(* (eurostat-cn-hs12-evidence.ts).  A run empties the cutoff's workspace,  *)
(* aggregates the files, publishes a directory and then writes a report;   *)
(* only the report, and the exit code, tell a package that does not        *)
(* reconcile.                                                              *)
(*                                                                         *)
(* files[month] is the file of a month, a set of rows [period, reporter,   *)
(* partner, import, code, value], numbered by "line"; value is Null when it    *)
(* is no integer.                                                          *)
(* Lists[year] is the sequence of an edition's codes and Tables[year] the  *)
(* sequence of its pairs <<code, product>>.  The process may stop between  *)
(* any two file operations.                                                *)
(***************************************************************************)
EXTENDS RecipeArithmetic

CONSTANTS Cutoffs, FilesOf, Lists, Tables, Special, Reporters, Anonymous, Extraction, MaxRuns, Null

VARIABLES
    workspace,  \* for each cutoff its published packages and its report
    run,        \* the run under way, or Null
    refused,    \* whether the last run ended with an error
    runs
vars == <<workspace, run, refused, runs>>
-----------------------------------------------------------------------------
\* Codes of chapters 98 and 99 are special; every correspondence is exact, and
\* one that names no code of the list is an error.
BuildEditionEvidence(year) ==
    [codes |-> [i \in DOMAIN Lists[year] |->
                   [code |-> Lists[year][i], kind |-> IF Lists[year][i] \in Special THEN "SPECIAL" ELSE "ORDINARY"]],
     correspondences |-> {[code |-> pair[1], product |-> pair[2], status |-> "EXACT_REVIEWED",
                           chain |-> "DIRECT_EXACT", qualified |-> FALSE] : pair \in Range(Tables[year])}]

WindowPeriods(cutoff) == HistoryMonths(cutoff)
EditionYears(cutoff) == {Year(month) : month \in WindowPeriods(cutoff)}

\* A month is final from October (the tenth, ninth from zero) of the year after.
UpdateStateFor(period, extraction) ==
    IF \/ Year(extraction) > Year(period) + 1
       \/ Year(extraction) = Year(period) + 1 /\ extraction % 12 >= 9
    THEN "FINAL_BY_SOURCE_SCHEDULE" ELSE "PRELIMINARY"

EligibleProductsAcrossEditions(mappings, years) ==
    {product \in {p.product : p \in UNION {mappings[year].products : year \in DOMAIN mappings}} :
        ExactAcrossEditions(mappings, product, years)}

\* Triples of edition, code and product.
AcceptedCn8Rows(mappings, years, eligible) ==
    UNION {{<<year, code, p.product>> : code \in p.accepted} :
              <<year, p>> \in {<<y, q>> \in years \X UNION {mappings[year].products : year \in years} :
                                  q \in mappings[y].products /\ q.exact /\ q.product \in eligible}}

\* The rows of the files that join the allowlist and an accepted code, imports
\* with an integer value, each with its product.
Joined(rows, accepted) ==
    {[row |-> row, product |-> a[3]] : <<row, a>> \in
        {<<r, a>> \in rows \X accepted :
            /\ r.reporter \in Reporters
            /\ a[1] = Year(r.period) /\ a[2] = r.code
            /\ r.import /\ r.value # Null}}

Individual(joined) == {j \in joined : j.row.partner \notin Anonymous}

Sum(joined) == MapThenSumSet(LAMBDA j : j.row.value, joined)

\* market_month_agg: by period, reporter and product.
AggregateEligibleMarketMonths(joined) ==
    LET keys == {<<j.row.period, j.row.reporter, j.product>> : j \in Individual(joined)}
    IN  [key \in keys |->
            LET of == {j \in Individual(joined) : <<j.row.period, j.row.reporter, j.product>> = key}
            IN  [value |-> Sum(of), partners |-> Cardinality({j.row.partner : j \in of})]]

Observations(cutoff, marketMonths, market) ==
    [period \in WindowPeriods(cutoff) |->
        LET key == <<period, market[1], market[2]>>
            bucket == IF key \in DOMAIN marketMonths THEN marketMonths[key].value ELSE 0
        IN  [state |-> IF key \notin DOMAIN marketMonths THEN "NOT_OBSERVED"
                       ELSE IF bucket > 0 THEN "RECORDED_POSITIVE" ELSE "RECORDED_ZERO",
             value |-> bucket, update |-> UpdateStateFor(period, Extraction), chain |-> "DIRECT_EXACT"]]

Momentum(cutoff, marketMonths, products) ==
    [market \in Reporters \X products |->
        ComputeRecentTradeMomentumV1(cutoff, "SUPPORTED", TRUE, WindowPeriods(cutoff),
                                     Observations(cutoff, marketMonths, market), FALSE)]

\* The artifact's market months are those of the window: rows of another period
\* in a file are aggregated and then dropped.
SumMarketMonthValue(cutoff, marketMonths) ==
    MapThenSumSet(LAMBDA key : marketMonths[key].value,
                  {key \in DOMAIN marketMonths : key[1] \in WindowPeriods(cutoff)})

\* Against the momentum of the package given as the previous one.
BuildRevisionReport(momentum, before) ==
    LET common == IF before = Null THEN {} ELSE DOMAIN momentum \cap DOMAIN before.momentum
        revalued == {m \in common : momentum[m].recent # before.momentum[m].recent}
        restated == {m \in common : momentum[m].signal # before.momentum[m].signal}
    IN  [previous |-> IF before = Null THEN Null ELSE before.id,
         valueChanged |-> Cardinality(revalued), stateChanged |-> Cardinality(restated),
         affected |-> revalued \cup restated]

\* Identical inputs have one identity; the rows of the files are part of it.
PackageOf(cutoff, files, before) ==
    LET years == EditionYears(cutoff)
        mappings == BuildCnToHs12MappingReport([year \in years |-> BuildEditionEvidence(year)])
        products == EligibleProductsAcrossEditions(mappings, years)
        joined == Joined(UNION {files[month] : month \in WindowPeriods(cutoff)},
                         AcceptedCn8Rows(mappings, years, products))
        marketMonths == AggregateEligibleMarketMonths(joined)
        momentum == Momentum(cutoff, marketMonths, products)
    IN  [id |-> <<cutoff, files>>, momentum |-> momentum, marketMonths |-> marketMonths,
         source |-> Sum(Individual(joined)), excluded |-> Sum(joined \ Individual(joined)),
         aggregate |-> SumMarketMonthValue(cutoff, marketMonths),
         revision |-> BuildRevisionReport(momentum, before)]
-----------------------------------------------------------------------------
Empty == [packages |-> {}, report |-> Null]

Init ==
    /\ workspace = [cutoff \in Cutoffs |-> Empty]
    /\ run = Null /\ refused = FALSE /\ runs = 0

Packages == UNION {workspace[cutoff].packages : cutoff \in Cutoffs}

\* The previous package is named by its directory: a cutoff and an identity.
Start(cutoff, files) ==
    /\ run = Null /\ runs < MaxRuns
    /\ \E previous \in {Null} \cup {<<c, p>> \in Cutoffs \X Packages : p \in workspace[c].packages} :
        run' = [cutoff |-> cutoff, files |-> files, previous |-> previous, step |-> "reading", package |-> Null]
    /\ refused' = FALSE /\ runs' = runs + 1
    /\ UNCHANGED workspace

\* The editions are read and checked, and every file of the window must exist.
Readable ==
    /\ \A year \in EditionYears(run.cutoff) :
        year \in DOMAIN Lists /\ ValidateEdition(BuildEditionEvidence(year))
    /\ WindowPeriods(run.cutoff) \subseteq DOMAIN run.files

Refuse ==
    /\ run # Null /\ run.step = "reading" /\ ~Readable
    /\ run' = Null /\ refused' = TRUE
    /\ UNCHANGED <<workspace, runs>>

\* The workspace of the cutoff is emptied, packages and report alike.
ClearWorkspace ==
    /\ run # Null /\ run.step = "reading" /\ Readable
    /\ workspace' = [workspace EXCEPT ![run.cutoff] = Empty]
    /\ run' = [run EXCEPT !.step = "staging"]
    /\ UNCHANGED <<refused, runs>>

\* Staging, the artifact and the reports; a previous package that is not there
\* (any more) counts as none.
Build ==
    /\ run # Null /\ run.step = "staging"
    /\ LET there == run.previous # Null /\ run.previous[2] \in workspace[run.previous[1]].packages
       IN  run' = [run EXCEPT !.step = "built",
                       !.package = PackageOf(run.cutoff, run.files, IF there THEN run.previous[2] ELSE Null)]
    /\ UNCHANGED <<workspace, refused, runs>>

Publish ==
    /\ run # Null /\ run.step = "built"
    /\ workspace' = [workspace EXCEPT ![run.cutoff].packages = @ \cup {run.package}]
    /\ run' = [run EXCEPT !.step = "published"]
    /\ UNCHANGED <<refused, runs>>

WriteReport ==
    /\ run # Null /\ run.step = "published"
    /\ LET reconciled == run.package.source = run.package.aggregate
       IN  /\ workspace' = [workspace EXCEPT ![run.cutoff].report =
                               [of |-> run.package.id, status |-> IF reconciled THEN "accepted" ELSE "blocked"]]
           /\ refused' = ~reconciled
    /\ run' = Null
    /\ UNCHANGED runs

Crash ==
    /\ run # Null
    /\ run' = Null /\ refused' = TRUE
    /\ UNCHANGED <<workspace, runs>>

Next ==
    \/ \E cutoff \in Cutoffs : \E files \in FilesOf : Start(cutoff, files)
    \/ Refuse \/ ClearWorkspace \/ Build \/ Publish \/ WriteReport \/ Crash
-----------------------------------------------------------------------------
\* A report is about a package that is there; one that accepts it says that no
\* euro was lost or counted for two products; anonymous partners change no
\* momentum; and no package names one of its own cutoff as previous, whose
\* workspace the run has emptied.
AcceptedIsIdentifiedTrade ==
    LET rows(p) == UNION {p.id[2][month] : month \in DOMAIN p.id[2]}
        named(p) == [month \in DOMAIN p.id[2] |-> {row \in p.id[2][month] : row.partner \notin Anonymous}]
    IN  /\ \A cutoff \in Cutoffs :
            LET w == workspace[cutoff]
            IN  /\ w.report # Null => \E p \in w.packages : p.id = w.report.of
                /\ w.report # Null /\ w.report.status = "accepted" =>
                    \A p \in w.packages :
                        /\ p.aggregate = p.source
                        /\ p.source + p.excluded <= MapThenSumSet(LAMBDA row : row.value,
                                {row \in rows(p) : row.import /\ row.value # Null})
                /\ \A p \in w.packages : p.revision.previous # Null => p.revision.previous[1] # cutoff
        /\ \A p \in Packages : p.momentum = PackageOf(p.id[1], named(p), Null).momentum
=============================================================================
