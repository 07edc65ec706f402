--------------------------- MODULE SourceStaging ---------------------------
(***************************************************************************)
(* Staging of a pinned BACI release (scripts/release/                      *)
(* baci-source-staging.ts): a run downloads the archive the descriptor     *)
(* pins, resuming a partial file; extracts it; validates its dimensions    *)
(* and its trade; compares the annual totals with the explicit approval;   *)
(* and publishes the staging directory and the report.  Any step may be    *)
(* the last of its run: the process dies and a later run starts over.      *)
(*                                                                         *)
(* A file that is being downloaded is a sequence of Blocks blocks, each of *)
(* the pinned archive or of another one.  The data of an archive are what  *)
(* the checks look at: its members, header lines, documentation,           *)
(* dimensions and, for each year, a sequence of trade rows.                *)
(***************************************************************************)
EXTENDS Integers, Sequences, FiniteSets, SequencesExt

CONSTANTS Null,
          Descriptor,   \* the source descriptor
          Archives,     \* the archives it may have pinned
          Approvals,    \* the coverage approvals a run may be given
          Pids,         \* process ids, used again by later runs
          Blocks,       \* expectedBytes
          MaxRuns       \* bound on the runs

VARIABLES source,       \* the pinned archive
          archive,      \* downloads/<archive>: its blocks, or Null
          partial,      \* downloads/<archive>.partial
          staging,      \* staging/<sha256>: [approval, data], or Null
          report,       \* the report at reportPath
          temporary,    \* the pids whose temporary report was left behind
          run,          \* the run in progress: its step and what it carries
          runs

vars == <<source, archive, partial, staging, report, temporary, run, runs>>

Idle == [step |-> "idle"]
Pinned == [b \in 1..Blocks |-> "pinned"]
Size(file) == IF file = Null THEN 0 ELSE Len(file)
Distinct(s) == \A m, n \in DOMAIN s : s[m] = s[n] => m = n
Codes(s) == {s[n] : n \in DOMAIN s}

\* parseSourceDescriptor, validateSourceDescriptor: the trade members are the
\* ingested years in ascending order, the other year roles are among them, and
\* no path occurs twice.
ValidSourceDescriptor ==
    /\ Descriptor.url = "https"
    /\ \A n \in 2..Len(Descriptor.ingested) : Descriptor.ingested[n - 1] < Descriptor.ingested[n]
    /\ Descriptor.trade = Descriptor.ingested
    /\ Descriptor.finalized \cup Descriptor.provisional \subseteq Codes(Descriptor.ingested)
    /\ Descriptor.window.start <= Descriptor.window.end
    /\ {Descriptor.window.start, Descriptor.window.end} \subseteq Descriptor.finalized
    /\ Distinct(Descriptor.paths)

\* validateArchiveEntry, extractAndVerifyArchive: every entry is an expected
\* regular file whose CRC holds, none comes twice and none is missing.
Extracts(a) ==
    /\ Distinct([n \in DOMAIN a.members |-> a.members[n].path])
    /\ \A n \in DOMAIN a.members : a.members[n].regular /\ a.members[n].crc
    /\ {a.members[n].path : n \in DOMAIN a.members} = Codes(Descriptor.paths)

\* validateHeaders and validateDocumentationIdentity.
HeadersMatch(a) == a.headers /\ a.version = Descriptor.release

\* validateDimensions: as many rows as pinned, each code once.
DimensionsMatch(a) ==
    /\ Len(a.products) = Descriptor.products /\ Distinct(a.products)
    /\ Len(a.economies) = Descriptor.economies /\ Distinct(a.economies)

\* validateTradeView: the values of every row, one row per exporter, importer
\* and product, and a dimension row for each of the three.
ValidRow(row, year) ==
    /\ row.year = year
    /\ row.value > 0
    /\ row.quantity # Null => row.quantity > 0
TradeIsValid(a, year) ==
    LET rows == a.trade[year] IN
    /\ \A n \in DOMAIN rows : ValidRow(rows[n], year)
    /\ Distinct([n \in DOMAIN rows |-> <<rows[n].exporter, rows[n].importer, rows[n].product>>])
    /\ \A n \in DOMAIN rows :
          /\ {rows[n].exporter, rows[n].importer} \subseteq Codes(a.economies)
          /\ rows[n].product \in Codes(a.products)

\* readAnnualCheck: what a reviewer approves of a year.
ReadAnnualCheck(rows) ==
    LET present == SelectSeq(rows, LAMBDA row : row.quantity # Null) IN
    [rows |-> Len(rows),
     exporters |-> Cardinality({rows[n].exporter : n \in DOMAIN rows}),
     importers |-> Cardinality({rows[n].importer : n \in DOMAIN rows}),
     products |-> Cardinality({rows[n].product : n \in DOMAIN rows}),
     present |-> Len(present),
     value |-> FoldSeq(LAMBDA row, sum : sum + row.value, 0, rows),
     quantity |-> FoldSeq(LAMBDA row, sum : sum + row.quantity, 0, present)]

\* compareCoverage: the years that differ, or that one of the two lacks.
CompareCoverage(approved, actual) ==
    {y \in DOMAIN approved \cup DOMAIN actual :
        ~(y \in DOMAIN approved /\ y \in DOMAIN actual /\ approved[y] = actual[y])}

AnnualChecks(a) == [y \in Codes(Descriptor.trade) |-> ReadAnnualCheck(a.trade[y])]
\* A year is copied to its partition when it is as approved, and skipped otherwise.
Partitions(a, approval) ==
    LET copied == {y \in Codes(Descriptor.trade) : y \in DOMAIN approval.checks
                                                    /\ approval.checks[y] = ReadAnnualCheck(a.trade[y])}
    IN [y \in copied |-> Codes(a.trade[y])]
\* stageDimensionFiles: the codes, as the files keep them.
StageDimensionFiles(a) == [products |-> Codes(a.products), economies |-> Codes(a.economies)]
-----------------------------------------------------------------------------
Init ==
    /\ source \in Archives
    /\ archive = Null /\ partial = Null /\ staging = Null /\ report = Null
    /\ temporary = {} /\ run = Idle /\ runs = 0

\* The run ends, with an error or without.
Ends == run' = Idle

\* stageBaciRelease: the descriptor is read before anything is done.  An archive
\* given by its path is not downloaded.
Start(pid, approval, given) ==
    /\ run.step = "idle" /\ runs < MaxRuns
    /\ runs' = runs + 1
    /\ run' = IF ValidSourceDescriptor
              THEN [step |-> IF given = Null THEN "download" ELSE "verify",
                    pid |-> pid, approval |-> approval, file |-> given]
              ELSE Idle
    /\ UNCHANGED <<source, archive, partial, staging, report, temporary>>

\* downloadPinnedArchive, before the request: an existing archive is used when it
\* is the pinned one and removed when not; a partial file that is too long is
\* removed, a complete one accepted, a shorter one resumed.
Download ==
    LET size == IF Size(partial) > Blocks THEN 0 ELSE Size(partial) IN
    /\ run.step = "download"
    /\ archive' = IF archive = Pinned THEN archive ELSE Null
    /\ partial' = IF archive # Pinned /\ size = 0 THEN Null ELSE partial
    /\ run' = CASE archive = Pinned -> [run EXCEPT !.step = "verify", !.file = archive]
                [] archive # Pinned /\ size = Blocks -> [run EXCEPT !.step = "accept"]
                [] OTHER -> [run EXCEPT !.step = "request"]
    /\ UNCHANGED <<source, staging, report, temporary, runs>>

\* validateContentRange: an answer 206 for the rest of the file is appended; 200
\* is the whole file and starts anew.
Appends(size, whole) == Size(partial) > 0 /\ ~whole /\ size = Blocks

\* The answer to the request: the whole file or the rest, of the pinned archive or
\* of another of some size; a range of a file of another size is refused.
Respond(version, size, whole) ==
    /\ run.step = "request"
    /\ version = "pinned" => size = Blocks
    /\ whole \/ Size(partial) > 0
    /\ \/ /\ whole \/ size = Blocks
          /\ partial' = IF Appends(size, whole) THEN partial ELSE << >>
          /\ run' = [step |-> "transfer", pid |-> run.pid, approval |-> run.approval,
                     version |-> version,
                     left |-> IF whole THEN size ELSE size - Size(partial)]
       \/ ~whole /\ size # Blocks /\ Ends /\ UNCHANGED partial
    /\ UNCHANGED <<source, archive, staging, report, temporary, runs>>

\* The request fails, or the status is neither 200 nor 206.
RequestFails ==
    /\ run.step = "request" /\ Ends
    /\ UNCHANGED <<source, archive, partial, staging, report, temporary, runs>>

Receive ==
    /\ run.step = "transfer" /\ run.left > 0
    /\ partial' = Append(partial, run.version)
    /\ run' = [run EXCEPT !.left = @ - 1]
    /\ UNCHANGED <<source, archive, staging, report, temporary, runs>>

\* The transfer is interrupted: what has arrived stays for the next run.
TransferFails ==
    /\ run.step = "transfer" /\ run.left > 0 /\ Ends
    /\ UNCHANGED <<source, archive, partial, staging, report, temporary, runs>>

\* The stream ends: a file too long is removed, one too short is kept.
TransferEnds ==
    /\ run.step = "transfer" /\ run.left = 0
    /\ partial' = IF Size(partial) > Blocks THEN Null ELSE partial
    /\ run' = IF Size(partial) = Blocks
              THEN [step |-> "accept", pid |-> run.pid, approval |-> run.approval, file |-> Null]
              ELSE Idle
    /\ UNCHANGED <<source, archive, staging, report, temporary, runs>>

IsPinned(file) == file = Pinned

\* acceptCompletedDownload.
Accept ==
    /\ run.step = "accept"
    /\ partial' = Null
    /\ IF IsPinned(partial)
       THEN archive' = partial /\ run' = [run EXCEPT !.step = "verify", !.file = partial]
       ELSE Ends /\ UNCHANGED archive
    /\ UNCHANGED <<source, staging, report, temporary, runs>>

\* The identity of the archive and of the approval; then the run's own
\* directories, of an earlier run with the same pid, are made anew.
Verify ==
    /\ run.step = "verify"
    /\ run' = IF IsPinned(run.file) /\ run.approval.source = source.name
              THEN [step |-> "extracted", pid |-> run.pid, approval |-> run.approval]
              ELSE Idle
    /\ UNCHANGED <<source, archive, partial, staging, report, temporary, runs>>

\* prepareJsonPublication creates the temporary report exclusively, and removes it
\* when it exists already: the run fails and the next one finds it gone.
Prepare(pid, goesOn, fails) ==
    IF pid \in temporary
    THEN temporary' = temporary \ {pid} /\ fails
    ELSE temporary' = temporary \cup {pid} /\ goesOn

\* Extraction, validation and staging, in the run's own directories; then the
\* temporary report.  A difference of coverage is reported and ends the run.
ValidateAndStage ==
    LET sound == /\ Extracts(source) /\ HeadersMatch(source) /\ DimensionsMatch(source)
                 /\ \A y \in Codes(Descriptor.trade) : TradeIsValid(source, y)
        differences == CompareCoverage(run.approval.checks, AnnualChecks(source))
    IN  /\ run.step = "extracted"
        /\ \/ ~sound /\ Ends /\ UNCHANGED temporary
           \/ /\ sound
              /\ Prepare(run.pid,
                         run' = [step |-> IF differences = {} THEN "publish" ELSE "report",
                                 pid |-> run.pid, approval |-> run.approval,
                                 data |-> [trade |-> Partitions(source, run.approval),
                                           dimensions |-> StageDimensionFiles(source)]],
                         Ends)
        /\ UNCHANGED <<source, archive, partial, staging, report, runs>>

\* The report that asks for an approval.
ReportDifferences ==
    /\ run.step = "report"
    /\ report' = [status |-> "approval-required", approval |-> run.approval]
    /\ temporary' = temporary \ {run.pid}
    /\ Ends
    /\ UNCHANGED <<source, archive, partial, staging, runs>>

\* publishStaging: the directory is renamed when there is none yet; one that exists
\* must hold the same manifest, report and files.
PublishStaging ==
    LET mine == [approval |-> run.approval, data |-> run.data] IN
    /\ run.step = "publish"
    /\ \/ /\ staging = Null \/ staging = mine
          /\ staging' = mine
          /\ run' = [run EXCEPT !.step = "commit"]
          /\ UNCHANGED temporary
       \/ /\ ~(staging = Null \/ staging = mine)
          /\ temporary' = temporary \ {run.pid} /\ Ends
          /\ UNCHANGED staging
    /\ UNCHANGED <<source, archive, partial, report, runs>>

\* commitJsonPublication renames the temporary report.
Commit ==
    /\ run.step = "commit"
    /\ report' = [status |-> "accepted", approval |-> run.approval]
    /\ temporary' = temporary \ {run.pid}
    /\ Ends
    /\ UNCHANGED <<source, archive, partial, staging, runs>>

Crash ==
    /\ run.step # "idle" /\ Ends
    /\ UNCHANGED <<source, archive, partial, staging, report, temporary, runs>>

Next ==
    \/ \E pid \in Pids, approval \in Approvals,
          given \in {Null, Pinned, [b \in 1..Blocks |-> "other"]} : Start(pid, approval, given)
    \/ Download
    \/ \E version \in {"pinned", "other"}, size \in Blocks..(Blocks + 1), whole \in BOOLEAN :
          Respond(version, size, whole)
    \/ RequestFails \/ Receive \/ TransferFails \/ TransferEnds \/ Accept \/ Verify
    \/ ValidateAndStage \/ ReportDifferences \/ PublishStaging \/ Commit \/ Crash
-----------------------------------------------------------------------------
\* What is staged is the whole of the pinned archive, checked, and as the approval
\* it names says, however often the download was resumed and runs died; a report
\* that says "accepted" is about what is staged.
StagedIsThePinned ==
    /\ archive # Null => archive = Pinned
    /\ staging # Null =>
         /\ staging.data.trade = [y \in Codes(Descriptor.ingested) |-> Codes(source.trade[y])]
         /\ staging.approval.checks = AnnualChecks(source)
         /\ \A y \in DOMAIN staging.data.trade : \A row \in staging.data.trade[y] :
               /\ row.product \in staging.data.dimensions.products
               /\ {row.exporter, row.importer} \subseteq staging.data.dimensions.economies
    /\ (report # Null /\ report.status = "accepted") =>
          staging # Null /\ staging.approval = report.approval
=============================================================================
