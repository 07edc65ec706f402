---------------------------- MODULE ExportRoutes ----------------------------
(***************************************************************************)
(* The manifests and the CSV exports of the analyses that are served       *)
(* (routes current, manifest and *.csv under /api/v1/analyses): a page     *)
(* shows a manifest, and exports the analysis under the freshness status   *)
(* that it shows.  An export awaits the analysis and the product catalog   *)
(* while time goes on, statuses are polled and the server is deployed anew.*)
(* Exports may be cached for ever; a manifest until its status changes.    *)
(*                                                                         *)
(* A deployment is [build, catalog, release, fallback]; a snapshot is      *)
(* [id, checkedAt, served, detectedAt, delayed, publishedAt].  The         *)
(* identity of a freshness status is all that it says.                     *)
(***************************************************************************)
EXTENDS Integers, Sequences, FiniteSets

CONSTANTS
    Null,
    Kinds,          \* the exports: a subset of DOMAIN Formats
    Windows,        \* sequences of deployments, the current one first
    Snapshots,      \* the statuses that are published at their times
    DueAfter, OverdueAfter, SharedAge,
    MaxTime, MaxExports

VARIABLES
    now,
    window,
    status,     \* the snapshot of the current deployment
    kept,       \* the snapshots retained for it
    page,       \* the manifest a page shows, or Null
    cached,     \* a manifest in a shared cache, and until when it may be used, or Null
    export,     \* the export under way, or the last answer, or Null
    answers     \* the exports answered: [url, body]
vars == <<now, window, status, kept, page, cached, export, answers>>

Earliest(times) == CHOOSE t \in times : \A u \in times : t <= u
-----------------------------------------------------------------------------
(* Source freshness.                                                       *)
CheckOverdueAt(s) == s.checkedAt + OverdueAfter
RefreshDueAt(s) == IF s.detectedAt = Null THEN Null ELSE s.detectedAt + DueAfter

\* evaluateSourceFreshness.
EvaluateSourceFreshness(s, asOf) ==
    LET due == RefreshDueAt(s)
        is(state, at) == [snapshot |-> s.id, served |-> s.served, state |-> state, effectiveAt |-> at,
                          overdueAt |-> CheckOverdueAt(s), dueAt |-> due]
    IN  CASE s.delayed -> is("REFRESH_DELAYED", s.publishedAt)
          [] ~s.delayed /\ due # Null ->
                 IF asOf >= due THEN is("REFRESH_DELAYED", due) ELSE is("UPDATE_IN_PROGRESS", s.detectedAt)
          [] OTHER ->
                 IF asOf >= CheckOverdueAt(s) THEN is("CHECK_OVERDUE", CheckOverdueAt(s))
                 ELSE is("LATEST_KNOWN", s.publishedAt)

NextTransitionAt(freshness) ==
    CASE freshness.state = "LATEST_KNOWN" -> freshness.overdueAt
      [] freshness.state = "UPDATE_IN_PROGRESS" -> freshness.dueAt
      [] OTHER -> Null

\* currentManifestCacheControl: for how long a shared cache may use it.
SharedSeconds(freshness, asOf) ==
    IF NextTransitionAt(freshness) = Null THEN SharedAge
    ELSE Earliest({SharedAge, IF NextTransitionAt(freshness) < asOf THEN 0 ELSE NextTransitionAt(freshness) - asOf})

ManifestOf(d, s, asOf) ==
    [build |-> d.build, catalog |-> d.catalog, release |-> d.release, freshness |-> EvaluateSourceFreshness(s, asOf)]
CurrentAnalysis == ManifestOf(window[1], status, now)

\* A retained deployment reports the status it was published with, as of the
\* check that status tells of.
ResolveAnalysisManifest(build) ==
    IF build = window[1].build THEN CurrentAnalysis
    ELSE IF \E i \in DOMAIN window : window[i].build = build
    THEN LET i == CHOOSE i \in DOMAIN window : window[i].build = build
         IN ManifestOf(window[i], window[i].fallback, window[i].fallback.checkedAt)
    ELSE Null

TransitionTimes(s) == {s.publishedAt, CheckOverdueAt(s), now} \union ({RefreshDueAt(s)} \ {Null})
Fallbacks == {window[i].fallback : i \in 2..Len(window)}

ResolveFreshnessStatus(id) ==
    IF \E s \in kept \union Fallbacks : \E asOf \in TransitionTimes(s) : EvaluateSourceFreshness(s, asOf) = id
    THEN id ELSE Null
-----------------------------------------------------------------------------
(* The exports.                                                            *)
CandidateMarketCsv == [catalog |-> TRUE, unrepresentable |-> 503, mismatch |-> "INCOMPATIBLE_PRODUCT_SEARCH_BUILD"]
TradeTrendCsv == [catalog |-> TRUE, unrepresentable |-> 503, mismatch |-> "INCOMPATIBLE_PRODUCT_SEARCH_BUILD"]
SupplierCompetitionCsv == [catalog |-> TRUE, unrepresentable |-> 503, mismatch |-> "INCOMPATIBLE_PRODUCT_SEARCH_BUILD"]
\* An explorer's export names no catalog; too large an answer is a budget.
TradeExplorerCsv == [catalog |-> FALSE, unrepresentable |-> 413, mismatch |-> "INCOMPATIBLE_ANALYSIS_BUILD"]
Formats ==
    [candidateMarket |-> CandidateMarketCsv, tradeTrend |-> TradeTrendCsv,
     supplierCompetition |-> SupplierCompetitionCsv, tradeExplorer |-> TradeExplorerCsv]

Refused(answered, code) ==
    [step |-> "done", status |-> answered, code |-> code]
Going(step, request, manifest, freshness) ==
    [step |-> step, request |-> request, manifest |-> manifest, freshness |-> freshness]

\* What is decided before the analysis is awaited.
Resolve(request) ==
    LET own == ResolveAnalysisManifest(request.build)
        manifest == IF own = Null THEN CurrentAnalysis ELSE own
        freshness == ResolveFreshnessStatus(request.freshness)
    IN  IF Formats[request.route].catalog /\ request.catalog # manifest.catalog
        THEN Refused(410, "PRODUCT_SEARCH_BUILD_RETIRED")
        ELSE IF freshness = Null THEN Refused(404, "FRESHNESS_STATUS_NOT_FOUND")
        ELSE Going("executing", request, manifest, freshness)

\* What is decided of an analysis that was completed, or refused.
Executed(e, result) ==
    IF result.refused # Null THEN Refused(result.refused, "ANALYSIS")
    ELSE IF result.build # e.manifest.build THEN Refused(409, Formats[e.request.route].mismatch)
    ELSE IF e.freshness.served # result.release THEN Refused(409, "INCOMPATIBLE_FRESHNESS_STATUS")
    ELSE Going(IF Formats[e.request.route].catalog THEN "finding" ELSE "writing", e.request, e.manifest, e.freshness)

\* findExactProduct: the catalog may be unavailable, or lack the product.
Found(e, found) ==
    IF found THEN Going("writing", e.request, e.manifest, e.freshness)
    ELSE Refused(503, "EXPORT_DEPENDENCY_INCOMPATIBLE")

\* The manifest that is written has the status that was asked for.
Written(e) ==
    [build |-> e.manifest.build, release |-> e.manifest.release, catalog |-> e.manifest.catalog,
     freshness |-> e.freshness]
-----------------------------------------------------------------------------
Published == {window[1].fallback} \union {s \in Snapshots : s.publishedAt <= now /\ s.served = window[1].release}

Init ==
    /\ now = 0
    /\ window \in {w \in Windows : w[1].fallback.publishedAt = 0}
    /\ status = window[1].fallback /\ kept = {status}
    /\ page = Null /\ cached = Null /\ export = Null /\ answers = {}

Tick ==
    /\ now < MaxTime /\ now' = now + 1
    /\ UNCHANGED <<window, status, kept, page, cached, export, answers>>

\* retainSourceStatuses and acceptSourceStatus.
Poll(s) ==
    /\ s \in Published /\ s.publishedAt >= status.publishedAt /\ s # status
    /\ status' = s
    /\ kept' = Published
    /\ UNCHANGED <<now, window, page, cached, export, answers>>

\* Another window is deployed; an export under way is lost.
Deploy(w) ==
    /\ w # window /\ w[1].fallback.publishedAt <= now
    /\ \A i \in DOMAIN window : window[i].fallback.publishedAt <= w[1].fallback.publishedAt
    /\ {w[i] : i \in 2..Len(w)} \subseteq {window[i] : i \in DOMAIN window}
    /\ window' = w
    /\ status' = w[1].fallback /\ kept' = {w[1].fallback}
    /\ export' = Null
    /\ UNCHANGED <<now, page, cached, answers>>

\* GET current: from the server, through the shared cache.
GetCurrent ==
    /\ page' = CurrentAnalysis
    /\ cached' = [manifest |-> CurrentAnalysis, snapshot |-> status,
                  until |-> now + SharedSeconds(CurrentAnalysis.freshness, now)]
    /\ UNCHANGED <<now, window, status, kept, export, answers>>
GetCached ==
    /\ cached # Null /\ now < cached.until
    /\ page' = cached.manifest
    /\ UNCHANGED <<now, window, status, kept, cached, export, answers>>

\* GET manifest, of a retained build.
GetManifest(build) ==
    /\ ResolveAnalysisManifest(build) # Null
    /\ page' = ResolveAnalysisManifest(build)
    /\ UNCHANGED <<now, window, status, kept, cached, export, answers>>

\* The page asks for an export of what it shows.
Ask(route) ==
    /\ page # Null /\ (IF export = Null THEN TRUE ELSE export.step = "done") /\ Cardinality(answers) < MaxExports
    /\ export' = Resolve([route |-> route, build |-> page.build, catalog |-> page.catalog,
                          freshness |-> page.freshness])
    /\ UNCHANGED <<now, window, status, kept, page, cached, answers>>

\* The platform answers for a build of the window, or refuses for its load.
Execute ==
    /\ export # Null /\ export.step = "executing"
    /\ LET served == {d \in {window[i] : i \in DOMAIN window} : d.build = export.request.build}
           results == {[refused |-> Null, build |-> d.build, release |-> d.release] : d \in served}
                      \union {[refused |-> IF served = {} THEN 410 ELSE 503, build |-> Null, release |-> Null]}
       IN \E result \in results : export' = Executed(export, result)
    /\ UNCHANGED <<now, window, status, kept, page, cached, answers>>

FindProduct ==
    /\ export # Null /\ export.step = "finding"
    /\ \E found \in BOOLEAN : export' = Found(export, found)
    /\ UNCHANGED <<now, window, status, kept, page, cached, answers>>

\* The rows are written, or are too many.
Write ==
    /\ export # Null /\ export.step = "writing"
    /\ \/ /\ export' = [step |-> "done", status |-> 200, code |-> Null]
          /\ answers' = answers \union {[url |-> export.request, body |-> Written(export)]}
       \/ /\ export' = Refused(Formats[export.request.route].unrepresentable, "EXPORT")
          /\ UNCHANGED answers
    /\ UNCHANGED <<now, window, status, kept, page, cached>>

\* The deadline passes while something is awaited.
Elapse ==
    /\ export # Null /\ export.step \in {"executing", "finding"}
    /\ export' = Refused(503, "REQUEST_DEADLINE_EXCEEDED")
    /\ UNCHANGED <<now, window, status, kept, page, cached, answers>>

Next ==
    \/ Tick
    \/ \E s \in Snapshots : Poll(s)
    \/ \E w \in Windows : Deploy(w)
    \/ GetCurrent
    \/ GetCached
    \/ \E i \in DOMAIN window \ {1} : GetManifest(window[i].build)
    \/ \E route \in Kinds : Ask(route)
    \/ Execute
    \/ FindProduct
    \/ Write
    \/ Elapse

Spec == Init /\ [][Next]_vars
-----------------------------------------------------------------------------
\* An export that may be kept for ever is always the same, whatever was polled,
\* deployed or came into effect between two requests for it, and tells of one
\* release only.
OneUrlOneExport ==
    \A a, b \in answers :
        /\ a.url = b.url => a.body = b.body
        /\ a.body.freshness.served = a.body.release
        /\ a.body.build = a.url.build /\ a.body.freshness = a.url.freshness
        /\ Formats[a.url.route].catalog => a.body.catalog = a.url.catalog

\* A cache never shows a manifest after the status it tells has changed.
CachedManifestIsTrue ==
    cached # Null /\ now < cached.until =>
        cached.manifest.freshness = EvaluateSourceFreshness(cached.snapshot, now)

\* A page whose build is served and whose status is of a snapshot still kept may
\* export what it shows.  One status is not looked for: that of a retained build
\* whose status had changed between its check and its publication.
Overtaken(s) ==
    /\ EvaluateSourceFreshness(s, s.checkedAt) # EvaluateSourceFreshness(s, s.publishedAt)
    /\ page.freshness = EvaluateSourceFreshness(s, s.checkedAt)
ShownIsExportable ==
    page # Null /\ page.build \in {window[i].build : i \in DOMAIN window} =>
        LET shown == {s \in kept \union Fallbacks : s.id = page.freshness.snapshot}
        IN shown # {} /\ (\A s \in shown : ~Overtaken(s)) =>
               \A route \in Kinds :
                   Resolve([route |-> route, build |-> page.build, catalog |-> page.catalog,
                            freshness |-> page.freshness]).step = "executing"

ExportsAreOfOneStatus == OneUrlOneExport /\ CachedManifestIsTrue /\ ShownIsExportable
=============================================================================
