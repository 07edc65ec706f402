--------------------------- MODULE OpportunityFeed ---------------------------
(***************************************************************************)
(* The opportunity feed: the pages the server cuts from a cohort by keyset *)
(* cursor (page.ts, cursor.ts), and the page that loads, continues,        *)
(* refreshes and restores the feed (opportunity-discovery-workspace.tsx).  *)
(* A scope is an exporter and a product filter.  A call that is aborted or *)
(* superseded writes nothing, so only the latest one is kept.              *)
(***************************************************************************)
EXTENDS Naturals, Sequences, FiniteSets, SequencesExt

CONSTANTS
    Null,
    Exporters, Filters,      \* a filter is a set of product codes, or Null
    CohortOf(_, _),          \* candidates of an exporter under a build, in canonical order
    PageLimit,
    MaxBuild, MaxVisited     \* bounds on the builds activated and the history entries

VARIABLES
    server, manifest,        \* the current build, and the one the page knows as current
    scope,                   \* the selected exporter and filter, or Null
    url, visited,            \* the location: scope and pin; the history entries
    required,                \* scopeSubmissionRequired
    pending,                 \* retiredBuildRefreshPending
    due,                     \* the timer of the automatic load is set
    status,
    feed,                    \* what is shown: scope, build, candidates, next cursor
    manifestCall, feedCall   \* calls under way

controls == <<scope, required, pending, due>>
vars == <<server, manifest, controls, url, visited, status, feed, manifestCall, feedCall>>

Scopes == [exporter : Exporters, filter : Filters]
Window(build) == {b \in {build - 1, build} : b > 0}
Location(s, pin) == [scope |-> s, pin |-> pin]

\* projectCandidates.
Project(cohort, filter) ==
    IF filter = Null THEN cohort ELSE SelectSeq(cohort, LAMBDA c : c.product \in filter)

\* Fault: the order of the keys stops at the displayed priority.
AfterByDisplay(c, key) == c.display < key.display

\* compareToKey: the candidate sorts strictly after the key, ties broken by code.
After(c, key) == c.display < key.display \/ (c.display = key.display /\ c.product > key.product)

\* pageOpportunityCohort and buildMarketInvestigationPage; a cursor minted for
\* another feed is refused.
Page(s, build, cursor) ==
    LET rows == Project(CohortOf(s.exporter, build), s.filter)
        later == IF cursor = Null THEN 1 .. Len(rows)
                                  ELSE {n \in 1 .. Len(rows) : After(rows[n], cursor.key)}
        first == IF later = {} THEN Len(rows) + 1 ELSE CHOOSE n \in later : \A m \in later : n <= m
        window == SubSeq(rows, first, IF first + PageLimit - 1 < Len(rows) THEN first + PageLimit - 1 ELSE Len(rows))
    IN [candidates |-> window,
        next |-> IF first + PageLimit <= Len(rows) /\ window # <<>>
                 THEN [scope |-> s, build |-> build, key |-> Last(window)] ELSE Null]

CursorFits(s, build, cursor) == cursor # Null => cursor.scope = s /\ cursor.build = build

\* appendOpportunityPage: the feed the page was asked for, and nothing repeated.
Appends(f, page) ==
    [f EXCEPT !.candidates = @ \o page.candidates, !.next = page.next]
Repeats(f, page) == Range(f.candidates) \intersect Range(page.candidates) # {}

\* resolvePinnedContext: the build a location executes, 0 if it is retired.
PinnedBuild(pin) == CASE pin = 0 -> manifest
                      [] pin # 0 /\ pin \in Window(manifest) -> pin
                      [] OTHER -> 0

Pushed == visited \union {url}
MayPush == Cardinality(Pushed) <= MaxVisited

\* loadFeed up to its first fetch, with the scope s of its closure; pages that
\* the history state asks for are loaded as well.
LoadFeed(s, known, fresh, pages) ==
    LET build == IF fresh THEN known ELSE PinnedBuild(url.pin)
    IN \/ /\ s # Null /\ build # 0
          /\ feedCall' = [scope |-> s, build |-> build, fresh |-> fresh, pages |-> pages,
                          read |-> Null, more |-> FALSE]
          /\ feed' = Null /\ status' = IF fresh THEN "refreshing" ELSE "loading"
       \/ s # Null /\ build = 0 /\ status' = "stale" /\ UNCHANGED <<feedCall, feed>>
       \/ s = Null /\ UNCHANGED <<feedCall, feed, status>>

\* The effect of the automatic load: it runs when manifest or scope change.
AutoLoads(s, known, req, pend) ==
    /\ known # 0 /\ s # Null /\ ~req /\ ~pend
    /\ url.scope = Null \/ url.scope = s

\* resetFeed.
ResetFeed == feedCall' = Null /\ feed' = Null /\ status' = "idle"

LoadManifest ==
    /\ manifest = 0 /\ manifestCall = Null
    /\ manifestCall' = [refreshes |-> FALSE, scope |-> Null]
    /\ UNCHANGED <<server, manifest, controls, url, visited, status, feed, feedCall>>

\* refreshCurrentAnalysis: of a stale page, or of a control that met a retired build.
Refresh ==
    /\ manifest # 0 /\ (status = "stale" \/ manifest \notin Window(server))
    /\ pending' = TRUE /\ feedCall' = Null /\ status' = "refreshing"
    /\ manifestCall' = [refreshes |-> TRUE, scope |-> scope]
    /\ UNCHANGED <<server, manifest, scope, required, due, url, visited, feed>>

\* The manifest arrives; a refresh goes on to load the feed of its closure.
ManifestArrives ==
    /\ manifestCall # Null /\ manifestCall' = Null /\ manifest' = server
    /\ \/ /\ manifestCall.refreshes
          /\ LoadFeed(manifestCall.scope, server, TRUE, 1)
          /\ pending' = (manifestCall.scope # Null)
          /\ due' = FALSE
       \/ /\ ~manifestCall.refreshes
          /\ due' = AutoLoads(scope, server, required, pending)
          /\ UNCHANGED <<pending, feedCall, feed, status>>
    /\ UNCHANGED <<server, scope, required, url, visited>>

ManifestFails ==
    /\ manifestCall # Null /\ manifestCall' = Null
    /\ pending' = (pending /\ ~manifestCall.refreshes)
    /\ status' = IF manifestCall.refreshes THEN "stale" ELSE status
    /\ UNCHANGED <<server, manifest, scope, required, due, url, visited, feed, feedCall>>

\* handleExporterSelection, handleProductSelection with an explicit choice.
SelectScope(s) ==
    /\ manifest # 0 /\ s # scope /\ MayPush
    /\ scope' = s /\ required' = TRUE /\ due' = FALSE
    /\ visited' = IF feed # Null THEN Pushed ELSE visited
    /\ ResetFeed
    /\ UNCHANGED <<server, manifest, pending, url, manifestCall>>

\* The controls have read the scope of the URL.
RestoreScope ==
    /\ manifest # 0 /\ scope = Null /\ url.scope # Null
    /\ scope' = url.scope
    /\ due' = AutoLoads(url.scope, manifest, required, pending)
    /\ UNCHANGED <<server, manifest, required, pending, url, visited, status, feed, manifestCall, feedCall>>

\* The timer of the automatic load.
AutoLoad ==
    /\ due /\ due' = FALSE
    /\ \E pages \in 1 .. 2 : LoadFeed(scope, manifest, FALSE, pages)
    /\ UNCHANGED <<server, manifest, scope, required, pending, url, visited, manifestCall>>

\* discoverScope.
Discover ==
    /\ manifest # 0 /\ scope # Null /\ status \notin {"loading", "refreshing"}
    /\ required' = FALSE
    /\ LoadFeed(scope, manifest, FALSE, 1)
    /\ UNCHANGED <<server, manifest, scope, pending, due, url, visited, manifestCall>>

Cursor == IF feedCall.read = Null THEN Null ELSE feedCall.read.next
Answer == Page(feedCall.scope, feedCall.build, Cursor)

\* A page of loadFeed arrives: the next one is asked for while the history state
\* wants more, and then the feed is shown and the URL pinned.
FeedArrives ==
    LET read == IF feedCall.read = Null
                THEN [scope |-> feedCall.scope, build |-> feedCall.build,
                      candidates |-> Answer.candidates, next |-> Answer.next]
                ELSE Appends(feedCall.read, Answer)
    IN /\ feedCall # Null /\ ~feedCall.more
       /\ feedCall.build \in Window(server)
       /\ CursorFits(feedCall.scope, feedCall.build, Cursor)
       /\ \/ /\ feedCall.pages > 1 /\ read.next # Null
             /\ feedCall' = [feedCall EXCEPT !.read = read, !.pages = @ - 1]
             /\ UNCHANGED <<feed, status, url, visited, pending>>
          \/ /\ feedCall.pages = 1 \/ read.next = Null
             /\ feedCall.fresh => MayPush
             /\ feedCall' = Null /\ feed' = read
             /\ status' = IF read.candidates = <<>> THEN "empty" ELSE "success"
             /\ url' = Location(feedCall.scope, feedCall.build)
             /\ visited' = IF feedCall.fresh THEN Pushed ELSE visited
             /\ pending' = (pending /\ ~feedCall.fresh)
       /\ UNCHANGED <<server, manifest, scope, required, due, manifestCall>>

FeedFails ==
    /\ feedCall # Null /\ ~feedCall.more /\ feedCall' = Null
    /\ status' = IF feedCall.build \in Window(server) THEN "error" ELSE "stale"
    /\ pending' = (pending /\ ~feedCall.fresh)
    /\ UNCHANGED <<server, manifest, scope, required, due, url, visited, feed, manifestCall>>

\* loadNextPage: the filter of the controls, the exporter and build of the feed.
NextPage ==
    /\ feed # Null /\ scope # Null /\ status = "success" /\ feed.next # Null /\ feedCall = Null
    /\ \/ /\ PinnedBuild(url.pin) = 0 /\ status' = "stale" /\ UNCHANGED feedCall
       \/ /\ PinnedBuild(url.pin) # 0
          /\ feedCall' = [scope |-> [feed.scope EXCEPT !.filter = scope.filter], build |-> feed.build,
                          fresh |-> FALSE, pages |-> 1, read |-> feed, more |-> TRUE]
          /\ UNCHANGED status
    /\ UNCHANGED <<server, manifest, controls, url, visited, feed, manifestCall>>

\* Its page arrives, and is appended to the feed as it is now.
NextArrives ==
    /\ feedCall # Null /\ feedCall.more /\ feedCall' = Null
    /\ feedCall.build \in Window(server)
    /\ feed' = IF feed # Null /\ CursorFits(feedCall.scope, feedCall.build, Cursor)
                  /\ ~Repeats(feed, Answer) /\ feedCall.scope = feed.scope
               THEN Appends(feed, Answer) ELSE feed
    /\ UNCHANGED <<server, manifest, controls, url, visited, status, manifestCall>>

NextFails ==
    /\ feedCall # Null /\ feedCall.more /\ feedCall' = Null
    /\ UNCHANGED <<server, manifest, controls, url, visited, status, feed, manifestCall>>

\* restoreContextFromHistory.
Back(u) ==
    /\ u \in visited /\ u # url
    /\ url' = u /\ visited' = Pushed \ {u}
    /\ scope' = Null /\ required' = FALSE /\ due' = FALSE
    /\ ResetFeed
    /\ UNCHANGED <<server, manifest, pending, manifestCall>>

Activate ==
    /\ server < MaxBuild /\ server' = server + 1
    /\ UNCHANGED <<manifest, controls, url, visited, status, feed, manifestCall, feedCall>>

Init ==
    /\ server = 1 /\ manifest = 0 /\ scope = Null
    /\ required = FALSE /\ pending = FALSE /\ due = FALSE
    /\ \E s \in Scopes \union {Null} : url = Location(s, 0)
    /\ visited = {} /\ status = "idle" /\ feed = Null /\ manifestCall = Null /\ feedCall = Null

Next ==
    \/ LoadManifest \/ Refresh \/ ManifestArrives \/ ManifestFails \/ RestoreScope \/ AutoLoad
    \/ Discover \/ FeedArrives \/ FeedFails \/ NextPage \/ NextArrives \/ NextFails \/ Activate
    \/ \E s \in Scopes : SelectScope(s)
    \/ \E u \in visited : Back(u)

Spec == Init /\ [][Next]_vars
-----------------------------------------------------------------------------
\* The feed on the page is a prefix of one cohort in canonical order, nothing
\* missing and nothing twice, and it has a next cursor as long as there is more:
\* also with ties in the order, restored pages, late pages and a build that is
\* replaced in between.
FeedIsAPrefix ==
    feed # Null =>
        LET rows == Project(CohortOf(feed.scope.exporter, feed.build), feed.scope.filter)
        IN /\ Len(feed.candidates) <= Len(rows)
           /\ feed.candidates = SubSeq(rows, 1, Len(feed.candidates))
           /\ (feed.next = Null) = (Len(feed.candidates) = Len(rows))

\* The URL names the feed that is shown.
UrlNamesTheFeed == feed # Null /\ feedCall = Null => url = Location(feed.scope, feed.build)
=============================================================================
