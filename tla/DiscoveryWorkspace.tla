------------------------- MODULE DiscoveryWorkspace -------------------------
(***************************************************************************)
(* The candidate market page (discovery-workspace.tsx): the inputs a user  *)
(* selects, the ranking and the market analysis loaded for them, the URL   *)
(* and its history, and answers that arrive late.  A call that is aborted  *)
(* or superseded never writes to the page, so only the latest call of each *)
(* kind is kept.  A callback that waits for the manifest goes on with the  *)
(* inputs it closed over.  Exporter and product are one input here.        *)
(*                                                                         *)
(* The second machine is one of the page's controls (economy-combobox.tsx, *)
(* product-combobox.tsx): a box whose text is searched after 150 ms, whose  *)
(* list is chosen from, and whose choice the page and the URL follow.  Each *)
(* search has a number and a controller, and an effect that cancels it when *)
(* the text or the choice changes; so one search at most can still answer.  *)
(***************************************************************************)
EXTENDS Naturals, FiniteSets

CONSTANTS
    Null,
    Inputs, Candidates,
    Ranking,      \* what a build ranks: Ranking[inputs][build], a set of candidates
    MaxBuild,     \* bound on the analysis builds the server activates
    MaxVisited,   \* bound on the history entries
    Texts,        \* what may be typed, with what each finds: text -> codes
    TooLong       \* the texts longer than a query may be

VARIABLES
    server,         \* the current analysis build
    manifest,       \* the one the page knows as current, 0 before it is loaded
    inputs,         \* exporter and product
    url, visited,   \* the location, and the history entries one can go back to
    restoring,      \* "no", "controls" are reading the URL, or the "timer" is set
    analyzed,       \* analyzedInputsInHistory
    status,
    loaded,         \* loadedCandidateResult: its inputs and build
    resolved,       \* resolvedAnalysisBuildIdRef, 0 without one
    selected,       \* selectedCandidateCode
    market,         \* marketAnalysis: its inputs, build and candidate
    manifestCall, analysisCall, marketCall,
    kind,           \* of the control: "economy" or "product"
    address, told,  \* the code in the URL, and the one the page was told
    text, chosen,   \* inputValue; the code of the selected record
    list, open,     \* the matches, with the text they answer; are they shown?
    note,           \* what the status line says
    edited,         \* explicitlyEdited
    search,         \* the search that waits for its timer or its answer
    restore         \* the code of the URL that is being looked up

location == <<url, visited, restoring, analyzed>>
page == <<inputs, status, loaded, resolved, selected, market>>
vars == <<server, manifest, location, page, manifestCall, analysisCall, marketCall>>
boxVars == <<kind, address, told, text, chosen, list, open, note, edited, search, restore>>

\* deploymentWindow of a manifest.
Window(build) == {b \in {build - 1, build} : b > 0}

Location(i, pin, focus) == [inputs |-> i, pin |-> pin, focus |-> focus]
Pushed == IF url \in visited THEN visited ELSE visited \union {url}
MayPush == Cardinality(Pushed) <= MaxVisited

\* resolvePinnedContext: the build a pinned URL executes, 0 if it is retired.
PinnedBuild(pin) == CASE pin = 0 -> manifest
                      [] pin # 0 /\ pin \in Window(manifest) -> pin
                      [] OTHER -> 0

\* loadMarketAnalysisForCandidate, with the inputs i of its closure.
LoadMarket(c, i, build) ==
    \/ build # 0 /\ i # Null
       /\ marketCall' = [inputs |-> i, build |-> build, candidate |-> c] /\ market' = Null
    \/ (build = 0 \/ i = Null) /\ UNCHANGED <<marketCall, market>>

\* clearMarketAnalysisResult.
ClearMarket == market' = Null /\ marketCall' = Null

\* analyzeCandidateMarkets up to its fetch, with the inputs i of its closure;
\* a refreshed manifest is executed whatever the URL pins.
Analyze(i, known, fresh) ==
    LET build == IF fresh THEN known ELSE PinnedBuild(url.pin)
    IN \/ /\ i # Null /\ build # 0
          /\ analysisCall' = [inputs |-> i, build |-> build, known |-> known, fresh |-> fresh]
          /\ analyzed' = TRUE
          /\ loaded' = Null /\ selected' = Null /\ status' = "loading"
       \/ /\ i # Null /\ build = 0
          /\ status' = "stale" /\ UNCHANGED <<analysisCall, analyzed, loaded, selected>>
       \/ /\ i = Null
          /\ UNCHANGED <<analysisCall, analyzed, loaded, selected>>
          /\ status' = IF fresh THEN "refreshing" ELSE status

ControlsShown == manifest # 0 /\ (selected = Null \/ loaded = Null)

\* The mount effect, and the retry button of the page without a manifest.
LoadManifest ==
    /\ manifest = 0 /\ manifestCall = Null
    /\ manifestCall' = [recovers |-> FALSE, inputs |-> Null]
    /\ UNCHANGED <<server, manifest, location, page, analysisCall, marketCall>>

\* recoverRetiredAnalysis: the refresh of a stale page, of a market analysis, or
\* of a control whose search met a retired build.
Recover ==
    /\ \/ status = "stale"
       \/ loaded # Null /\ selected # Null
          /\ (loaded.build \notin Window(manifest) \/ (market = Null /\ loaded.build \notin Window(server)))
       \/ ControlsShown /\ manifest \notin Window(server)
    /\ analysisCall' = Null /\ marketCall' = Null
    /\ status' = "refreshing"
    /\ manifestCall' = [recovers |-> TRUE, inputs |-> inputs]
    /\ UNCHANGED <<server, manifest, location, inputs, loaded, resolved, selected, market>>

\* loadCurrentManifest answers; a recovery goes on to analyze.
ManifestArrives ==
    /\ manifestCall # Null /\ manifestCall' = Null
    /\ manifest' = server
    /\ \/ /\ manifestCall.recovers /\ Analyze(manifestCall.inputs, server, TRUE)
          /\ UNCHANGED <<server, url, visited, restoring, inputs, resolved, market, marketCall>>
       \/ ~manifestCall.recovers /\ UNCHANGED <<server, location, page, analysisCall, marketCall>>

ManifestFails ==
    /\ manifestCall # Null /\ manifestCall' = Null
    /\ status' = IF manifestCall.recovers THEN "stale" ELSE status
    /\ UNCHANGED <<server, manifest, location, inputs, loaded, resolved, selected, market,
                   analysisCall, marketCall>>

\* handleExporterSelection, handleProductSelection with an explicit choice:
\* prepareForExplicitContextChange and clearResult.
SelectInputs(i) ==
    /\ ControlsShown /\ i # inputs /\ MayPush
    /\ inputs' = i
    /\ restoring' = "no" /\ analyzed' = FALSE
    /\ visited' = IF analyzed THEN Pushed ELSE visited
    /\ url' = [url EXCEPT !.focus = Null]
    /\ analysisCall' = Null /\ ClearMarket
    /\ resolved' = 0 /\ loaded' = Null /\ selected' = Null /\ status' = "idle"
    /\ UNCHANGED <<server, manifest, manifestCall>>

\* The controls have read the inputs of the URL: no explicit choice.
RestoreInputs ==
    /\ ControlsShown /\ restoring = "controls" /\ url.inputs # Null
    /\ inputs' = url.inputs /\ restoring' = "timer"
    /\ UNCHANGED <<server, manifest, url, visited, analyzed, status, loaded, resolved, selected,
                   market, manifestCall, analysisCall, marketCall>>

\* The timer of the canonical restore.
RestoreAnalysis ==
    /\ restoring = "timer" /\ restoring' = "no"
    /\ Analyze(inputs, manifest, FALSE)
    /\ UNCHANGED <<server, manifest, url, visited, inputs, resolved, market, manifestCall, marketCall>>

\* The submit button, and the retry of a limited request.
Submit ==
    /\ ControlsShown /\ inputs # Null /\ status \notin {"loading", "refreshing"}
    /\ Analyze(inputs, manifest, FALSE)
    /\ UNCHANGED <<server, manifest, url, visited, restoring, inputs, resolved, market,
                   manifestCall, marketCall>>

\* The ranking arrives: it is shown, a candidate the URL focuses is selected, if
\* it is ranked, and its market analysis loaded, and the URL names what is shown.
AnalysisArrives ==
    LET call == analysisCall
        focus == IF url.focus \in Ranking[call.inputs][call.build] THEN url.focus ELSE Null
    IN /\ call # Null /\ call.build \in Window(server) /\ call.build \in Window(call.known)
       /\ call.fresh => MayPush
       /\ analysisCall' = Null
       /\ loaded' = [inputs |-> call.inputs, build |-> call.build]
       /\ resolved' = call.build
       /\ selected' = focus
       /\ status' = IF Ranking[call.inputs][call.build] = {} THEN "empty" ELSE "success"
       /\ url' = Location(call.inputs, call.build, focus)
       /\ \/ focus # Null /\ LoadMarket(focus, call.inputs, call.build)
          \/ focus = Null /\ UNCHANGED <<market, marketCall>>
       /\ visited' = IF call.fresh THEN Pushed ELSE visited
       /\ UNCHANGED <<server, manifest, restoring, analyzed, inputs, manifestCall>>

\* Fault: only a retired build is told to the page.
AnalysisFailsSilently ==
    /\ analysisCall # Null /\ analysisCall' = Null
    /\ status' = IF analysisCall.build \in Window(server) THEN status ELSE "stale"
    /\ UNCHANGED <<server, manifest, location, inputs, loaded, resolved, selected, market,
                   manifestCall, marketCall>>

\* It fails: a retired build (410), or another error of the server or the network.
AnalysisFails ==
    /\ analysisCall # Null /\ analysisCall' = Null
    /\ status' = IF analysisCall.build \in Window(server) THEN "error" ELSE "stale"
    /\ UNCHANGED <<server, manifest, location, inputs, loaded, resolved, selected, market,
                   manifestCall, marketCall>>

\* selectCandidateMarket: the link of a row names the loaded result.
SelectCandidate(c) ==
    /\ status = "success" /\ loaded # Null /\ inputs # Null /\ selected = Null /\ MayPush
    /\ c \in Ranking[loaded.inputs][loaded.build]
    /\ selected' = c /\ LoadMarket(c, inputs, resolved)
    /\ visited' = Pushed /\ url' = Location(loaded.inputs, loaded.build, c)
    /\ UNCHANGED <<server, manifest, restoring, analyzed, inputs, status, loaded, resolved,
                   manifestCall, analysisCall>>

\* loadMarketAnalysis answers with an analysis of the requested context.
MarketArrives ==
    /\ marketCall # Null /\ marketCall' = Null
    /\ marketCall.build \in Window(server) /\ market' = marketCall
    /\ UNCHANGED <<server, manifest, location, inputs, status, loaded, resolved, selected,
                   manifestCall, analysisCall>>

\* It fails, or answers with a body that is not such an analysis.
MarketFails ==
    /\ marketCall # Null /\ marketCall' = Null
    /\ UNCHANGED <<server, manifest, location, page, manifestCall, analysisCall>>

\* The retry of a failed market analysis.
RetryMarket ==
    /\ status = "success" /\ loaded # Null /\ selected # Null /\ market = Null /\ marketCall = Null
    /\ LoadMarket(selected, inputs, resolved)
    /\ UNCHANGED <<server, manifest, location, inputs, status, loaded, resolved, selected,
                   manifestCall, analysisCall>>

\* changeScope.
ChangeScope ==
    /\ loaded # Null /\ selected # Null
    /\ selected' = Null /\ ClearMarket
    /\ url' = [url EXCEPT !.focus = Null]
    /\ UNCHANGED <<server, manifest, visited, restoring, analyzed, inputs, status, loaded, resolved,
                   manifestCall, analysisCall>>

\* The location names the ranking that is loaded.
NamesLoaded(u) ==
    manifest # 0 /\ loaded # Null /\ u.inputs = loaded.inputs /\ PinnedBuild(u.pin) = loaded.build

\* restoreContextFromHistory: an unranked candidate of the location stays where it is.
Back(u) ==
    /\ u \in visited /\ u # url
    /\ url' = u /\ visited' = Pushed \ {u}
    /\ \/ /\ NamesLoaded(u)
          /\ \/ u.focus = Null /\ selected' = Null /\ ClearMarket
             \/ /\ u.focus \in Ranking[loaded.inputs][loaded.build]
                /\ selected' = u.focus /\ LoadMarket(u.focus, inputs, resolved)
             \/ /\ u.focus \notin Ranking[loaded.inputs][loaded.build] \cup {Null}
                /\ UNCHANGED <<selected, market, marketCall>>
          /\ UNCHANGED <<restoring, analyzed, inputs, status, loaded, resolved, analysisCall>>
       \/ /\ ~NamesLoaded(u)
          /\ analysisCall' = Null /\ ClearMarket
          /\ analyzed' = FALSE /\ restoring' = "controls"
          /\ inputs' = Null /\ loaded' = Null /\ resolved' = 0 /\ selected' = Null /\ status' = "idle"
    /\ UNCHANGED <<server, manifest, manifestCall>>

\* Another release is activated.
Activate ==
    /\ server < MaxBuild /\ server' = server + 1
    /\ UNCHANGED <<manifest, location, page, manifestCall, analysisCall, marketCall>>

Init ==
    /\ server = 1 /\ manifest = 0
    /\ inputs = Null /\ status = "idle" /\ loaded = Null /\ resolved = 0 /\ selected = Null /\ market = Null
    /\ url \in {Location(i, pin, focus) : i \in Inputs, pin \in {0, 1}, focus \in Candidates \cup {Null}}
              \cup {Location(Null, 0, Null)}
    /\ visited = {} /\ analyzed = FALSE
    /\ restoring = "controls"
    /\ manifestCall = Null /\ analysisCall = Null /\ marketCall = Null

Next ==
    \/ LoadManifest \/ Recover \/ ManifestArrives \/ ManifestFails
    \/ RestoreInputs \/ RestoreAnalysis \/ Submit \/ AnalysisArrives \/ AnalysisFails
    \/ MarketArrives \/ MarketFails \/ RetryMarket \/ ChangeScope \/ Activate
    \/ \E i \in Inputs : SelectInputs(i)
    \/ \E c \in Candidates : SelectCandidate(c)
    \/ \E u \in visited : Back(u)

\* Every call is answered, one way or the other.
Fairness == WF_vars(ManifestArrives \/ ManifestFails) /\ WF_vars(AnalysisArrives \/ AnalysisFails)

Spec == Init /\ [][Next]_vars /\ Fairness
-----------------------------------------------------------------------------
\* The market analysis on the page is the one of the selected candidate, under
\* the build of the ranking, whatever answers arrive late.  Not while a location
\* is being restored: a refresh that was overtaken by the return to it may show
\* its ranking without inputs, and then another return selects a candidate whose
\* market analysis is not loaded.
MarketIsTheSelected ==
    status = "success" /\ restoring = "no" /\ market # Null /\ selected # Null /\ loaded # Null
    => market.candidate = selected /\ market.build = loaded.build

\* The URL that can be copied names the ranking that is shown and the candidate
\* that is selected.  A candidate that is not ranked can be named by a location
\* the user returns to; the page then stays as it was.
UrlNamesTheRanking ==
    loaded # Null =>
        /\ url.inputs = loaded.inputs /\ url.pin \in {0, loaded.build}
        /\ url.focus \in Ranking[loaded.inputs][loaded.build] \cup {Null} => selected = url.focus

\* A page that is loading comes to an end of it.
LoadingEnds == status = "loading" ~> status # "loading"

-----------------------------------------------------------------------------
(* A control.                                                              *)

\* The search effect, which runs when the text, the choice or the build has
\* changed: what was searched is cancelled, and a text is searched anew.
Searched(t, code) ==
    IF code = Null /\ t # "" /\ ~(kind = "economy" /\ t \in TooLong)
    THEN [text |-> t, at |-> "timer", cancelled |-> FALSE] ELSE Null

\* The codes that can be found.
Codes == UNION {Texts[t] : t \in DOMAIN Texts}

\* A control is mounted, and looks the code of the URL up.
BoxInit ==
    /\ kind \in {"economy", "product"} /\ address \in Codes \cup {Null} /\ restore = address
    /\ told = Null /\ text = "" /\ chosen = Null /\ list = Null /\ open = FALSE
    /\ note = "idle" /\ edited = FALSE /\ search = Null

\* The restoration key of the page has changed: another location is restored.
Remount ==
    /\ address' \in Codes \cup {Null} /\ restore' = address'
    /\ told' = Null /\ text' = "" /\ chosen' = Null /\ list' = Null /\ open' = FALSE
    /\ note' = "idle" /\ edited' = FALSE /\ search' = Null
    /\ UNCHANGED kind

\* Another build is current: both effects run again.
Rebuild ==
    /\ restore' = address /\ search' = Searched(text, chosen)
    /\ UNCHANGED <<kind, address, told, text, chosen, list, open, note, edited>>

\* The code of the URL is found, and chosen unless the user has edited.
RestoreArrives ==
    /\ restore # Null /\ restore' = Null
    /\ \/ /\ ~edited
          /\ chosen' = restore /\ told' = restore
          /\ note' = IF kind = "product" THEN "idle" ELSE note
          /\ search' = Searched(text, restore)
       \/ UNCHANGED <<chosen, told, note, search>>
    /\ UNCHANGED <<kind, address, text, list, open, edited>>

RestoreFails ==
    /\ restore # Null /\ restore' = Null
    /\ note' \in IF kind = "product" /\ edited THEN {note} ELSE {"failed", "retired"}
    /\ UNCHANGED <<kind, address, told, text, chosen, list, open, edited, search>>

\* Fault: the search of the former text may still answer.
EditWithoutCancelling(t) ==
    /\ t # text \/ chosen # Null
    /\ edited' = TRUE /\ text' = t /\ chosen' = Null /\ told' = Null
    /\ address' = IF chosen = Null THEN address ELSE Null
    /\ list' = Null /\ open' = FALSE /\ note' = "idle"
    /\ search' = IF search = Null THEN Searched(t, Null) ELSE search
    /\ UNCHANGED <<kind, restore>>

\* onChange: a choice is given up, the list goes, and the text is searched.
Edit(t) ==
    /\ t # text \/ chosen # Null
    /\ edited' = TRUE /\ text' = t /\ chosen' = Null /\ told' = Null
    /\ address' = IF chosen = Null THEN address ELSE Null
    /\ list' = Null /\ open' = FALSE
    /\ note' = IF kind = "economy" /\ t \in TooLong THEN "invalid" ELSE "idle"
    /\ search' = Searched(t, Null)
    /\ UNCHANGED <<kind, restore>>

\* The button of a chosen product.
ChangeProduct ==
    /\ kind = "product" /\ chosen # Null
    /\ chosen' = Null /\ told' = Null /\ address' = Null /\ text' = "" /\ search' = Searched("", Null)
    /\ UNCHANGED <<kind, list, open, note, edited, restore>>

\* onFocus: a list that is there is shown; an empty economy box lists the whole
\* directory, at once.
Focus ==
    /\ \/ /\ list # Null /\ open' = TRUE
          /\ UNCHANGED <<note, search>>
       \/ /\ list = Null /\ kind = "economy" /\ chosen = Null /\ text = ""
          /\ search' = [text |-> "", at |-> "server", cancelled |-> FALSE] /\ note' = "loading"
          /\ UNCHANGED open
    /\ UNCHANGED <<kind, address, told, text, chosen, list, edited, restore>>

\* onBlur: an economy box cancels its search, but not the timer of it.
Blur ==
    /\ open' = FALSE
    /\ \/ /\ kind = "economy" /\ note' = "idle"
          /\ search' = IF search # Null /\ search.at = "timer" THEN [search EXCEPT !.cancelled = TRUE] ELSE Null
       \/ kind = "product" /\ UNCHANGED <<note, search>>
    /\ UNCHANGED <<kind, address, told, text, chosen, list, edited, restore>>

\* The 150 ms are over: the request is made, and ends at once when its
\* controller was aborted, which says nothing to the status line.
SearchTimer ==
    /\ search # Null /\ search.at = "timer" /\ note' = "loading"
    /\ search' = IF search.cancelled THEN Null ELSE [search EXCEPT !.at = "server"]
    /\ UNCHANGED <<kind, address, told, text, chosen, list, open, edited, restore>>

SearchArrives ==
    /\ search # Null /\ search.at = "server" /\ search' = Null
    /\ LET codes == Texts[search.text]
       IN  /\ list' = IF codes = {} THEN Null ELSE [text |-> search.text, codes |-> codes]
           /\ open' = (codes # {})
           /\ note' \in IF codes # {} THEN {"idle"}
                       ELSE IF kind = "economy" THEN {"no-match"} ELSE {"no-match", "unsupported", "too-short"}
    /\ UNCHANGED <<kind, address, told, text, chosen, edited, restore>>

\* It fails, or the build of the control has retired (410).
SearchFails ==
    /\ search # Null /\ search.at = "server" /\ search' = Null
    /\ list' = Null /\ open' = FALSE /\ note' \in {"failed", "retired"}
    /\ UNCHANGED <<kind, address, told, text, chosen, edited, restore>>

\* selectEconomy, selectProduct.
Choose(code) ==
    /\ open /\ code \in list.codes
    /\ edited' = TRUE /\ chosen' = code /\ told' = code /\ address' = code
    /\ list' = Null /\ open' = FALSE /\ note' = "idle" /\ search' = Searched(text, code)
    /\ UNCHANGED <<kind, text, restore>>

BoxNext ==
    \/ Remount \/ Rebuild \/ RestoreArrives \/ RestoreFails \/ ChangeProduct \/ Focus \/ Blur
    \/ SearchTimer \/ SearchArrives \/ SearchFails
    \/ \E t \in DOMAIN Texts : Edit(t)
    \/ \E code \in Codes : Choose(code)

BoxSpec == BoxInit /\ [][BoxNext]_boxVars
-----------------------------------------------------------------------------
\* A choice is what the page was told and what the URL names, whatever is
\* restored, typed or answered meanwhile; the matches that are listed are those
\* of the text in the box; and a product box that says it searches does search.
\* Two things the code does not ensure: a restored product that is given up with
\* the button, while a new build looks it up again, comes back, and the URL does
\* not name it; and an economy box that is left within the 150 ms says that it
\* searches until it is used again.
ControlsNameTheirChoice ==
    /\ told = chosen
    /\ chosen # Null /\ (kind = "economy" \/ edited) => address = chosen
    /\ list # Null => list.text = text
    /\ open => list # Null
    /\ kind = "product" /\ note = "loading" => search # Null
=============================================================================
