--------------------------- MODULE AnalysisRoutes ---------------------------
(***************************************************************************)
(* The routes under /api/v1 that answer a question in JSON: the parameters *)
(* each accepts, the adapters that turn an outcome of the platform into a  *)
(* payload or an error (domain/trade-analytics/*-v1-adapter.ts), and what  *)
(* is sent (http/measured-runtime-route.ts, response.ts,                   *)
(* conditional-request.ts, json-error-response.ts).                        *)
(*                                                                         *)
(* One client asks one address again and again; a cache shared with other  *)
(* clients keeps what the answers let it keep (external, RFC 9111).        *)
(*                                                                         *)
(* An outcome is [state, code, wait, recipe, payload]; a thrown outcome    *)
(* has the family of the error as its code, and recipe is the one of the   *)
(* three calls of a market analysis that failed.  A payload is [result,    *)
(* identity, large] and stands for its own entity tag.                     *)
(***************************************************************************)
EXTENDS Integers, Sequences, FiniteSets, SequencesExt

CONSTANTS
    Null,
    Addresses,          \* the routes
    Requests(_),        \* the requests of a route
    Outcomes(_),        \* what the platform, or a directory, may answer on it
    MaxBodyBytes,
    Hops,               \* proxies trusted
    MaxExchanges        \* bound: requests made

VARIABLES
    address,    \* the route of the address
    exchange,   \* the last request and its answer, or Null
    held,       \* the payload the client holds, or Null
    stored,     \* what the cache keeps: [accepts, answer]
    asked       \* requests made so far
vars == <<address, exchange, held, stored, asked>>
-----------------------------------------------------------------------------
(* Errors.                                                                 *)
Failure(family, code, status) == [family |-> family, code |-> code, status |-> status, wait |-> Null]
Unforeseen == Failure("other", "INTERNAL_ERROR", 500)
Deadline == Failure("deadline", "REQUEST_DEADLINE_EXCEEDED", 503)
AnalysisBudgetExceeded == Failure("budget", "ANALYSIS_BUDGET_EXCEEDED", 413)
AnalysisCapacityExceeded(wait) == [Failure("capacity", "ANALYSIS_CAPACITY_EXCEEDED", 503) EXCEPT !.wait = wait]
AnalysisRateLimited(wait) == [Failure("rate-limit", "ANALYSIS_RATE_LIMITED", 429) EXCEPT !.wait = wait]

\* The errors every family of analyses has.
Common == [INVALID_ANALYSIS_QUERY |-> 400, ANALYSIS_BUILD_RETIRED |-> 410, ANALYSIS_UNAVAILABLE |-> 503]
Unknown(codes) == [code \in codes |-> 404]

CandidateMarketStatus == Common @@ Unknown({"UNKNOWN_EXPORTER", "UNKNOWN_PRODUCT"})
TradeTrendStatus == Common @@ Unknown({"UNKNOWN_IMPORTER", "UNKNOWN_PRODUCT"})
SupplierCompetitionStatus == Common @@ Unknown({"UNKNOWN_IMPORTER", "UNKNOWN_PRODUCT"})
RecentTradeMomentumStatus == Common @@ Unknown({"UNKNOWN_REPORTER", "UNKNOWN_PRODUCT"})
OpportunityDiscoveryStatus ==
    Common @@ Unknown({"UNKNOWN_EXPORT_ECONOMY", "UNKNOWN_HS_PRODUCT"}) @@ [INVALID_CURSOR |-> 400]
TradeExplorerStatus ==
    Common @@ Unknown({"UNKNOWN_EXPORT_ECONOMY", "UNKNOWN_IMPORT_ECONOMY", "UNKNOWN_HS_PRODUCT"})
           @@ [code \in {"UNSUPPORTED_SHAPE", "DIMENSION_MISMATCH", "UNSUPPORTED_MEASURE", "UNSUPPORTED_SORT_KEY",
                         "YEAR_FILTER_INVALID", "YEAR_OUT_OF_FINALIZED_WINDOW",
                         "FIXED_DIMENSION_CARDINALITY_INVALID", "GROUPED_DIMENSION_EMPTY"} |-> 400]
           @@ [NO_COMPATIBLE_DATASET_PACKAGE |-> 503]
MarketAnalysisStatus == [CANDIDATE_MARKET_NOT_FOUND |-> 404]
EconomyDirectoryStatus == [INVALID_ECONOMY_QUERY |-> 400, ANALYSIS_BUILD_RETIRED |-> 410, ANALYSIS_UNAVAILABLE |-> 503]
ProductCatalogStatus ==
    [INVALID_PRODUCT_SEARCH_QUERY |-> 400, PRODUCT_SEARCH_BUILD_RETIRED |-> 410, PRODUCT_SEARCH_UNAVAILABLE |-> 503]
-----------------------------------------------------------------------------
(* The adapters.                                                           *)
Returned(payload) == [payload |-> payload, error |-> Null]
Threw(error) == [payload |-> Null, error |-> error]
Unidentified(called) == IF called.error = Null THEN [called EXCEPT !.payload.identity = Null] ELSE called

\* The cases that all adapters share; answers are the states with a payload.
Adapted(outcome, answers, family, status) ==
    LET Of(code) == Threw(Failure(family, code, status[code]))
    IN CASE outcome.state \in answers -> Returned(outcome.payload)
         [] outcome.state = "invalid-input" /\ outcome.code \in DOMAIN status -> Of(outcome.code)
         [] outcome.state = "retired" -> Of("ANALYSIS_BUILD_RETIRED")
         [] outcome.state = "capacity" -> Threw(AnalysisCapacityExceeded(outcome.wait))
         [] outcome.state = "rate-limit" -> Threw(AnalysisRateLimited(outcome.wait))
         [] outcome.state = "budget" -> Threw(AnalysisBudgetExceeded)
         [] outcome.state \in {"incompatible-package", "temporary-unavailability"} -> Of("ANALYSIS_UNAVAILABLE")
         [] outcome.state = "thrown" /\ outcome.code = "deadline" -> Threw(Deadline)
         [] OTHER -> Threw(Unforeseen)

ExecuteCandidateMarketV1(outcome) ==
    Unidentified(Adapted(outcome, {"success", "empty"}, "candidate-market", CandidateMarketStatus))
ExecuteTradeTrendV1(outcome) == Adapted(outcome, {"success"}, "trade-trend", TradeTrendStatus)
ExecuteSupplierCompetitionV1(outcome) ==
    Adapted(outcome, {"success", "empty"}, "supplier-competition", SupplierCompetitionStatus)
ExecuteRecentTradeMomentumV1(outcome) ==
    Adapted(outcome, {"success"}, "recent-trade-momentum", RecentTradeMomentumStatus)
ExecuteOpportunityDiscoveryV1(outcome) ==
    Adapted(outcome, {"success", "empty"}, "opportunity-discovery", OpportunityDiscoveryStatus)
ExecuteOpportunityDetailV1(outcome) ==
    Unidentified(Adapted(outcome, {"success"}, "opportunity-discovery", OpportunityDiscoveryStatus))
\* The only one that tells an incompatible package from an outage.
ExecuteTradeExplorerV1(outcome) ==
    IF outcome.state = "incompatible-package"
    THEN Threw(Failure("trade-explorer", "NO_COMPATIBLE_DATASET_PACKAGE", 503))
    ELSE Adapted(outcome, {"success", "empty"}, "trade-explorer", TradeExplorerStatus)
\* A market analysis throws what the adapter of the call that failed throws.
LoadMarketAnalysis(outcome) ==
    CASE outcome.state = "not-found" -> Threw(Failure("market-analysis", "CANDIDATE_MARKET_NOT_FOUND",
                                                          MarketAnalysisStatus["CANDIDATE_MARKET_NOT_FOUND"]))
      [] outcome.recipe = "candidate-market" -> ExecuteCandidateMarketV1(outcome)
      [] outcome.recipe = "trade-trend" -> ExecuteTradeTrendV1(outcome)
      [] outcome.recipe = "supplier-competition" -> ExecuteSupplierCompetitionV1(outcome)
      [] OTHER -> IF outcome.state = "success" THEN Returned(outcome.payload) ELSE Threw(Unforeseen)
\* A directory answers or throws an error of its own family.
Search(outcome, family, status) ==
    CASE outcome.state = "success" -> Returned(outcome.payload)
      [] outcome.code \in DOMAIN status -> Threw(Failure(family, outcome.code, status[outcome.code]))
      [] outcome.code = "deadline" -> Threw(Deadline)
      [] OTHER -> Threw(Unforeseen)
-----------------------------------------------------------------------------
(* The parameters.                                                         *)

\* Each required parameter once, each optional one at most once, no others.
Accepts(parameters, required, optional) ==
    /\ required \subseteq DOMAIN parameters
    /\ DOMAIN parameters \subseteq required \union optional
    /\ \A key \in DOMAIN parameters : parameters[key] = 1

CandidateMarketParameters(p) == Accepts(p, {"exporter", "product"}, {})
TradeTrendParameters(p) == Accepts(p, {"importer", "product"}, {})
SupplierCompetitionParameters(p) == Accepts(p, {"importer", "product"}, {})
MarketAnalysisParameters(p) == Accepts(p, {"exporter", "product", "market"}, {})
RecentTradeMomentumParameters(p) == Accepts(p, {"reporter", "product"}, {"exporter"})
OpportunitiesParameters(p) == Accepts(p, {"exporter"}, {"limit", "cursor", "products"})
OpportunityDetailParameters(p) == Accepts(p, {"exporter"}, {})
EconomyParameters(p) == Accepts(p, {"q"}, {})
ProductParameters(p, values) ==
    Accepts(p, {"q", "locale", "limit"}, {}) /\ values.locale \in {"en", "zh-Hans"} /\ values.limit \in 1..20

\* The error of a body that is read in chunks, or Null.  declared is -1 for a
\* length that is no number and 0 for none; aborted is the read that finds the
\* signal aborted, for its reason, or Null.
ReadBoundedJsonBody(b) ==
    LET invalid == Failure("trade-explorer", "INVALID_ANALYSIS_QUERY", 400)
        total(i) == FoldSeq(LAMBDA chunk, sum : chunk.size + sum, 0, SubSeq(b.chunks, 1, i))
        over == {i \in DOMAIN b.chunks : total(i) > MaxBodyBytes}
        garbled == {i \in DOMAIN b.chunks : ~b.chunks[i].text}
        stops(i) == \A j \in over \union garbled : i <= j
    IN IF b.declared < 0 THEN invalid
       ELSE IF b.declared > MaxBodyBytes THEN AnalysisBudgetExceeded
       ELSE IF b.chunks = <<>> THEN invalid
       ELSE IF b.aborted # Null /\ stops(b.aborted) THEN b.reason
       ELSE IF \E i \in over : stops(i) THEN AnalysisBudgetExceeded
       ELSE IF garbled # {} \/ b.content # "question" THEN invalid
       ELSE Null

\* What the address, or the body, of an explorer's question is refused for.
QueryFor(request) ==
    IF request.method = "POST" THEN ReadBoundedJsonBody(request.body)
    ELSE IF request.values THEN Null
    ELSE Failure("trade-explorer", "INVALID_ANALYSIS_QUERY", 400)

\* The client's address among those the header lists, the last one added last.
TrustedClientAddress(listed, hops) ==
    IF Len(listed) > hops THEN listed[Len(listed) - hops] ELSE Null
-----------------------------------------------------------------------------
(* The answers.                                                            *)

Matches(condition, tag) == condition # Null /\ (condition.any \/ tag \in condition.tags)

\* A payload is sent with its tag, unless the client holds it.
Tagged(request, called) ==
    IF called.error # Null THEN called
    ELSE LET matched == Matches(request.condition, called.payload)
         IN [error |-> Null, status |-> IF matched THEN 304 ELSE 200,
             body |-> IF matched THEN Null ELSE called.payload, code |-> Null, tag |-> called.payload,
             cache |-> "immutable", vary |-> {"accept-encoding"}, encoding |-> Null, wait |-> Null]

CandidateMarketRespond(request, outcome) ==
    IF CandidateMarketParameters(request.parameters) THEN Tagged(request, ExecuteCandidateMarketV1(outcome))
    ELSE Threw(Failure("candidate-market", "INVALID_ANALYSIS_QUERY", 400))
TradeTrendRespond(request, outcome) ==
    IF TradeTrendParameters(request.parameters) THEN Tagged(request, ExecuteTradeTrendV1(outcome))
    ELSE Threw(Failure("trade-trend", "INVALID_ANALYSIS_QUERY", 400))
SupplierCompetitionRespond(request, outcome) ==
    IF SupplierCompetitionParameters(request.parameters) THEN Tagged(request, ExecuteSupplierCompetitionV1(outcome))
    ELSE Threw(Failure("supplier-competition", "INVALID_ANALYSIS_QUERY", 400))
\* Refused parameters are an error of the candidate-market family.
MarketAnalysisRespond(request, outcome) ==
    IF MarketAnalysisParameters(request.parameters) THEN Tagged(request, LoadMarketAnalysis(outcome))
    ELSE Threw(Failure("candidate-market", "INVALID_ANALYSIS_QUERY", 400))
RecentTradeMomentumRespond(request, outcome) ==
    IF RecentTradeMomentumParameters(request.parameters) THEN Tagged(request, ExecuteRecentTradeMomentumV1(outcome))
    ELSE Threw(Failure("recent-trade-momentum", "INVALID_ANALYSIS_QUERY", 400))
OpportunitiesRespond(request, outcome) ==
    IF OpportunitiesParameters(request.parameters) THEN Tagged(request, ExecuteOpportunityDiscoveryV1(outcome))
    ELSE Threw(Failure("opportunity-discovery", "INVALID_ANALYSIS_QUERY", 400))
OpportunityDetailRespond(request, outcome) ==
    IF OpportunityDetailParameters(request.parameters) THEN Tagged(request, ExecuteOpportunityDetailV1(outcome))
    ELSE Threw(Failure("opportunity-discovery", "INVALID_ANALYSIS_QUERY", 400))
\* A question that was posted is answered in full and not to be stored.
Posted(answer) == IF answer.error = Null THEN [answer EXCEPT !.cache = "no-store"] ELSE answer
TradeExplorerRespond(request, outcome) ==
    IF QueryFor(request) # Null THEN Threw(QueryFor(request))
    ELSE IF request.method # "POST" THEN Tagged(request, ExecuteTradeExplorerV1(outcome))
    ELSE Posted(Tagged([request EXCEPT !.condition = Null], ExecuteTradeExplorerV1(outcome)))
EconomiesRespond(request, outcome) ==
    IF EconomyParameters(request.parameters) THEN Tagged(request, Search(outcome, "economy", EconomyDirectoryStatus))
    ELSE Threw(Failure("economy", "INVALID_ECONOMY_QUERY", 400))
ProductsRespond(request, outcome) ==
    IF ProductParameters(request.parameters, request.values)
    THEN Tagged(request, Search(outcome, "catalog", ProductCatalogStatus))
    ELSE Threw(Failure("catalog", "INVALID_PRODUCT_SEARCH_QUERY", 400))

Respond(route, request, outcome) ==
    CASE route = "candidate-markets" -> CandidateMarketRespond(request, outcome)
      [] route = "trade-trends" -> TradeTrendRespond(request, outcome)
      [] route = "supplier-competitions" -> SupplierCompetitionRespond(request, outcome)
      [] route = "market-analysis" -> MarketAnalysisRespond(request, outcome)
      [] route = "recent-trade-momentum" -> RecentTradeMomentumRespond(request, outcome)
      [] route = "opportunities" -> OpportunitiesRespond(request, outcome)
      [] route = "opportunity-detail" -> OpportunityDetailRespond(request, outcome)
      [] route = "trade-explorer" -> TradeExplorerRespond(request, outcome)
      [] route = "economies" -> EconomiesRespond(request, outcome)
      [] route = "products" -> ProductsRespond(request, outcome)
-----------------------------------------------------------------------------
(* Errors as they are sent: a route tells those of the families it knows.  *)
Overload == {"capacity", "rate-limit", "budget"}
CandidateMarketErrors == Overload \union {"candidate-market"}
TradeTrendErrors == Overload \union {"trade-trend"}
SupplierCompetitionErrors == Overload \union {"supplier-competition"}
MarketAnalysisErrors ==
    Overload \union {"market-analysis", "candidate-market", "trade-trend", "supplier-competition"}
RecentTradeMomentumErrors == Overload \union {"recent-trade-momentum"}
OpportunitiesErrors == Overload \union {"opportunity-discovery"}
OpportunityDetailErrors == Overload \union {"opportunity-discovery"}
TradeExplorerErrors == Overload \union {"trade-explorer"}
EconomiesErrors == {"economy"}
ProductsErrors == {"catalog"}

Known(route) ==
    CASE route = "candidate-markets" -> CandidateMarketErrors
      [] route = "trade-trends" -> TradeTrendErrors
      [] route = "supplier-competitions" -> SupplierCompetitionErrors
      [] route = "market-analysis" -> MarketAnalysisErrors
      [] route = "recent-trade-momentum" -> RecentTradeMomentumErrors
      [] route = "opportunities" -> OpportunitiesErrors
      [] route = "opportunity-detail" -> OpportunityDetailErrors
      [] route = "trade-explorer" -> TradeExplorerErrors
      [] route = "economies" -> EconomiesErrors
      [] route = "products" -> ProductsErrors

JsonErrorResponse(error) ==
    [error |-> error.family, status |-> error.status, body |-> Null, code |-> error.code, tag |-> Null,
     cache |-> "no-store", vary |-> {}, encoding |-> Null, wait |-> error.wait]

GzipResponseWhenRequested(request, answer) ==
    IF ~request.gzip \/ answer.body = Null \/ answer.encoding # Null \/ ~answer.body.large THEN answer
    ELSE [answer EXCEPT !.encoding = "gzip", !.vary = @ \union {"accept-encoding"}]

WithoutResponseBody(answer) == [answer EXCEPT !.body = Null]

\* createMeasuredRuntimeRoute: what is sent for what a route answers or throws.
Sent(route, request, result) ==
    LET told == result.error.family \in Known(route) \union {"deadline"}
        answer == IF result.error = Null THEN result
                  ELSE JsonErrorResponse(IF told THEN result.error ELSE Unforeseen)
    IN IF request.method = "HEAD" THEN WithoutResponseBody(answer)
       ELSE IF result.error = Null THEN GzipResponseWhenRequested(request, answer)
       ELSE answer

Measured(route, request, outcome) == Sent(route, request, Respond(route, request, outcome))
-----------------------------------------------------------------------------
Init ==
    /\ address \in Addresses
    /\ exchange = Null /\ held = Null /\ stored = {} /\ asked = 0

\* What a condition may be: none, any, the payload the client holds.
Conditions ==
    {Null, [any |-> TRUE, tags |-> {}]} \union
        IF held = Null THEN {} ELSE {[any |-> FALSE, tags |-> {held}]}

\* A cache keeps the answers to GET that may be kept, by what they vary with.
Storable(request, answer) == request.method = "GET" /\ answer.status = 200 /\ answer.cache = "immutable"
Selecting(request, answer) == IF "accept-encoding" \in answer.vary THEN {request.gzip} ELSE BOOLEAN

\* A request reaches the route, and its answer the client and the cache.
Receive(request, outcome, answer) ==
    /\ exchange' = [request |-> request, outcome |-> outcome, answer |-> answer]
    /\ held' = IF answer.body = Null THEN held ELSE answer.body
    /\ stored' = IF ~Storable(request, answer) THEN stored
                 ELSE {s \in stored : s.accepts \notin Selecting(request, answer)}
                      \union {[accepts |-> a, answer |-> answer] : a \in Selecting(request, answer)}
    /\ UNCHANGED address

Ask(r, condition, outcome) ==
    LET request == [r EXCEPT !.condition = condition]
    IN /\ r.method = "POST" => condition = Null
       /\ Receive(request, outcome, Measured(address, request, outcome))

\* The cache answers a request of a client that holds nothing.
Hit(r, s) ==
    /\ r.method = "GET" /\ s.accepts = r.gzip
    /\ exchange' = [request |-> r, outcome |-> Null, answer |-> s.answer]
    /\ held' = s.answer.body
    /\ UNCHANGED <<address, stored>>

Next ==
    /\ asked < MaxExchanges /\ asked' = asked + 1
    /\ \E r \in Requests(address) :
           \/ \E condition \in Conditions : \E o \in Outcomes(address) : Ask(r, condition, o)
           \/ \E s \in stored : Hit(r, s)

Spec == Init /\ [][Next]_vars
-----------------------------------------------------------------------------
\* What is kept is a payload, and it reaches no client in an encoding that
\* client did not accept (the routes say Vary: Accept-Encoding and compress
\* themselves).
EncodingsAreAccepted ==
    exchange # Null =>
        /\ exchange.answer.encoding # Null => exchange.request.gzip
        /\ exchange.outcome = Null => exchange.answer.status = 200 /\ exchange.answer.body # Null

\* The same request without a condition, by the method.
Unconditional(method) ==
    Measured(address, [exchange.request EXCEPT !.condition = Null, !.method = method], exchange.outcome)

\* "Not modified" is said only when the client holds what it would be sent, or
\* asked for any; a HEAD tells what the GET would.
RevalidationIsTrue ==
    exchange # Null /\ exchange.outcome # Null =>
        /\ exchange.answer.status = 304 =>
               \/ exchange.request.condition.any
               \/ Unconditional("GET").body = held
        /\ exchange.request.method = "HEAD" /\ exchange.request.condition = Null =>
               exchange.answer = [Unconditional("GET") EXCEPT !.body = Null, !.encoding = Null]

\* An outcome of the platform is told with one status on every route that may
\* meet it, and is an internal error on none; a client is told when to try
\* again exactly when it was refused for the load.
StatusOf ==
    ("retired" :> 410) @@ ("capacity" :> 503) @@ ("rate-limit" :> 429) @@ ("budget" :> 413)
        @@ ("incompatible-package" :> 503) @@ ("temporary-unavailability" :> 503)
OutcomesAreToldAlike ==
    exchange # Null /\ exchange.outcome # Null =>
        LET o == exchange.outcome
            nothing == [result |-> Null, identity |-> Null, large |-> FALSE]
            accepted == Respond(address, [exchange.request EXCEPT !.condition = Null],
                                [o EXCEPT !.state = "success", !.recipe = Null, !.payload = nothing]).error = Null
        IN /\ accepted => (exchange.answer.status = 500 <=> (o.state = "thrown" /\ o.code = "other"))
           /\ (exchange.answer.wait # Null) <=> (accepted /\ o.state \in {"capacity", "rate-limit"})
           /\ accepted /\ o.state \in DOMAIN StatusOf => exchange.answer.status = StatusOf[o.state]

\* A body is refused for its size whatever size was declared, and an abort is
\* told from a body that is not valid.
BodiesAreBounded ==
    exchange # Null /\ exchange.request.method = "POST" /\ exchange.answer.status = 200 =>
        FoldSeq(LAMBDA chunk, sum : chunk.size + sum, 0, exchange.request.body.chunks) <= MaxBodyBytes

\* The address a request is attributed to is the one the outermost trusted
\* proxy saw, whatever the client listed before.
AttributedToTheSender ==
    \A claimed \in {<<>>, <<"x">>, <<"x", "y">>} :
        TrustedClientAddress(claimed \o <<"client">> \o [i \in 1..Hops |-> "proxy"], Hops) = "client"

RoutesAnswerTruly ==
    /\ EncodingsAreAccepted
    /\ RevalidationIsTrue
    /\ OutcomesAreToldAlike
    /\ BodiesAreBounded
    /\ AttributedToTheSender
=============================================================================
