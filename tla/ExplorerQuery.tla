---------------------------- MODULE ExplorerQuery ----------------------------
(***************************************************************************)
(* A Trade Explorer question on its way from a page to the recipe: as the  *)
(* body of a POST (trade-explorer-v1-request-body.ts) or in the address    *)
(* (trade-explorer-v1-query-codec.ts), and then in its normal form         *)
(* (normalize.ts, shapes.ts).                                              *)
(*                                                                         *)
(* A code is a pair of the number it stands for, or Null if it is          *)
(* malformed, and the way it is written ("7", "07" are two of number 7).   *)
(* The year filter is [mode |-> "list", years] or [mode |-> "range",       *)
(* start, end].  A parameter of an address is a sequence of values, each a *)
(* sequence of tokens.                                                     *)
(*                                                                         *)
(* Then the links of the web application (trade-analysis-context.ts): what *)
(* a page reads out of its own address, and writes back.  Such a link is a *)
(* function from the parameters it has.                                    *)
(***************************************************************************)
EXTENDS Integers, Sequences, FiniteSets, SequencesExt, FiniteSetsExt

CONSTANTS
    Asked,          \* the questions that are asked
    Addresses,      \* addresses that nobody encoded
    FinalizedWindow, MaxFilterCodes, MaxYears, Null,
    Typed,            \* links that somebody typed, or kept
    Recommended,      \* the packages of each build: recipe -> package or Null
    MaxProductCodes,  \* of a link to opportunities
    WindowLength      \* of the deployments that are kept

VARIABLES
    question,   \* what a page asks, or Null
    address,    \* what is in the address, or Null
    posted,     \* the answer to the POST, or Null
    gotten,     \* the answer to the GET, or Null
    link,       \* the link of a page
    context,    \* what the page last wrote into it, or Null
    deployed    \* the deployment window: builds, the current one first
vars == <<question, address, posted, gotten>>
linkVars == <<link, context, deployed>>

MeasureOrder == <<"TRADE_VALUE_USD", "RECORDED_FLOW_COUNT">>
GroupedDimension ==
    [shape \in {"finalized-trend-v1", "importing-markets-v1", "supplying-economies-v1", "product-mix-v1"} |->
        CASE shape = "finalized-trend-v1" -> "YEAR"
          [] shape = "importing-markets-v1" -> "IMPORT_ECONOMY"
          [] shape = "supplying-economies-v1" -> "EXPORT_ECONOMY"
          [] shape = "product-mix-v1" -> "HS_PRODUCT"]
CodeDimensions == <<"EXPORT_ECONOMY", "IMPORT_ECONOMY", "HS_PRODUCT">>

Refused(code) == [error |-> code]
Budget == "INPUT_CARDINALITY_BUDGET_EXCEEDED"
Invalid == "INVALID_ANALYSIS_QUERY"

\* The first error of a sequence of checks, or Null.
FirstError(errors) ==
    LET found == SelectSeq(errors, LAMBDA e : e # Null) IN IF found = <<>> THEN Null ELSE found[1]

Ascending(S) == SetToSortSeq(S, <)
-----------------------------------------------------------------------------
\* normalizeTradeExplorerV1Request
MeasuresError(measures) ==
    IF \/ measures = <<>> \/ Len(measures) > Len(MeasureOrder)
       \/ ~(ToSet(measures) \subseteq ToSet(MeasureOrder))
    THEN "UNSUPPORTED_MEASURE" ELSE Null
NormalMeasures(measures) == SelectSeq(MeasureOrder, LAMBDA m : m \in ToSet(measures))

\* A fixed dimension has one code, however often and in whatever way it is
\* written; the budget is of what is declared.
CodesError(codes, grouped) ==
    LET numbers == {codes[i].number : i \in DOMAIN codes}
    IN  IF Len(codes) > MaxFilterCodes THEN Budget
        ELSE IF Null \in numbers THEN Invalid
        ELSE IF grouped /\ codes = <<>> THEN "GROUPED_DIMENSION_EMPTY"
        ELSE IF ~grouped /\ Cardinality(numbers) # 1 THEN "FIXED_DIMENSION_CARDINALITY_INVALID"
        ELSE Null
NormalCodes(codes) == Ascending({codes[i].number : i \in DOMAIN codes})

ExpandYearFilter(year) == IF year.mode = "list" THEN ToSet(year.years) ELSE year.start..year.end
EffectiveYears(year, grouped) ==
    IF grouped /\ ExpandYearFilter(year) = {} THEN FinalizedWindow ELSE ExpandYearFilter(year)

YearError(year, grouped) ==
    LET declared == IF year.mode = "list" THEN Len(year.years) ELSE year.end - year.start + 1
        years == EffectiveYears(year, grouped)
    IN  IF year.mode = "range" /\ year.end < year.start THEN "YEAR_FILTER_INVALID"
        ELSE IF declared > MaxYears THEN Budget
        ELSE IF ~grouped /\ Cardinality(years) # 1 THEN "YEAR_FILTER_INVALID"
        ELSE IF ~(years \subseteq FinalizedWindow) THEN "YEAR_OUT_OF_FINALIZED_WINDOW"
        ELSE IF Cardinality(years) > MaxYears THEN Budget
        ELSE Null

SortError(sort, grouped, measures) ==
    IF sort = Null THEN Null
    ELSE IF sort.direction \notin {"asc", "desc"} THEN Invalid
    ELSE IF sort.key \notin {grouped} \cup ToSet(measures) THEN "UNSUPPORTED_SORT_KEY"
    ELSE Null

NormalizeRequest(q) ==
    IF q.shape \notin DOMAIN GroupedDimension THEN Refused("UNSUPPORTED_SHAPE")
    ELSE LET grouped == GroupedDimension[q.shape]
             error == FirstError(
                 <<IF q.dimensions # <<grouped>> THEN "DIMENSION_MISMATCH" ELSE Null, MeasuresError(q.measures)>>
                 \o [i \in DOMAIN CodeDimensions |->
                        CodesError(q.filters[CodeDimensions[i]], grouped = CodeDimensions[i])]
                 \o <<YearError(q.year, grouped = "YEAR"), SortError(q.sort, grouped, q.measures)>>)
         IN  IF error # Null THEN Refused(error)
             ELSE [error |-> Null, shape |-> q.shape, dimension |-> grouped,
                   measures |-> NormalMeasures(q.measures),
                   years |-> Ascending(EffectiveYears(q.year, grouped = "YEAR")),
                   filters |-> [d \in ToSet(CodeDimensions) |-> NormalCodes(q.filters[d])],
                   sort |-> IF q.sort = Null THEN [key |-> grouped, direction |-> "asc"] ELSE q.sort]
-----------------------------------------------------------------------------
\* The question in an address.  A range is written out; a list without a year
\* and no sort are left out; a range that has no year, or too many, throws.
EncodeQuery(q) ==
    LET years == IF q.year.mode = "list" THEN q.year.years
                 ELSE [i \in 1..(q.year.end - q.year.start + 1) |-> q.year.start + i - 1]
    IN  [shape |-> <<q.shape>>, measures |-> <<q.measures>>,
         years |-> IF years = <<>> THEN <<>> ELSE <<years>>,
         filters |-> [d \in ToSet(CodeDimensions) |-> <<q.filters[d]>>],
         sortKey |-> IF q.sort = Null THEN <<>> ELSE <<q.sort.key>>,
         sortDirection |-> IF q.sort = Null THEN <<>> ELSE <<q.sort.direction>>, unknown |-> FALSE]
Encodable(q) == q.year.mode = "range" => q.year.end - q.year.start + 1 \in 1..MaxYears

\* No parameter but those of a question, none of them twice.
Malformed(a) ==
    \/ a.unknown
    \/ 1 < Max({Len(a.shape), Len(a.measures), Len(a.years), Len(a.sortKey), Len(a.sortDirection)}
               \cup {Len(a.filters[d]) : d \in ToSet(CodeDimensions)})

TooMany(values, limit) == values # <<>> /\ Len(Last(values)) > limit

\* A missing or empty list of codes is malformed, one of years is empty; more
\* codes or years than the budget throw before any of them is looked at.
DecodeQuery(a) ==
    IF \/ Malformed(a) \/ a.shape = <<>> THEN Refused(Invalid)
    ELSE IF Last(a.shape) \notin DOMAIN GroupedDimension THEN Refused(Invalid)
    ELSE IF a.measures = <<>> THEN Refused(Invalid)
    ELSE IF MeasuresError(Last(a.measures)) # Null THEN Refused(Invalid)
    ELSE IF \/ TooMany(a.years, MaxYears)
            \/ \E d \in ToSet(CodeDimensions) : TooMany(a.filters[d], MaxFilterCodes)
         THEN Refused(Budget)
    ELSE IF \/ \E d \in ToSet(CodeDimensions) : \/ a.filters[d] = <<>>
                                                \/ Last(a.filters[d]) = <<>>
                                                \/ \E i \in DOMAIN Last(a.filters[d]) : Last(a.filters[d])[i].number = Null
            \/ (a.sortKey = <<>>) # (a.sortDirection = <<>>)
            \/ a.sortDirection # <<>> /\ Last(a.sortDirection) \notin {"asc", "desc"}
         THEN Refused(Invalid)
    ELSE [error |-> Null,
          query |-> [shape |-> Last(a.shape), dimensions |-> <<GroupedDimension[Last(a.shape)]>>,
                     measures |-> Last(a.measures),
                     year |-> [mode |-> "list", years |-> IF a.years = <<>> THEN <<>> ELSE Last(a.years)],
                     filters |-> [d \in ToSet(CodeDimensions) |-> Last(a.filters[d])],
                     sort |-> IF a.sortKey = <<>> THEN Null
                              ELSE [key |-> Last(a.sortKey), direction |-> Last(a.sortDirection)]]]

\* parseTradeExplorerRequestBody: a body with exactly the fields of a question.
ParseBody(q) == IF q.exact THEN [error |-> Null, query |-> q] ELSE Refused(Invalid)

Answer(parsed) == IF parsed.error # Null THEN parsed ELSE NormalizeRequest(parsed.query)
-----------------------------------------------------------------------------
Init ==
    /\ \/ question \in Asked /\ address = Null
       \/ question = Null /\ address \in Addresses
    /\ posted = Null /\ gotten = Null

Post ==
    /\ question # Null /\ posted = Null
    /\ posted' = Answer(ParseBody(question))
    /\ UNCHANGED <<question, address, gotten>>

\* The page shows the address of its question.
Encode ==
    /\ question # Null /\ address = Null /\ Encodable(question)
    /\ address' = EncodeQuery(question)
    /\ UNCHANGED <<question, posted, gotten>>

Get ==
    /\ address # Null /\ gotten = Null
    /\ gotten' = Answer(DecodeQuery(address))
    /\ UNCHANGED <<question, address, posted>>

Next == Post \/ Encode \/ Get
-----------------------------------------------------------------------------
\* A question has one answer whichever way it comes: what the POST accepts can
\* be put in an address, and the GET accepts it in the same normal form; what
\* the GET accepts the POST refuses only if it names the wrong dimension or has
\* a field too many.
TransportsAgree ==
    /\ question # Null /\ posted # Null /\ gotten # Null =>
           /\ posted.error = Null => gotten = posted
           /\ gotten.error = Null => posted = gotten \/ posted.error = "DIMENSION_MISMATCH" \/ ~question.exact
    /\ question # Null /\ posted # Null => (posted.error = Null => Encodable(question))

\* The normal form of a question, as a question.
AsQuestion(normal) ==
    [shape |-> normal.shape, dimensions |-> <<normal.dimension>>, measures |-> normal.measures,
     year |-> [mode |-> "list", years |-> normal.years],
     filters |-> [d \in ToSet(CodeDimensions) |->
                     [i \in DOMAIN normal.filters[d] |-> [number |-> normal.filters[d][i], written |-> "plain"]]],
     sort |-> normal.sort, exact |-> TRUE]

\* The same question, everything in the opposite order.
Turned(q) ==
    [q EXCEPT !.measures = Reverse(q.measures),
              !.year = IF q.year.mode = "list" THEN [mode |-> "list", years |-> Reverse(q.year.years)] ELSE q.year,
              !.filters = [d \in ToSet(CodeDimensions) |-> Reverse(q.filters[d])]]

\* The same question, every code written in the plain way.
Plain(q) ==
    [q EXCEPT !.filters = [d \in ToSet(CodeDimensions) |->
                               [i \in DOMAIN q.filters[d] |-> [q.filters[d][i] EXCEPT !.written = "plain"]]]]

\* Equal questions have equal normal forms, so that an analysis is computed and
\* kept once: the order of what is asked and the way codes are written make no
\* difference, and a normal form is its own normal form.
NormalFormsAreCanonical ==
    question # Null /\ posted # Null =>
        /\ NormalizeRequest(Plain(question)) = NormalizeRequest(question)
        /\ posted.error = Null => /\ NormalizeRequest(AsQuestion(posted)) = posted
                                  /\ NormalizeRequest(Turned(question)) = posted
        /\ posted.error # Null => NormalizeRequest(Turned(question)).error # Null \/ ~question.exact

QuestionsAreUnderstood == TransportsAgree /\ NormalFormsAreCanonical
-----------------------------------------------------------------------------
(* Links.                                                                  *)

ImporterShaped == {"trade-trend", "supplier-competition"}
Recipes == {"opportunity-discovery", "candidate-market", "trade-explorer"} \cup ImporterShaped
DefaultRecipe == "opportunity-discovery"

Of(u, name) == IF name \in DOMAIN u THEN u[name] ELSE Null
IsCode(c) == c.number # Null
CodeIn(u, name) == IF Of(u, name) # Null /\ IsCode(u[name]) THEN u[name] ELSE Null
ProductIn(u) == IF Of(u, "revision") = "HS12" THEN CodeIn(u, "product") ELSE Null

\* A list that is too long, or has a malformed token, is no list.
Tokens(u, name) == IF name \in DOMAIN u THEN ToSet(u[name]) ELSE {}
ListIn(u, name, wellFormed, limit) ==
    IF name \in DOMAIN u /\ wellFormed /\ Len(u[name]) <= limit THEN u[name] ELSE <<>>
CodesIn(u, name, limit) == ListIn(u, name, \A c \in Tokens(u, name) : IsCode(c), limit)

\* The recipe of a link, by its name, by the task of an old link, or by the
\* parameters that only old links to candidate markets have.
ParseRecipe(u) ==
    IF "recipe" \in DOMAIN u THEN IF u.recipe \in Recipes THEN u.recipe ELSE DefaultRecipe
    ELSE IF "task" \in DOMAIN u THEN IF u.task \in ImporterShaped THEN u.task ELSE DefaultRecipe
    ELSE IF CodeIn(u, "market") # Null \/ (CodeIn(u, "exporter") # Null /\ ProductIn(u) # Null)
         THEN "candidate-market" ELSE DefaultRecipe

\* A malformed name of a build or a package is as none.
PinIn(u) ==
    IF Of(u, "build") # Null /\ Of(u, "pkg") # Null THEN [build |-> u.build, pkg |-> u.pkg] ELSE Null

SortIn(key, direction, shape, measures) ==
    IF \/ key = Null \/ shape = Null \/ direction \notin {"asc", "desc"}
       \/ key \notin {GroupedDimension[shape]} \cup ToSet(measures)
    THEN Null ELSE [key |-> key, direction |-> direction]

\* parseTradeAnalysisContext.  The economy is the exporter or the importer,
\* whichever the recipe has.
ParseExplorer(u) ==
    LET shape == IF Of(u, "shape") \in DOMAIN GroupedDimension THEN u.shape ELSE Null
        measures == ListIn(u, "measures", Tokens(u, "measures") \subseteq ToSet(MeasureOrder), Len(MeasureOrder))
    IN  [shape |-> shape, measures |-> measures, years |-> ListIn(u, "years", Null \notin Tokens(u, "years"), MaxYears),
         exporters |-> CodesIn(u, "exportEconomy", MaxFilterCodes),
         importers |-> CodesIn(u, "importEconomy", MaxFilterCodes),
         products |-> CodesIn(u, "hsProduct", MaxFilterCodes),
         sort |-> SortIn(Of(u, "sortKey"), Of(u, "sortDirection"), shape, measures)]
ParseOpportunities(u) ==
    LET products == CodesIn(u, "products", MaxProductCodes)
    IN  [economy |-> CodeIn(u, "exporter"),
         products |-> IF products = <<>> /\ ProductIn(u) # Null THEN <<ProductIn(u)>> ELSE products,
         focusProduct |-> CodeIn(u, "focusProduct"), market |-> CodeIn(u, "market"),
         portfolio |-> Of(u, "portfolio") = "filter"]
Parse(u) ==
    LET recipe == ParseRecipe(u)
    IN  [recipe |-> recipe, locale |-> IF Of(u, "locale") = "zh-Hans" THEN "zh-Hans" ELSE "en", pin |-> PinIn(u)]
        @@ CASE recipe = "trade-explorer" -> ParseExplorer(u)
             [] recipe = "opportunity-discovery" -> ParseOpportunities(u)
             [] recipe = "candidate-market" ->
                    [economy |-> CodeIn(u, "exporter"), product |-> ProductIn(u), market |-> CodeIn(u, "market")]
             [] OTHER -> [economy |-> CodeIn(u, "importer"), product |-> ProductIn(u)]

HasCompleteInputs(c) ==
    CASE c.recipe = "opportunity-discovery" -> c.economy # Null
      [] c.recipe = "trade-explorer" -> c.shape # Null /\ <<>> \notin {c.measures, c.exporters, c.importers, c.products}
      [] OTHER -> c.economy # Null /\ c.product # Null

\* Fault: the recipe is named only once there is something to analyze.
NamesRecipeWhenComplete(c) == HasCompleteInputs(c) \/ c.pin # Null
NamesRecipe(c) == c.recipe # DefaultRecipe \/ HasCompleteInputs(c) \/ c.pin # Null

CanonicalCodes(codes) ==
    LET numbers == Ascending({codes[i].number : i \in DOMAIN codes})
    IN  [i \in DOMAIN numbers |-> [number |-> numbers[i], written |-> "plain"]]

\* serializeTradeAnalysisContext
Serialize(c) ==
    LET OrNull(list) == IF list = <<>> THEN Null ELSE list
        If(condition, value) == IF condition THEN value ELSE Null
        sort == IF c.sort = Null THEN Null ELSE SortIn(c.sort.key, c.sort.direction, c.shape, c.measures)
        own == CASE c.recipe = "trade-explorer" ->
                        [shape |-> c.shape, measures |-> OrNull(NormalMeasures(c.measures)),
                         years |-> OrNull(Ascending(ToSet(c.years))),
                         exportEconomy |-> OrNull(CanonicalCodes(c.exporters)),
                         importEconomy |-> OrNull(CanonicalCodes(c.importers)),
                         hsProduct |-> OrNull(CanonicalCodes(c.products)),
                         sortKey |-> If(sort # Null, sort.key),
                         sortDirection |-> If(sort # Null, sort.direction)]
                 [] c.recipe = "opportunity-discovery" ->
                        [exporter |-> c.economy, products |-> OrNull(CanonicalCodes(c.products)),
                         focusProduct |-> c.focusProduct, market |-> c.market, portfolio |-> If(c.portfolio, "filter")]
                 [] c.recipe = "candidate-market" ->
                        [exporter |-> c.economy, revision |-> If(c.product # Null, "HS12"), product |-> c.product,
                         market |-> c.market]
                 [] OTHER -> [importer |-> c.economy, revision |-> If(c.product # Null, "HS12"), product |-> c.product]
        all == own @@ [recipe |-> If(NamesRecipe(c), c.recipe), locale |-> If(c.locale # "en", c.locale),
                       build |-> If(c.pin # Null, c.pin.build), pkg |-> If(c.pin # Null, c.pin.pkg)]
    IN  [name \in {n \in DOMAIN all : all[n] # Null} |-> all[name]]
-----------------------------------------------------------------------------
\* Another recipe.  What the two have in common goes along: an exporter, an
\* importer, products; a list only where there is one, or exactly one is in it.
EmptyContext(recipe, locale) == Parse([recipe |-> recipe, locale |-> locale])

Sole(list) == IF Len(list) = 1 THEN list[1] ELSE Null
OneOf(code) == IF code = Null THEN <<>> ELSE <<code>>
Exporters(c) ==
    CASE c.recipe = "trade-explorer" -> c.exporters
      [] c.recipe \in ImporterShaped -> <<>>
      [] OTHER -> OneOf(c.economy)
Importers(c) ==
    CASE c.recipe = "trade-explorer" -> c.importers
      [] c.recipe \in ImporterShaped -> OneOf(c.economy)
      [] OTHER -> <<>>
Products(c) == IF c.recipe \in {"trade-explorer", "opportunity-discovery"} THEN c.products ELSE OneOf(c.product)

WithRecipe(c, recipe) ==
    LET empty == EmptyContext(recipe, c.locale)
        both == {recipe, c.recipe}
    IN  CASE recipe = c.recipe -> c
          [] recipe # c.recipe /\ "candidate-market" \in both /\ both \cap ImporterShaped # {} -> empty
          [] OTHER ->
                CASE recipe = "trade-explorer" ->
                         [empty EXCEPT !.exporters = Exporters(c), !.importers = Importers(c), !.products = Products(c)]
                  [] recipe = "opportunity-discovery" ->
                         [empty EXCEPT !.economy = Sole(Exporters(c)), !.products = Products(c)]
                  [] recipe = "candidate-market" ->
                         [empty EXCEPT !.economy = Sole(Exporters(c)), !.product = Sole(Products(c))]
                  [] OTHER -> [empty EXCEPT !.economy = Sole(Importers(c)), !.product = Sole(Products(c))]

\* focusedProductMarket
FocusedProduct(c) ==
    IF c.recipe = "opportunity-discovery" /\ c.focusProduct # Null THEN c.focusProduct ELSE Sole(Products(c))
FocusedMarket(c) ==
    IF c.recipe \in {"candidate-market", "opportunity-discovery"} THEN c.market ELSE Sole(Importers(c))

\* withAdvancedToolRecipe
WithTool(c, recipe, pin) ==
    LET to == [WithRecipe(c, recipe) EXCEPT !.pin = pin]
        product == FocusedProduct(c)
        market == FocusedMarket(c)
    IN  IF recipe = "trade-explorer"
        THEN [to EXCEPT !.importers = IF market = Null THEN @ ELSE <<market>>,
                        !.products = IF product = Null THEN @ ELSE <<product>>]
        ELSE [to EXCEPT !.product = IF product = Null THEN @ ELSE product,
                        !.economy = IF market = Null THEN @ ELSE market]

WithoutFocus(c) ==
    IF c.recipe = "opportunity-discovery" THEN [c EXCEPT !.focusProduct = Null, !.market = Null] ELSE c
WithEconomy(c, code) == [WithoutFocus(c) EXCEPT !.economy = code]
WithProduct(c, code) ==
    IF c.recipe = "opportunity-discovery" THEN [WithoutFocus(c) EXCEPT !.products = OneOf(code)]
                                          ELSE [c EXCEPT !.product = code]

\* resolvePinnedContext: the first deployment of the window is current.
Resolution(pin, recipe, window) ==
    IF pin = Null THEN "unpinned"
    ELSE IF pin.build \notin ToSet(window) \/ Recommended[pin.build][recipe] = Null
            \/ Recommended[pin.build][recipe] # pin.pkg THEN "retired"
    ELSE IF pin.build = window[1] THEN "current" ELSE "retained"

\* pinFromDeploymentWindow, pinFromManifest
PinOf(build, recipe, window) ==
    IF build \notin ToSet(window) \/ Recommended[build][recipe] = Null THEN Null
    ELSE [build |-> build, pkg |-> Recommended[build][recipe]]

\* Fault: a tool is pinned to what is current.
ToolPinOfCurrent(c, recipe, window) ==
    IF Resolution(c.pin, c.recipe, window) \in {"unpinned", "retired"} THEN c.pin
    ELSE LET pin == PinOf(window[1], recipe, window) IN IF pin = Null THEN c.pin ELSE pin
\* targetAdvancedContext
ToolPin(c, recipe, window) ==
    IF Resolution(c.pin, c.recipe, window) \in {"unpinned", "retired"} THEN c.pin
    ELSE LET pin == PinOf(c.pin.build, recipe, window) IN IF pin = Null THEN c.pin ELSE pin
-----------------------------------------------------------------------------
LinkInit == link \in Typed /\ context = Null /\ deployed = <<1>>

Write(c) == context' = c /\ link' = Serialize(c) /\ UNCHANGED deployed

\* The page of another recipe, an advanced tool, an economy or a product, the
\* language, and the recovery from a retired pin.
ChangeRecipe(recipe) == Write(WithRecipe(Parse(link), recipe))
OpenTool(recipe) == Write(WithTool(Parse(link), recipe, ToolPin(Parse(link), recipe, deployed)))
ChooseEconomy(code) == ParseRecipe(link) # "trade-explorer" /\ Write(WithEconomy(Parse(link), code))
ChooseProduct(code) == ParseRecipe(link) # "trade-explorer" /\ Write(WithProduct(Parse(link), code))
SelectLocale(locale) == Write([Parse(link) EXCEPT !.locale = locale])
Recover ==
    /\ Resolution(PinIn(link), ParseRecipe(link), deployed) = "retired"
    /\ Write([Parse(link) EXCEPT !.pin = Null])

\* A completed analysis pins its link, to what it was made of.
Analyze ==
    LET c == Parse(link)
        resolution == Resolution(c.pin, c.recipe, deployed)
        pin == IF resolution = "retained" THEN c.pin ELSE PinOf(deployed[1], c.recipe, deployed)
    IN  HasCompleteInputs(c) /\ resolution # "retired" /\ pin # Null /\ Write([c EXCEPT !.pin = pin])

\* Another release is activated.
Activate ==
    /\ deployed[1] < Max(DOMAIN Recommended)
    /\ deployed' = SubSeq(<<deployed[1] + 1>> \o deployed, 1, Min({WindowLength, Len(deployed) + 1}))
    /\ UNCHANGED <<link, context>>

LinkNext ==
    \/ Recover \/ Analyze \/ Activate
    \/ \E recipe \in Recipes : ChangeRecipe(recipe)
    \/ \E recipe \in ImporterShaped \cup {"trade-explorer"} : OpenTool(recipe)
    \/ \E code \in {Null, [number |-> 7, written |-> "zeroed"]} : ChooseEconomy(code)
    \/ \E code \in {Null, [number |-> 3, written |-> "plain"]} : ChooseProduct(code)
    \/ \E locale \in {"en", "zh-Hans"} : SelectLocale(locale)

\* A context but for the order of its lists and the way their codes are written.
Plainly(c) ==
    CASE c.recipe = "trade-explorer" ->
             [c EXCEPT !.measures = NormalMeasures(@), !.years = Ascending(ToSet(@)), !.exporters = CanonicalCodes(@),
                       !.importers = CanonicalCodes(@), !.products = CanonicalCodes(@)]
      [] c.recipe = "opportunity-discovery" -> [c EXCEPT !.products = CanonicalCodes(@)]
      [] OTHER -> c

\* A link means what the page wrote into it, so that it can be copied, reloaded
\* and gone back to; writing it again leaves it as it is.  Two links do not:
\* one to opportunities with more products than it may have, which came along
\* from the explorer, and one to opportunities with a market in focus but
\* neither an exporter nor a pin, which reads as one to candidate markets.
LosesProducts(c) == c.recipe = "opportunity-discovery" /\ Len(CanonicalCodes(c.products)) > MaxProductCodes
ReadsAsCandidates(c) == c.recipe = DefaultRecipe /\ ~NamesRecipe(c) /\ c.market # Null
LinksKeepTheirMeaning ==
    context # Null /\ ~LosesProducts(context) /\ ~ReadsAsCandidates(context) =>
        Plainly(Parse(link)) = Plainly(context) /\ Serialize(Parse(link)) = link

\* The way to the explorer and back loses no economy and no product.
ExplorerKeepsTheSelection ==
    LET c == Parse(link)
        back == WithRecipe(WithRecipe(c, "trade-explorer"), c.recipe)
    IN  c.recipe # "trade-explorer" => back.economy = c.economy /\ Products(back) = Products(c)

\* A tool that is opened from a pinned page shows the build of that page, never
\* another one, however the window has moved; and what was current when it was
\* analyzed is never taken for something else.
ToolsStayWithTheirBuild ==
    \A recipe \in ImporterShaped \cup {"trade-explorer"} :
        LET c == Parse(link)
            pin == ToolPin(c, recipe, deployed)
        IN  /\ pin = Null <=> c.pin = Null
            /\ pin # Null => pin.build = c.pin.build
            /\ Resolution(pin, recipe, deployed) \in {"current", "retained"} => pin = PinOf(pin.build, recipe, deployed)

LinksAreTrue == LinksKeepTheirMeaning /\ ExplorerKeepsTheSelection /\ ToolsStayWithTheirBuild
=============================================================================
