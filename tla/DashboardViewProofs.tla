-------------------------- MODULE DashboardViewProofs --------------------------
(***************************************************************************)
(* Theorems about DashboardView for any files, tables, links, clicks and   *)
(* numbers of requests, whatever is lost, late or out of order: types, the *)
(* responses that a page can use, the buttons that are active, the rows    *)
(* that answers hold and, if the user waits for answers, the filters of    *)
(* what is shown and the pages of the table.                               *)
(***************************************************************************)
EXTENDS DashboardView, FiniteSetTheorems, SequenceTheorems, TLAPS

-----------------------------------------------------------------------------
(* The loaded dashboard *)

IsDashboard(d) ==
    /\ d.layout \in Seq(Widgets)
    /\ \A i, j \in DOMAIN d.layout : d.layout[i].id = d.layout[j].id => i = j
    /\ \A w \in Range(d.layout) :
          /\ w.id \in Identifiers
          /\ w.id = Table => w.type = "basic_table"
          /\ \A click \in Clicks : click.widget = w.id => click.group = w.group
          /\ \A i \in DOMAIN w.preset : IsItem(w.preset[i])
    /\ DOMAIN d.aggregates \cup DOMAIN d.totals \subseteq Identifiers
    /\ d.sourceTable \in DOMAIN Tables

\* Names that are no identifiers are left out.
LEMMA NamesAreIdentifiers ==
  ASSUME NEW entries
  PROVE  DOMAIN ByName(entries) \subseteq Identifiers
  BY DEF ByName, Kept

\* A file that is not refused.
LEMMA LoadedIsDashboard ==
  ASSUME NEW file \in Files, ~Refused(file)
  PROVE  IsDashboard(Loaded(file))
<1>. DEFINE d == Loaded(file)
<1>1. /\ d.layout = file.layout /\ d.sourceTable = file.base.name
      /\ d.aggregates = ByName(file.aggregates) /\ d.totals = ByName(file.totals)
  BY DEF Loaded
<1>2. file.base.runs /\ ~LayoutRefused(d)
  BY DEF Refused, HeaderRefused
<1>. HIDE DEF d
<1>3. d.layout \in Seq(Widgets) /\ d.sourceTable \in DOMAIN Tables
  BY <1>1, <1>2, FilesAssumption
<1>4. \A i, j \in DOMAIN d.layout : d.layout[i].id = d.layout[j].id => i = j
  BY <1>2 DEF LayoutRefused
<1>5. ASSUME NEW w \in Range(d.layout)
      PROVE  /\ w.id \in Identifiers
             /\ w.id = Table => w.type = "basic_table"
             /\ \A click \in Clicks : click.widget = w.id => click.group = w.group
             /\ \A i \in DOMAIN w.preset : IsItem(w.preset[i])
  BY <1>1, <1>2, FilesAssumption, ItemsAssumption DEF LayoutRefused
<1>6. DOMAIN d.aggregates \cup DOMAIN d.totals \subseteq Identifiers
  BY <1>1, NamesAreIdentifiers
<1>7. QED
  BY <1>3, <1>4, <1>5, <1>6 DEF IsDashboard, d

-----------------------------------------------------------------------------
(* Lists of rows *)

IsRows(rows) == rows \in Seq(Range(rows))

LEMMA ListsAreRows ==
  ASSUME NEW S, NEW rows \in Seq(S)
  PROVE  IsRows(rows)
  BY DEF IsRows, Range

LEMMA RowsAreLists ==
  ASSUME NEW rows, NEW n \in Nat, rows = [i \in 1..n |-> rows[i]]
  PROVE  IsRows(rows) /\ Len(rows) = n
  BY DEF IsRows, Range

LEMMA NoRows == IsRows(<< >>) /\ Len(<< >>) = 0
  BY EmptySeq DEF IsRows

\* Some of the rows.
LEMMA RowsAtAreRows ==
  ASSUME NEW rows, NEW places, IsFiniteSet(places)
  PROVE  IsRows(RowsAt(rows, places)) /\ Len(RowsAt(rows, places)) = Cardinality(places)
<1>1. PICK n \in Nat : n = Cardinality(places)
  BY FS_CardinalityType
<1>2. PICK s : s = RowsAt(rows, places)
  OBVIOUS
<1>3. s = [i \in 1..n |-> s[i]]
  BY <1>1, <1>2 DEF RowsAt
<1>4. QED
  BY <1>1, <1>2, <1>3, RowsAreLists

LEMMA PartsAreRows ==
  ASSUME NEW rows, IsRows(rows), NEW m \in Nat, NEW n \in Nat
  PROVE  /\ IsRows(SubSeq(rows, m + 1, Len(rows)))
         /\ IsRows(Prefix(rows, n))
<1>. DEFINE S == Range(rows)
<1>1. rows \in Seq(S) /\ Len(rows) \in Nat
  BY DEF IsRows
<1>. HIDE DEF S
<1>2. SubSeq(rows, m + 1, Len(rows)) \in Seq(S)
  BY <1>1, SubSeqProperties
<1>3. Prefix(rows, n) \in Seq(S)
  <2>1. PICK k : k = IF n < Len(rows) THEN n ELSE Len(rows)
    OBVIOUS
  <2>2. k \in 0..Len(rows) /\ Prefix(rows, n) = SubSeq(rows, 1, k)
    BY <1>1, <2>1 DEF Prefix
  <2>3. QED
    BY <1>1, <2>2, SubSeqProperties
<1>4. QED
  BY <1>2, <1>3, ListsAreRows

LEMMA JoinedRows ==
  ASSUME NEW rows, NEW more, IsRows(rows), IsRows(more)
  PROVE  IsRows(rows \o more) /\ Len(rows \o more) = Len(rows) + Len(more)
<1>. DEFINE S == Range(rows) \cup Range(more)
<1>1. rows \in Seq(S) /\ more \in Seq(S)
  BY DEF IsRows
<1>. HIDE DEF S
<1>2. QED
  BY <1>1, ConcatProperties, ListsAreRows

-----------------------------------------------------------------------------
(* What the queries return *)

IsResult(result) == IsRows(result.rows)

LEMMA TableRows ==
  ASSUME NEW name \in DOMAIN Tables
  PROVE  /\ IsRows(Tables[name].rows)
         /\ IsFiniteSet(DOMAIN Tables[name].rows)
<1>1. PICK S : Tables[name].rows \in Seq(S)
  BY TablesAssumption
<1>2. DOMAIN Tables[name].rows = 1..Len(Tables[name].rows) /\ Len(Tables[name].rows) \in Nat
  BY <1>1
<1>3. QED
  BY <1>1, <1>2, ListsAreRows, FS_Interval

LEMMA FailedRows == IsResult(Failed)
  BY NoRows DEF IsResult, Failed

LEMMA SelectedRows ==
  ASSUME NEW name \in DOMAIN Tables, NEW conds
  PROVE  IsResult(Select(Tables[name], conds))
<1>. DEFINE rows == Tables[name].rows
            kept == {i \in DOMAIN rows : \A c \in conds : Holds(c, rows[i])}
<1>1. IsFiniteSet(kept)
  BY TableRows, FS_Subset
<1>2. FilteredRows(Tables[name], conds) = RowsAt(rows, kept)
  BY DEF FilteredRows
<1>. HIDE DEF rows, kept
<1>3. IsRows(FilteredRows(Tables[name], conds))
  BY <1>1, <1>2, RowsAtAreRows
<1>4. QED
  BY <1>3, FailedRows DEF Select, IsResult

LEMMA InjectedRows ==
  ASSUME NEW name \in DOMAIN Tables, NEW conds, NEW form, NEW nested,
         NEW result \in Injected(Tables[name], conds, form, nested)
  PROVE  IsResult(result)
<1>1. CASE form = "part" \/ (form = "with" /\ ~nested)
  <2>1. result = Failed
    BY <1>1 DEF Injected
  <2>2. QED
    BY <2>1, FailedRows
<1>2. CASE form = "case"
  <2>1. result \in {Failed, [ok |-> TRUE, rows |-> Tables[name].rows]}
    BY <1>2 DEF Injected
  <2>2. QED
    BY <2>1, FailedRows, TableRows DEF IsResult
<1>3. CASE ~(form = "part" \/ (form = "with" /\ ~nested)) /\ form # "case"
  <2>1. result = Select(Tables[name], conds)
    BY <1>3 DEF Injected
  <2>2. QED
    BY <2>1, SelectedRows
<1>4. QED
  BY <1>1, <1>2, <1>3

LEMMA OrderedRows ==
  ASSUME NEW result, IsResult(result), NEW ordered, NEW other \in Orders(result, ordered)
  PROVE  IsResult(other)
<1>1. PICK n \in Nat : DOMAIN result.rows = 1..n
  BY DEF IsResult, IsRows
<1>2. CASE ordered \/ ~result.ok
  BY <1>2 DEF Orders
<1>3. CASE ~(ordered \/ ~result.ok)
  <2>1. PICK p : other = [ok |-> TRUE, rows |-> [i \in DOMAIN result.rows |-> result.rows[p[i]]]]
    BY <1>3 DEF Orders
  <2>2. PICK s : s = other.rows
    OBVIOUS
  <2>3. s = [i \in 1..n |-> s[i]]
    BY <1>1, <2>1, <2>2
  <2>4. QED
    BY <2>2, <2>3, RowsAreLists DEF IsResult
<1>4. QED
  BY <1>2, <1>3

LEMMA QueriedRows ==
  ASSUME NEW d, IsDashboard(d), NEW query, NEW filtered, NEW conds, NEW nested,
         NEW result \in QueryResults(d, query, filtered, conds, nested)
  PROVE  IsResult(result)
<1>1. d.sourceTable \in DOMAIN Tables
  BY DEF IsDashboard
<1>2. PICK found \in (IF filtered
                      THEN Injected(Tables[d.sourceTable], conds, query.form, nested)
                      ELSE {Select(Tables[d.sourceTable], {})}) :
              result \in Orders(found, query.ordered)
  BY DEF QueryResults
<1>3. IsResult(found)
  BY <1>1, <1>2, InjectedRows, SelectedRows
<1>4. QED
  BY <1>2, <1>3, OrderedRows

LEMMA RawResultRows ==
  ASSUME NEW name, NEW filtered, NEW conds
  PROVE  IsResult(RawResult(name, filtered, conds))
  BY SelectedRows, FailedRows DEF RawResult

\* A response names what the dashboard has, and holds rows.
IsResponse(d, response) ==
    /\ response.rowLimit \in RowLimits
    /\ response.map = WidgetMap(d)
    /\ DOMAIN response.totals = DOMAIN d.totals
    /\ DOMAIN response.aggregates = DOMAIN d.aggregates
    /\ \A name \in DOMAIN d.aggregates : IsRows(response.aggregates[name])
    /\ DOMAIN response.raw = RawSources(d)
    /\ \A name \in RawSources(d) : IsRows(response.raw[name])

LEMMA DataIsResponse ==
  ASSUME NEW d, IsDashboard(d), NEW conds, NEW max \in RowLimits,
         NEW response \in Data(d, conds, max)
  PROVE  IsResponse(d, response)
<1>. DEFINE totals == [n \in DOMAIN d.totals |-> TotalResults(d, n, conds)]
            aggregates == [n \in DOMAIN d.aggregates |-> AggregateResults(d, n, conds, max)]
            raw == [n \in RawSources(d) |-> RawRows(d, n, conds, max)]
<1>1. PICK t \in Selections(totals), a \in Selections(aggregates) :
         response = [rowLimit |-> max, totals |-> t, aggregates |-> a, raw |-> raw,
                     map |-> WidgetMap(d)]
  BY DEF Data
<1>2. DOMAIN t = DOMAIN d.totals
  BY DEF Selections
<1>3. DOMAIN a = DOMAIN d.aggregates
  BY DEF Selections
<1>4. max \in Nat
  BY BoundsAssumption
<1>5. ASSUME NEW name \in DOMAIN d.aggregates PROVE IsRows(a[name])
  <2>1. a[name] \in AggregateResults(d, name, conds, max)
    BY DEF Selections
  <2>2. PICK result \in QueryResults(d, d.aggregates[name], AggregateFiltered(d, name, conds),
                                     conds, TRUE) :
                a[name] = Prefix(result.rows, max)
    BY <2>1 DEF AggregateResults
  <2>3. QED
    BY <1>4, <2>2, QueriedRows, PartsAreRows DEF IsResult
<1>6. ASSUME NEW name \in RawSources(d) PROVE IsRows(raw[name])
  <2>1. PICK filtered : RawRows(d, name, conds, max) = Prefix(RawResult(name, filtered, conds).rows, max)
    BY DEF RawRows
  <2>2. QED
    BY <1>4, <2>1, RawResultRows, PartsAreRows DEF IsResult
<1>. HIDE DEF totals, aggregates, raw
<1>7. DOMAIN raw = RawSources(d)
  BY DEF raw
<1>8. QED
  BY <1>1, <1>2, <1>3, <1>5, <1>6, <1>7 DEF IsResponse

LEMMA PagesAreResults ==
  ASSUME NEW d, IsDashboard(d), NEW id, NEW conds, NEW max \in Nat, NEW offset \in Nat,
         NEW result \in Pages(d, id, conds, max, offset)
  PROVE  IsResult(result)
<1>1. CASE result = NoPage
  BY <1>1, NoRows DEF NoPage, IsResult
<1>2. CASE result # NoPage
  <2>1. PICK found \in WidgetResults(d, id, conds) :
           result.rows = Prefix(SubSeq(found.rows, offset + 1, Len(found.rows)), max)
    BY <1>2 DEF Pages
  <2>2. IsResult(found)
    BY <2>1, QueriedRows, RawResultRows DEF WidgetResults
  <2>3. QED
    BY <2>1, <2>2, PartsAreRows DEF IsResult
<1>3. QED
  BY <1>1, <1>2

-----------------------------------------------------------------------------
(* What the page takes from a response *)

\* What an entry of the widget map leads to is in the response.
LEMMA EntriesLeadToData ==
  ASSUME NEW d, NEW e \in WidgetMap(d)
  PROVE  \/ /\ e.type = "total" /\ e.key \in DOMAIN d.totals
            /\ \E w \in Range(d.layout) : w.id = e.widget /\ w.type \in TotalTypes
         \/ e.type = "aggregate" /\ e.key \in DOMAIN d.aggregates
         \/ e.type = "raw" /\ e.key \in RawSources(d)
<1>1. CASE \E w \in {v \in Range(d.layout) : v.type \in TotalTypes /\ v.value \in DOMAIN d.totals} :
              e = [widget |-> w.id, type |-> "total", key |-> w.value]
  BY <1>1
<1>2. CASE \E w \in DataWidgets(d) :
              e = [widget |-> w.id,
                   type |-> IF w.data \in DOMAIN d.aggregates THEN "aggregate" ELSE "raw",
                   key |-> w.data]
  BY <1>2 DEF RawSources
<1>3. QED
  BY <1>1, <1>2 DEF WidgetMap

\* The table finds rows.
LEMMA TableFindsRows ==
  ASSUME NEW d, IsDashboard(d), NEW response, IsResponse(d, response),
         Table \in DOMAIN DataOf(response)
  PROVE  IsRows(DataOf(response)[Table])
<1>1. Table \in {e.widget : e \in response.map} /\ response.map = WidgetMap(d)
  BY DEF DataOf, IsResponse
<1>2. PICK e \in WidgetMap(d) : e.widget = Table /\ DataOf(response)[Table] = ValueOf(response, e)
  BY <1>1 DEF DataOf
<1>3. ~(e.type = "total")
  <2>1. SUFFICES ASSUME e.type = "total" PROVE FALSE
    OBVIOUS
  <2>2. PICK w \in Range(d.layout) : w.id = Table /\ w.type \in TotalTypes
    BY <1>2, <2>1, EntriesLeadToData
  <2>3. QED
    BY <2>2 DEF IsDashboard, TotalTypes
<1>4. CASE e.type = "aggregate" /\ e.key \in DOMAIN d.aggregates
  BY <1>2, <1>4 DEF ValueOf, IsResponse
<1>5. CASE e.type = "raw" /\ e.key \in RawSources(d)
  BY <1>2, <1>5 DEF ValueOf, IsResponse
<1>6. QED
  BY <1>3, <1>4, <1>5, EntriesLeadToData

-----------------------------------------------------------------------------
(* Types *)

IsRequest(r) ==
    /\ DOMAIN r = {"n", "kind", "filters", "pins", "offset", "answer"}
    /\ r.n \in 1..sent
    /\ r.kind \in {"data", "page", "export"}
    /\ r.offset \in Nat
    /\ \/ r.answer \in {NoAnswer, ErrorAnswer}
       \/ /\ r.answer.status = "ok"
          /\ r.kind = "data" => IsResponse(dash, r.answer.data)
          /\ r.kind = "page" => IsResult(r.answer.data)

ServerTypes ==
    /\ dash # NoDash => IsDashboard(dash)
    /\ limit \in RowLimits
    /\ IsFiniteSet(DOMAIN cache) /\ Cardinality(DOMAIN cache) <= MaxCached
    /\ \A hash \in DOMAIN cache : IsResponse(dash, cache[hash])

TrafficTypes ==
    /\ sent \in Nat /\ timer \in BOOLEAN
    /\ sent + (IF timer THEN 1 ELSE 0) <= MaxRequests
    /\ \A r \in requests : IsRequest(r)
    /\ \A r, q \in requests : r.n = q.n => r = q
    /\ \A r, q \in requests : r.kind = "page" /\ q.kind = "page" => r = q
    /\ faults \in 0..MaxFaults

\* Nothing goes on before the page is opened, nor without a dashboard.
Opened == page # "closed" /\ dash # NoDash

PageTypes ==
    /\ page \in {"closed", "open", "failed"}
    /\ page = "closed" => sent = 0
    /\ page = "open" \/ timer \/ requests # {} => Opened
    /\ Opened => DOMAIN filters \cup DOMAIN pins \subseteq LayoutIds

TableTypes ==
    /\ DOMAIN table = {"rows", "offset", "total", "more", "loading", "filters"}
    /\ IsRows(table.rows) /\ table.offset = Len(table.rows)
    /\ table.loading = (\E r \in requests : r.kind = "page")

Types == ServerTypes /\ TrafficTypes /\ PageTypes /\ TableTypes

\* What becomes of the requests in a step: one is sent, is answered, or is gone.
Sends(kind) ==
    /\ \E wanted, pinned : Send(kind, wanted, pinned)
    /\ sent < MaxRequests
    /\ kind = "page" => ~table.loading
    /\ dash' = dash

Answers(r, answer) ==
    /\ Answer(r, answer)
    /\ \/ answer = ErrorAnswer
       \/ /\ answer.status = "ok"
          /\ r.kind = "data" => IsResponse(dash, answer.data)
          /\ r.kind = "page" => IsResult(answer.data)
    /\ UNCHANGED <<sent, dash>>

Ends(r) == requests' = requests \ {r} /\ UNCHANGED <<sent, dash>>

Stays == UNCHANGED <<requests, sent, dash>>

\* A handler answers with what its query returned or what the cache holds.
LEMMA HandlerAnswers ==
  ASSUME Types, NEW r \in requests, Handle(r)
  PROVE  /\ \E answer : Answers(r, answer)
         /\ \/ UNCHANGED cache
            \/ \E hash, response :
                  /\ cache' = Put(cache, hash, response)
                  /\ Cardinality(DOMAIN cache) < MaxCached
                  /\ IsResponse(dash, response)
<1>0. /\ dash # NoDash /\ IsDashboard(dash) /\ limit \in RowLimits
      /\ UNCHANGED <<sent, dash>>
  BY DEF Types, ServerTypes, PageTypes, Opened, Handle
<1>1. CASE r.kind = "data" /\ PostData(r)
  <2>. DEFINE merged == Merged(r.filters, r.pins)
              conds == Conditions(dash, merged)
              hash == FilterHash(conds)
  <2>1. CASE Answer(r, ErrorAnswer) /\ UNCHANGED cache
    BY <1>0, <2>1 DEF Answers
  <2>2. CASE hash \in DOMAIN cache /\ Answer(r, Ok(cache[hash])) /\ UNCHANGED cache
    <3>1. IsResponse(dash, cache[hash])
      BY <2>2 DEF Types, ServerTypes
    <3>2. Answers(r, Ok(cache[hash]))
      BY <1>0, <1>1, <2>2, <3>1 DEF Answers, Ok
    <3>3. QED
      BY <2>2, <3>2
  <2>3. ASSUME NEW response \in Data(dash, conds, limit), Answer(r, Ok(response)),
               cache' = IF Cardinality(DOMAIN cache) < MaxCached
                        THEN Put(cache, hash, response) ELSE cache
        PROVE  /\ \E answer : Answers(r, answer)
               /\ \/ UNCHANGED cache
                  \/ \E h, found :
                        /\ cache' = Put(cache, h, found)
                        /\ Cardinality(DOMAIN cache) < MaxCached
                        /\ IsResponse(dash, found)
    <3>. HIDE DEF conds, hash
    <3>1. IsResponse(dash, response)
      BY <1>0, DataIsResponse
    <3>2. Answers(r, Ok(response))
      BY <1>0, <1>1, <2>3, <3>1 DEF Answers, Ok
    <3>3. UNCHANGED cache \/ (Cardinality(DOMAIN cache) < MaxCached /\ cache' = Put(cache, hash, response))
      BY <2>3
    <3>4. QED
      BY <3>1, <3>2, <3>3
  <2>4. QED
    BY <1>1, <2>1, <2>2, <2>3 DEF PostData
<1>2. ASSUME NEW results, PostWidget(r, results), r.kind # "data",
             r.kind = "page" => \A result \in results : IsResult(result)
      PROVE  UNCHANGED cache /\ \E answer : Answers(r, answer)
  <2>1. UNCHANGED cache
    BY <1>2 DEF PostWidget
  <2>2. CASE Answer(r, ErrorAnswer)
    BY <1>0, <2>1, <2>2 DEF Answers
  <2>3. ASSUME NEW result \in results, Answer(r, Ok(result))
        PROVE  \E answer : Answers(r, answer)
    <3>1. Answers(r, Ok(result))
      BY <1>0, <1>2, <2>3 DEF Answers, Ok
    <3>2. QED
      BY <3>1
  <2>4. QED
    BY <1>2, <2>1, <2>2, <2>3 DEF PostWidget
<1>3. CASE r.kind = "page" /\ PostPage(r)
  <2>1. r.offset \in Nat /\ PageSize \in Nat
    BY BoundsAssumption DEF Types, TrafficTypes, IsRequest
  <2>2. \A result \in Pages(dash, Table, Conditions(dash, r.filters), PageSize, r.offset) :
           IsResult(result)
    BY <1>0, <2>1, PagesAreResults
  <2>3. QED
    BY <1>2, <1>3, <2>2 DEF PostPage
<1>4. CASE r.kind = "export" /\ PostExport(r)
  BY <1>2, <1>4 DEF PostExport
<1>5. QED
  BY <1>1, <1>3, <1>4 DEF Handle

\* Every step sends one request, answers one or ends one, or leaves them alone.
LEMMA RequestSteps ==
  ASSUME Types, [Next]_vars
  PROVE  \/ \E kind \in {"data", "page", "export"} : Sends(kind)
         \/ \E r \in requests : (\E answer : Answers(r, answer)) \/ Ends(r)
         \/ Stays
<1> USE DEF serverVars, controlVars, trafficVars, viewVars, vars
<1>0. /\ MaxRequests \in Nat \ {0} /\ sent \in Nat /\ timer \in BOOLEAN
      /\ timer => sent < MaxRequests
      /\ Room => sent < MaxRequests
      /\ page = "closed" => sent = 0
  BY BoundsAssumption DEF Types, TrafficTypes, PageTypes, Room
<1>1. ASSUME NEW r \in requests, Handle(r)
      PROVE  \E answer : Answers(r, answer)
  BY <1>1, HandlerAnswers
<1>2. ASSUME NEW r \in requests, Deliver(r) \/ Lose(r)
      PROVE  Ends(r)
  BY <1>2 DEF Deliver, Lose, Ends
<1>3. CASE Open
  <2>1. CASE dash = NoDash
    BY <1>3, <2>1 DEF Open, Stays
  <2>2. CASE dash # NoDash
    <3>1. page = "closed" /\ Send("data", filters', pins') /\ dash' = dash
      BY <1>3, <2>2 DEF Open
    <3>2. PICK wanted, pinned : wanted = filters' /\ pinned = pins'
      OBVIOUS
    <3>3. Send("data", wanted, pinned)
      BY <3>1, <3>2
    <3>4. Sends("data")
      BY <1>0, <3>1, <3>3 DEF Sends
    <3>5. QED
      BY <3>4
  <2>3. QED
    BY <2>1, <2>2
<1>4. CASE FireTimer \/ Retry
  BY <1>0, <1>4 DEF FireTimer, Retry, Sends
<1>5. CASE LoadMore
  BY <1>0, <1>5 DEF LoadMore, Sends
<1>6. CASE ExportCsv
  BY <1>0, <1>6 DEF ExportCsv, Sends
<1>7. CASE (\E click \in Clicks : Click(click)) \/ SetRowLimit \/ Expire \/ UNCHANGED vars
  BY <1>7 DEF Click, SetRowLimit, Expire, Stays
<1>8. QED
  BY <1>1, <1>2, <1>3, <1>4, <1>5, <1>6, <1>7 DEF Next, Answered

\* The server keeps its types.
LEMMA ServerStep ==
  ASSUME Types, [Next]_vars
  PROVE  ServerTypes'
<1> USE DEF serverVars, controlVars, trafficVars, viewVars, vars
<1>0. dash' = dash
  BY DEF Next, Answered, Handle, Deliver, Lose, Open, FireTimer, Retry, LoadMore, ExportCsv,
     Click, SetRowLimit, Expire
<1>1. limit' \in RowLimits
  BY DEF Next, Answered, Handle, Deliver, Lose, Open, FireTimer, Retry, LoadMore, ExportCsv,
     Click, SetRowLimit, Expire, Types, ServerTypes
<1>2. \/ UNCHANGED cache
      \/ \E hash, response :
            /\ cache' = Put(cache, hash, response)
            /\ Cardinality(DOMAIN cache) < MaxCached
            /\ IsResponse(dash, response)
      \/ \E hash \in DOMAIN cache : cache' = Restrict(cache, DOMAIN cache \ {hash})
  BY HandlerAnswers DEF Next, Answered, Deliver, Lose, Open, FireTimer, Retry, LoadMore,
     ExportCsv, Click, SetRowLimit, Expire
<1>3. /\ IsFiniteSet(DOMAIN cache) /\ Cardinality(DOMAIN cache) <= MaxCached
      /\ \A hash \in DOMAIN cache : IsResponse(dash, cache[hash])
      /\ MaxCached \in Nat /\ Cardinality(DOMAIN cache) \in Nat
  BY BoundsAssumption, FS_CardinalityType DEF Types, ServerTypes
<1>4. /\ IsFiniteSet(DOMAIN cache') /\ Cardinality(DOMAIN cache') <= MaxCached
      /\ \A hash \in DOMAIN cache' : IsResponse(dash, cache'[hash])
  <2>1. CASE UNCHANGED cache
    BY <1>3, <2>1
  <2>2. ASSUME NEW hash, NEW response, cache' = Put(cache, hash, response),
               Cardinality(DOMAIN cache) < MaxCached, IsResponse(dash, response)
        PROVE  /\ IsFiniteSet(DOMAIN cache') /\ Cardinality(DOMAIN cache') <= MaxCached
               /\ \A h \in DOMAIN cache' : IsResponse(dash, cache'[h])
    <3>1. /\ DOMAIN cache' = DOMAIN cache \cup {hash}
          /\ \A h \in DOMAIN cache' : cache'[h] = IF h = hash THEN response ELSE cache[h]
      BY <2>2 DEF Put
    <3>2. IsFiniteSet(DOMAIN cache') /\ Cardinality(DOMAIN cache') <= MaxCached
      <4>1. PICK D : D = DOMAIN cache
        OBVIOUS
      <4>2. /\ IsFiniteSet(D \cup {hash})
            /\ Cardinality(D \cup {hash}) \in {Cardinality(D), Cardinality(D) + 1}
        BY <1>3, <4>1, FS_AddElement
      <4>3. Cardinality(D) \in Nat /\ Cardinality(D) < MaxCached
        BY <1>3, <2>2, <4>1
      <4>4. DOMAIN cache' = D \cup {hash}
        BY <3>1, <4>1
      <4>5. QED
        BY <1>3, <4>2, <4>3, <4>4
    <3>3. QED
      BY <1>3, <2>2, <3>1, <3>2
  <2>3. ASSUME NEW hash \in DOMAIN cache, cache' = Restrict(cache, DOMAIN cache \ {hash})
        PROVE  /\ IsFiniteSet(DOMAIN cache') /\ Cardinality(DOMAIN cache') <= MaxCached
               /\ \A h \in DOMAIN cache' : IsResponse(dash, cache'[h])
    <3>1. /\ DOMAIN cache' = DOMAIN cache \ {hash}
          /\ \A h \in DOMAIN cache' : cache'[h] = cache[h]
      BY <2>3 DEF Restrict
    <3>2. IsFiniteSet(DOMAIN cache') /\ Cardinality(DOMAIN cache') <= MaxCached
      BY <1>3, <3>1, FS_RemoveElement
    <3>3. QED
      BY <1>3, <3>1, <3>2
  <2>4. QED
    BY <1>2, <2>1, <2>2, <2>3
<1>5. QED
  BY <1>0, <1>1, <1>4 DEF Types, ServerTypes

\* A request that was sent or answered keeps its shape.
LEMMA SentRequests ==
  ASSUME Types, NEW kind \in {"data", "page", "export"}, Sends(kind)
  PROVE  /\ sent' = sent + 1
         /\ \E q : /\ requests' = requests \cup {q} /\ IsRequest(q)'
                   /\ q.n = sent + 1 /\ q.kind = kind
<1>1. PICK wanted, pinned : Send(kind, wanted, pinned)
  BY DEF Sends
<1>2. PICK q : q = [n |-> sent + 1, kind |-> kind, filters |-> wanted, pins |-> pinned,
                    offset |-> IF kind = "page" THEN table.offset ELSE 0, answer |-> NoAnswer]
  OBVIOUS
<1>3. requests' = requests \cup {q} /\ sent' = sent + 1 /\ sent \in Nat
  BY <1>1, <1>2 DEF Send, Types, TrafficTypes
<1>4. q.offset \in Nat
  <2>1. table.offset \in Nat
    BY DEF Types, TableTypes, IsRows
  <2>2. QED
    BY <1>2, <2>1
<1>5. IsRequest(q)'
  <2>1. q.n \in 1..sent'
    BY <1>2, <1>3
  <2>2. DOMAIN q = {"n", "kind", "filters", "pins", "offset", "answer"}
    BY <1>2
  <2>3. q.kind = kind /\ q.answer = NoAnswer
    BY <1>2
  <2>4. QED
    BY <1>4, <2>1, <2>2, <2>3 DEF IsRequest
<1>6. QED
  BY <1>2, <1>3, <1>5

LEMMA AnsweredRequests ==
  ASSUME Types, NEW r \in requests, NEW answer, Answers(r, answer)
  PROVE  /\ UNCHANGED <<sent, dash>>
         /\ \E q : /\ requests' = (requests \ {r}) \cup {q} /\ IsRequest(q)'
                   /\ q.n = r.n /\ q.kind = r.kind
<1>1. PICK q : q = [r EXCEPT !.answer = answer]
  OBVIOUS
<1>2. requests' = (requests \ {r}) \cup {q} /\ UNCHANGED <<sent, dash>>
  BY <1>1 DEF Answers, Answer
<1>3. IsRequest(r)
  BY DEF Types, TrafficTypes
<1>4. /\ DOMAIN q = DOMAIN r /\ q.answer = answer
      /\ q.n = r.n /\ q.kind = r.kind /\ q.offset = r.offset
  BY <1>1, <1>3 DEF IsRequest
<1>5. IsRequest(q)
  BY <1>3, <1>4 DEF IsRequest, Answers
<1>6. IsRequest(q)'
  BY <1>2, <1>5 DEF IsRequest
<1>7. QED
  BY <1>2, <1>4, <1>6

\* So do the requests and the delay.
LEMMA TrafficStep ==
  ASSUME Types, [Next]_vars
  PROVE  TrafficTypes'
<1> USE DEF serverVars, controlVars, trafficVars, viewVars, vars
<1>0. /\ MaxRequests \in Nat \ {0} /\ MaxFaults \in Nat /\ sent \in Nat /\ timer \in BOOLEAN
      /\ sent + (IF timer THEN 1 ELSE 0) <= MaxRequests
      /\ faults \in 0..MaxFaults
      /\ page = "closed" => sent = 0 /\ ~timer
  BY BoundsAssumption DEF Types, TrafficTypes, PageTypes, Opened
<1>1. /\ sent' \in Nat /\ timer' \in BOOLEAN
      /\ sent' + (IF timer' THEN 1 ELSE 0) <= MaxRequests
  <2>1. CASE Open
    <3>1. sent = 0 /\ timer' = FALSE /\ sent' \in {sent, sent + 1}
      BY <1>0, <2>1 DEF Open, Send
    <3>2. (IF timer' THEN 1 ELSE 0) = 0
      BY <3>1
    <3>3. timer' \in BOOLEAN
      BY <3>1
    <3>4. sent' \in Nat /\ sent' <= MaxRequests
      BY <1>0, <3>1, <3>2
    <3>5. QED
      BY <3>2, <3>3, <3>4
  <2>2. CASE FireTimer
    <3>1. timer /\ timer' = FALSE /\ sent' = sent + 1
      BY <2>2 DEF FireTimer, Send
    <3>2. (IF timer THEN 1 ELSE 0) = 1 /\ (IF timer' THEN 1 ELSE 0) = 0
      BY <3>1
    <3>3. timer' \in BOOLEAN
      BY <3>1
    <3>4. sent' \in Nat /\ sent' <= MaxRequests
      BY <1>0, <3>1, <3>2
    <3>5. QED
      BY <3>2, <3>3, <3>4
  <2>3. CASE Retry \/ LoadMore \/ ExportCsv
    BY <1>0, <2>3 DEF Retry, LoadMore, ExportCsv, Send, Room
  <2>4. CASE \E click \in Clicks : Click(click)
    <3>1. timer' = TRUE /\ sent' = sent /\ (timer \/ sent + (IF timer THEN 1 ELSE 0) < MaxRequests)
      BY <2>4 DEF Click, Room
    <3>2. CASE timer = TRUE
      BY <1>0, <3>1, <3>2
    <3>3. CASE timer = FALSE
      BY <1>0, <3>1, <3>3
    <3>4. QED
      BY <1>0, <3>2, <3>3
  <2>5. CASE ~(Open \/ FireTimer \/ Retry \/ LoadMore \/ ExportCsv \/ \E click \in Clicks : Click(click))
    BY <1>0, <2>5 DEF Next, Answered, Handle, Deliver, Lose, SetRowLimit, Expire
  <2>6. QED
    BY <2>1, <2>2, <2>3, <2>4, <2>5
<1>2. faults' \in 0..MaxFaults
  <2>1. UNCHANGED faults \/ (faults < MaxFaults /\ faults' = faults + 1)
    BY DEF Next, Answered, Handle, Deliver, Lose, Open, FireTimer, Retry, LoadMore, ExportCsv,
       Send, Click, SetRowLimit, Expire
  <2>2. QED
    BY <1>0, <2>1
<1>3. /\ \A r \in requests' : IsRequest(r)'
      /\ \A r, q \in requests' : r.n = q.n => r = q
      /\ \A r, q \in requests' : r.kind = "page" /\ q.kind = "page" => r = q
  <2>0. /\ \A r \in requests : IsRequest(r)
        /\ \A r, q \in requests : r.n = q.n => r = q
        /\ \A r, q \in requests : r.kind = "page" /\ q.kind = "page" => r = q
    BY DEF Types, TrafficTypes
  <2>1. ASSUME NEW kind \in {"data", "page", "export"}, Sends(kind)
        PROVE  /\ \A r \in requests' : IsRequest(r)'
               /\ \A r, q \in requests' : r.n = q.n => r = q
               /\ \A r, q \in requests' : r.kind = "page" /\ q.kind = "page" => r = q
    <3>1. PICK q : /\ requests' = requests \cup {q} /\ IsRequest(q)'
                   /\ q.n = sent + 1 /\ q.kind = kind
      BY <2>1, SentRequests
    <3>2. sent' = sent + 1 /\ dash' = dash
      BY <2>1, SentRequests DEF Sends
    <3>3. \A r \in requests : IsRequest(r)'
      BY <1>0, <2>0, <3>2 DEF IsRequest
    <3>4. \A r \in requests : r.n # q.n
      BY <1>0, <2>0, <3>1 DEF IsRequest
    <3>5. kind = "page" => \A r \in requests : r.kind # "page"
      BY <2>1 DEF Sends, Types, TableTypes
    <3>6. QED
      BY <2>0, <3>1, <3>3, <3>4, <3>5
  <2>2. ASSUME NEW r \in requests, NEW answer, Answers(r, answer)
        PROVE  /\ \A p \in requests' : IsRequest(p)'
               /\ \A p, q \in requests' : p.n = q.n => p = q
               /\ \A p, q \in requests' : p.kind = "page" /\ q.kind = "page" => p = q
    <3>1. PICK q : /\ requests' = (requests \ {r}) \cup {q} /\ IsRequest(q)'
                   /\ q.n = r.n /\ q.kind = r.kind
      BY <2>2, AnsweredRequests
    <3>2. UNCHANGED <<sent, dash>>
      BY <2>2, AnsweredRequests
    <3>3. \A p \in requests : IsRequest(p)'
      BY <2>0, <3>2 DEF IsRequest
    <3>4. QED
      BY <2>0, <3>1, <3>3
  <2>3. ASSUME NEW r \in requests, Ends(r)
        PROVE  /\ \A p \in requests' : IsRequest(p)'
               /\ \A p, q \in requests' : p.n = q.n => p = q
               /\ \A p, q \in requests' : p.kind = "page" /\ q.kind = "page" => p = q
    <3>1. requests' = requests \ {r} /\ \A p \in requests : IsRequest(p)'
      BY <2>0, <2>3 DEF IsRequest, Ends
    <3>2. QED
      BY <2>0, <3>1
  <2>4. CASE Stays
    <3>1. requests' = requests /\ \A p \in requests : IsRequest(p)'
      BY <2>0, <2>4 DEF IsRequest, Stays
    <3>2. QED
      BY <2>0, <3>1
  <2>5. QED
    BY <2>1, <2>2, <2>3, <2>4, RequestSteps
<1>4. QED
  BY <1>1, <1>2, <1>3 DEF TrafficTypes

\* What a click leaves among the filters.
LEMMA ClickedWidgets ==
  ASSUME NEW click, Click(click)
  PROVE  DOMAIN filters' =
            ((DOMAIN filters \ (IF click.group \in DOMAIN active THEN {active[click.group]} ELSE {}))
                \ {click.widget})
            \cup (IF click.items = << >> THEN {} ELSE {click.widget})
<1>1. PICK others : /\ others = Restrict(WithoutSibling(click), DOMAIN WithoutSibling(click) \ {click.widget})
                    /\ filters' = IF click.items = << >> THEN others
                                  ELSE Put(others, click.widget, click.items)
  BY DEF Click
<1>2. DOMAIN WithoutSibling(click) \ {click.widget} =
         (DOMAIN filters \ (IF click.group \in DOMAIN active THEN {active[click.group]} ELSE {}))
            \ {click.widget}
  BY DEF WithoutSibling, Restrict
<1>3. DOMAIN others = DOMAIN WithoutSibling(click) \ {click.widget}
  BY <1>1 DEF Restrict
<1>4. QED
  BY <1>1, <1>2, <1>3 DEF Put

\* The page keeps its types, and the filters of its own widgets.
LEMMA PageStep ==
  ASSUME Types, [Next]_vars
  PROVE  PageTypes'
<1> USE DEF serverVars, controlVars, trafficVars, viewVars, vars
<1>0. PageTypes /\ sent \in Nat
  BY DEF Types, TrafficTypes
<1> USE <1>0 DEF PageTypes, Opened
<1>1. dash' = dash /\ LayoutIds' = LayoutIds
  BY DEF LayoutIds, Next, Answered, Handle, Deliver, Lose, Open, FireTimer, Retry, LoadMore,
     ExportCsv, Click, SetRowLimit, Expire
<1>2. CASE Open
  <2>1. CASE dash = NoDash
    BY <1>2, <2>1 DEF Open
  <2>2. CASE dash # NoDash
    <3>1. DOMAIN filters' = {dash.layout[i].id : i \in Presets} /\ DOMAIN pins' = DOMAIN pins \cap LayoutIds
      BY <1>2, <2>2 DEF Open, Restrict
    <3>2. DOMAIN filters' \subseteq LayoutIds
      BY <3>1 DEF LayoutIds, Presets, Range
    <3>3. page' = "open" /\ dash' = dash
      BY <1>2, <2>2 DEF Open
    <3>4. QED
      BY <1>1, <2>2, <3>1, <3>2, <3>3
  <2>3. QED
    BY <2>1, <2>2
<1>3. ASSUME NEW click \in Clicks, Click(click) PROVE PageTypes'
  <2>1. DOMAIN filters' \subseteq DOMAIN filters \cup {click.widget} /\ click.widget \in LayoutIds
    BY <1>3, ClickedWidgets DEF Click
  <2>2. UNCHANGED <<dash, page, pins, requests, sent>> /\ page = "open"
    BY <1>3 DEF Click, MayAct
  <2>3. QED
    BY <1>1, <2>1, <2>2
<1>4. CASE FireTimer \/ Retry \/ LoadMore \/ ExportCsv
  <2>1. sent' = sent + 1 /\ UNCHANGED <<dash, filters, pins>>
    BY <1>4 DEF FireTimer, Retry, LoadMore, ExportCsv, Send
  <2>2. Opened /\ page' \in {page, "open"}
    BY <1>4 DEF FireTimer, Retry, LoadMore, ExportCsv, MayAct
  <2>3. QED
    BY <1>1, <2>1, <2>2
<1>5. ASSUME NEW r \in requests, Handle(r) \/ Deliver(r) \/ Lose(r) PROVE PageTypes'
  <2>1. page' \in {page, "failed"} /\ UNCHANGED <<dash, filters, pins, timer, sent>>
    BY <1>5 DEF Handle, Deliver, Lose, ShowData, ShowPage, SaveCsv, ShowError
  <2>2. Opened
    BY <1>5
  <2>3. QED
    BY <1>1, <2>1, <2>2
<1>6. CASE SetRowLimit \/ Expire \/ UNCHANGED vars
  BY <1>1, <1>6 DEF SetRowLimit, Expire
<1>7. QED
  BY <1>2, <1>3, <1>4, <1>5, <1>6 DEF Next, Answered

PageAsked == \E r \in requests : r.kind = "page"

\* The table counts its rows, and waits just while a page is on its way.
LEMMA TableStep ==
  ASSUME Types, [Next]_vars
  PROVE  TableTypes'
<1> USE DEF serverVars, controlVars, trafficVars, viewVars, vars
<1>0. /\ DOMAIN table = {"rows", "offset", "total", "more", "loading", "filters"}
      /\ IsRows(table.rows) /\ table.offset = Len(table.rows)
      /\ table.loading = PageAsked
      /\ \A r, q \in requests : r.kind = "page" /\ q.kind = "page" => r = q
      /\ requests # {} => dash # NoDash
      /\ dash # NoDash => IsDashboard(dash)
      /\ \A r \in requests : IsRequest(r)
  BY DEF Types, ServerTypes, TrafficTypes, PageTypes, TableTypes, Opened, PageAsked
<1>1. ASSUME UNCHANGED table, PageAsked' = PageAsked PROVE TableTypes'
  BY <1>0, <1>1 DEF TableTypes, PageAsked
<1>2. ASSUME NEW kind \in {"data", "export"}, NEW wanted, NEW pinned,
             Send(kind, wanted, pinned)
      PROVE  PageAsked' = PageAsked
  <2>1. PICK q : q = [n |-> sent + 1, kind |-> kind, filters |-> wanted, pins |-> pinned,
                      offset |-> IF kind = "page" THEN table.offset ELSE 0, answer |-> NoAnswer]
    OBVIOUS
  <2>2. requests' = requests \cup {q} /\ q.kind # "page"
    BY <1>2, <2>1 DEF Send
  <2>3. QED
    BY <2>2 DEF PageAsked
<1>3. CASE Open
  <2>1. CASE dash = NoDash
    BY <1>1, <1>3, <2>1 DEF Open, PageAsked
  <2>2. CASE dash # NoDash
    <3>1. UNCHANGED table /\ Send("data", filters', pins')
      BY <1>3, <2>2 DEF Open
    <3>2. PICK wanted, pinned : wanted = filters' /\ pinned = pins'
      OBVIOUS
    <3>3. Send("data", wanted, pinned)
      BY <3>1, <3>2
    <3>4. QED
      BY <1>1, <1>2, <3>1, <3>3
  <2>3. QED
    BY <2>1, <2>2
<1>4. CASE FireTimer \/ Retry
  BY <1>1, <1>2, <1>4 DEF FireTimer, Retry
<1>5. CASE ExportCsv
  BY <1>1, <1>2, <1>5 DEF ExportCsv
<1>6. CASE LoadMore
  <2>1. table' = [table EXCEPT !.loading = TRUE] /\ Send("page", filters, Nothing)
    BY <1>6 DEF LoadMore
  <2>2. PICK q : q = [n |-> sent + 1, kind |-> "page", filters |-> filters, pins |-> Nothing,
                      offset |-> table.offset, answer |-> NoAnswer]
    OBVIOUS
  <2>3. PageAsked'
    <3>1. requests' = requests \cup {q} /\ q.kind = "page"
      BY <2>1, <2>2 DEF Send
    <3>2. QED
      BY <3>1 DEF PageAsked
  <2>4. /\ DOMAIN table' = DOMAIN table /\ table'.rows = table.rows
        /\ table'.offset = table.offset /\ table'.loading = TRUE
    BY <1>0, <2>1
  <2>5. QED
    BY <1>0, <2>3, <2>4 DEF TableTypes, PageAsked
<1>7. ASSUME NEW r \in requests, Handle(r) PROVE TableTypes'
  <2>1. PICK answer : Answers(r, answer)
    BY <1>7, HandlerAnswers
  <2>2. PICK q : requests' = (requests \ {r}) \cup {q} /\ q.kind = r.kind
    BY <2>1, AnsweredRequests
  <2>3. PageAsked' = PageAsked
    BY <2>2 DEF PageAsked
  <2>4. QED
    BY <1>1, <1>7, <2>3 DEF Handle
<1>8. ASSUME NEW r \in requests, requests' = requests \ {r}
      PROVE  /\ r.kind = "page" => PageAsked' = FALSE
             /\ r.kind # "page" => PageAsked' = PageAsked
  BY <1>0, <1>8 DEF PageAsked
<1>9. ASSUME NEW r \in requests, requests' = requests \ {r}, ShowError(r)
      PROVE  TableTypes'
  <2>1. table' = IF r.kind = "page" THEN [table EXCEPT !.loading = FALSE] ELSE table
    BY <1>9 DEF ShowError
  <2>2. /\ DOMAIN table' = DOMAIN table /\ table'.rows = table.rows
        /\ table'.offset = table.offset
        /\ table'.loading = IF r.kind = "page" THEN FALSE ELSE table.loading
    BY <1>0, <2>1
  <2>3. table'.loading = PageAsked'
    <3>1. CASE r.kind = "page"
      BY <1>8, <1>9, <2>2, <3>1
    <3>2. CASE r.kind # "page"
      BY <1>0, <1>8, <1>9, <2>2, <3>2
    <3>3. QED
      BY <3>1, <3>2
  <2>4. QED
    BY <1>0, <2>2, <2>3 DEF TableTypes, PageAsked
<1>10. ASSUME NEW r \in requests, Deliver(r), r.answer.status = "ok"
       PROVE  TableTypes'
  <2>0. /\ requests' = requests \ {r} /\ r.answer # NoAnswer /\ IsRequest(r)
        /\ IsDashboard(dash)
    BY <1>0, <1>10 DEF Deliver
  <2>1. CASE ShowData(r)
    <3>1. IsResponse(dash, r.answer.data)
      BY <1>10, <2>0, <2>1 DEF IsRequest, ShowData, ErrorAnswer
    <3>2. PICK data : data = DataOf(r.answer.data)
      OBVIOUS
    <3>3. shown'.data = data
      BY <2>1, <3>2 DEF ShowData
    <3>4. PICK rows : rows = IF Table \in DOMAIN data THEN data[Table] ELSE << >>
      OBVIOUS
    <3>5. IsRows(rows)
      BY <2>0, <3>1, <3>2, <3>4, TableFindsRows, NoRows
    <3>6. table' = Reset(r, rows) /\ r.kind = "data"
      BY <2>1, <3>3, <3>4 DEF ShowData
    <3>7. /\ DOMAIN table' = DOMAIN table /\ table'.rows = rows
          /\ table'.offset = Len(rows) /\ table'.loading = table.loading
      BY <1>0, <3>6 DEF Reset
    <3>8. table'.loading = PageAsked'
      <4>1. PageAsked' = PageAsked
        BY <1>8, <2>0, <3>6
      <4>2. QED
        BY <1>0, <3>7, <4>1
    <3>9. QED
      BY <1>0, <3>5, <3>7, <3>8 DEF TableTypes, PageAsked
  <2>2. CASE ShowPage(r)
    <3>1. IsRows(r.answer.data.rows) /\ r.kind = "page"
      BY <1>10, <2>0, <2>2 DEF IsRequest, ShowPage, ErrorAnswer, IsResult
    <3>2. /\ DOMAIN table' = {"rows", "offset", "total", "more", "loading", "filters"}
          /\ table'.rows = table.rows \o r.answer.data.rows
          /\ table'.offset = table.offset + Len(r.answer.data.rows)
          /\ table'.loading = FALSE
      BY <2>2 DEF ShowPage
    <3>3. IsRows(table'.rows) /\ table'.offset = Len(table'.rows)
      BY <1>0, <3>1, <3>2, JoinedRows
    <3>4. table'.loading = PageAsked'
      BY <1>0, <1>8, <2>0, <3>1, <3>2
    <3>5. QED
      BY <3>2, <3>3, <3>4 DEF TableTypes, PageAsked
  <2>3. CASE SaveCsv(r)
    <3>1. UNCHANGED table /\ r.kind = "export"
      BY <2>3 DEF SaveCsv
    <3>2. PageAsked' = PageAsked
      BY <1>8, <2>0, <3>1 DEF PageAsked
    <3>3. QED
      BY <1>1, <3>1, <3>2
  <2>4. QED
    BY <1>10, <2>1, <2>2, <2>3 DEF Deliver
<1>11. CASE (\E click \in Clicks : Click(click)) \/ SetRowLimit \/ Expire \/ UNCHANGED vars
  BY <1>1, <1>11 DEF Click, SetRowLimit, Expire, PageAsked
<1>12. QED
  <2>1. ASSUME NEW r \in requests, Lose(r) PROVE TableTypes'
    BY <1>9, <2>1 DEF Lose
  <2>2. ASSUME NEW r \in requests, Deliver(r) PROVE TableTypes'
    <3>1. requests' = requests \ {r} /\ (r.answer.status = "ok" \/ ShowError(r))
      BY <2>2 DEF Deliver
    <3>2. QED
      BY <1>9, <1>10, <2>2, <3>1
  <2>3. ASSUME NEW r \in requests, Handle(r) \/ Deliver(r) \/ Lose(r) PROVE TableTypes'
    BY <1>7, <2>1, <2>2, <2>3
  <2>4. QED
    BY <1>3, <1>4, <1>5, <1>6, <1>11, <2>3 DEF Next, Answered

LEMMA TypesInit == Init => Types
<1>1. SUFFICES ASSUME Init PROVE Types
  OBVIOUS
<1>2. ServerTypes
  <2>1. DOMAIN cache = {} /\ IsFiniteSet(DOMAIN cache) /\ Cardinality(DOMAIN cache) = 0
    BY <1>1, FS_EmptySet DEF Init, Nothing
  <2>2. dash # NoDash => IsDashboard(dash)
    BY <1>1, LoadedIsDashboard DEF Init
  <2>3. QED
    BY <1>1, <2>1, <2>2, BoundsAssumption DEF Init, ServerTypes
<1>3. TrafficTypes
  <2>1. requests = {} /\ sent = 0 /\ timer = FALSE /\ faults = 0
    BY <1>1 DEF Init
  <2>2. (IF timer THEN 1 ELSE 0) = 0
    BY <2>1
  <2>3. MaxRequests \in Nat /\ faults \in 0..MaxFaults
    BY <2>1, BoundsAssumption
  <2>4. timer \in BOOLEAN /\ sent \in Nat /\ sent + (IF timer THEN 1 ELSE 0) <= MaxRequests
    <3>1. timer \in BOOLEAN
      BY <2>1
    <3>2. QED
      BY <2>1, <2>2, <2>3, <3>1
  <2>5. QED
    BY <2>1, <2>3, <2>4 DEF TrafficTypes
<1>4. PageTypes
  BY <1>1 DEF Init, PageTypes, Opened
<1>5. TableTypes
  BY <1>1, NoRows DEF Init, TableTypes, EmptyTable
<1>6. QED
  BY <1>2, <1>3, <1>4, <1>5 DEF Types

LEMMA TypesStep == Types /\ [Next]_vars => Types'
  BY ServerStep, TrafficStep, PageStep, TableStep DEF Types

\* Server, requests, page and table are well typed in every reachable state, in
\* whatever order answers arrive: the table's offset is the number of its rows,
\* it waits just while a page is on its way, and the filters are of widgets the
\* layout has.
THEOREM Typing == Spec => []TypeOK
<1>1. Types => TypeOK
  <2>1. SUFFICES ASSUME Types PROVE TypeOK
    OBVIOUS
  <2>2. dash = NoDash \/ DOMAIN dash.aggregates \cup DOMAIN dash.totals \subseteq Identifiers
    BY <2>1 DEF Types, ServerTypes, IsDashboard
  <2>3. \A hash \in DOMAIN cache : cache[hash].rowLimit \in RowLimits
    BY <2>1 DEF Types, ServerTypes, IsResponse
  <2>4. sent \in 0..MaxRequests
    <3>1. MaxRequests \in Nat /\ sent \in Nat /\ sent <= MaxRequests
      BY <2>1, BoundsAssumption DEF Types, TrafficTypes
    <3>2. QED
      BY <3>1
  <2>5. \A r \in requests : r.n \in 1..sent /\ r.kind \in {"data", "page", "export"}
    BY <2>1 DEF Types, TrafficTypes, IsRequest
  <2>6. /\ limit \in RowLimits /\ Cardinality(DOMAIN cache) <= MaxCached
        /\ page \in {"closed", "open", "failed"} /\ timer \in BOOLEAN
        /\ dash # NoDash /\ page # "closed" => DOMAIN filters \cup DOMAIN pins \subseteq LayoutIds
        /\ \A r, q \in requests : r.n = q.n => r = q
        /\ faults \in 0..MaxFaults
    BY <2>1 DEF Types, ServerTypes, TrafficTypes, PageTypes, Opened
  <2>7. /\ table.offset = Len(table.rows)
        /\ table.loading <=> \E r \in requests : r.kind = "page"
    BY <2>1 DEF Types, TableTypes
  <2>8. QED
    BY <2>2, <2>3, <2>4, <2>5, <2>6, <2>7 DEF TypeOK
<1>2. QED
  BY <1>1, TypesInit, TypesStep, PTL DEF Spec

-----------------------------------------------------------------------------
(* The widget map *)

\* Every response leads every chart, table and dropdown of the layout to data
\* that it holds, whatever query failed and whatever the cache answered.
THEOREM EveryWidgetFindsItsData == Spec => []WidgetMapBacked
<1>1. Types => WidgetMapBacked
  <2>1. SUFFICES ASSUME Types, NEW r \in DataAnswers
                 PROVE  LET response == r.answer.data
                        IN  /\ \A e \in response.map :
                                  e.key \in CASE e.type = "total" -> DOMAIN response.totals
                                              [] e.type = "raw" -> DOMAIN response.raw
                                              [] e.type = "aggregate" -> DOMAIN response.aggregates
                            /\ \A w \in DataWidgets(dash) : \E e \in response.map : e.widget = w.id
    BY DEF WidgetMapBacked
  <2>. DEFINE response == r.answer.data
  <2>2. IsResponse(dash, response)
    <3>1. r \in requests /\ r.kind = "data" /\ r.answer.status = "ok"
      BY DEF DataAnswers
    <3>2. IsRequest(r)
      BY <2>1, <3>1 DEF Types, TrafficTypes
    <3>3. QED
      BY <3>1, <3>2 DEF IsRequest, NoAnswer, ErrorAnswer
  <2>. HIDE DEF response
  <2>3. ASSUME NEW e \in response.map
        PROVE  e.key \in CASE e.type = "total" -> DOMAIN response.totals
                           [] e.type = "raw" -> DOMAIN response.raw
                           [] e.type = "aggregate" -> DOMAIN response.aggregates
    <3>1. \/ e.type = "total" /\ e.key \in DOMAIN response.totals
          \/ e.type = "aggregate" /\ e.key \in DOMAIN response.aggregates
          \/ e.type = "raw" /\ e.key \in DOMAIN response.raw
      BY <2>2, EntriesLeadToData DEF IsResponse
    <3>2. QED
      BY <3>1
  <2>4. ASSUME NEW w \in DataWidgets(dash) PROVE \E e \in response.map : e.widget = w.id
    <3>1. PICK e : e = [widget |-> w.id,
                        type |-> IF w.data \in DOMAIN dash.aggregates THEN "aggregate" ELSE "raw",
                        key |-> w.data]
      OBVIOUS
    <3>2. e \in WidgetMap(dash) /\ e.widget = w.id
      BY <3>1 DEF WidgetMap
    <3>3. QED
      BY <2>2, <3>2 DEF IsResponse
  <2>5. QED
    BY <2>3, <2>4 DEF response
<1>2. QED
  BY <1>1, TypesInit, TypesStep, PTL DEF Spec

-----------------------------------------------------------------------------
(* Toggle groups *)

OnePresetPerGroup == IsInjective([i \in GroupedPresets |-> dash.layout[i].group])

\* The buttons of the page that are in a group.
Grouped(group) == {w.id : w \in {v \in Range(dash.layout) : v.group = group}}

\* The button a group may have among the filters: the active one, or none.
ActiveOf(group) == IF group \in DOMAIN active THEN {active[group]} \ {None} ELSE {}

Buttons ==
    /\ "" \notin DOMAIN active
    /\ \A group \in DOMAIN active : active[group] \in Grouped(group) \cup {None}
    /\ \A group : group # "" => DOMAIN filters \cap Grouped(group) \subseteq ActiveOf(group)

ButtonsOfPage == page # "closed" /\ dash # NoDash /\ OnePresetPerGroup => Buttons

\* A widget is in one group.
LEMMA GroupOfWidget ==
  ASSUME Types, dash # NoDash, NEW i \in DOMAIN dash.layout
  PROVE  /\ \A group : dash.layout[i].id \in Grouped(group) <=> dash.layout[i].group = group
         /\ dash.layout[i].id # None
<1>1. IsDashboard(dash)
  BY DEF Types, ServerTypes
<1>2. \A j \in DOMAIN dash.layout : dash.layout[i].id = dash.layout[j].id => i = j
  BY <1>1 DEF IsDashboard
<1>3. dash.layout[i].id \in Identifiers
  BY <1>1 DEF IsDashboard, Range
<1>4. QED
  BY <1>2, <1>3, NoneAssumption DEF Grouped, Range

\* At first the presets are on, one of each group.
LEMMA ButtonsOpened ==
  ASSUME Types, Open, dash # NoDash, OnePresetPerGroup
  PROVE  Buttons'
<1>0. dash' = dash
  BY DEF Open, serverVars
<1>1. /\ DOMAIN filters' = {dash.layout[i].id : i \in Presets}
      /\ active' = [g \in {dash.layout[i].group : i \in Presets} \ {""} |->
                       dash.layout[LastPresetOf(g)].id]
  BY DEF Open
<1>2. Presets \subseteq DOMAIN dash.layout /\ DOMAIN dash.layout \subseteq Nat
  BY DEF Presets, Types, ServerTypes, IsDashboard
<1>3. ASSUME NEW i \in Presets, dash.layout[i].group # ""
      PROVE  LastPresetOf(dash.layout[i].group) = i
  <2>1. ASSUME NEW j \in Presets, dash.layout[j].group = dash.layout[i].group
        PROVE  j = i
    BY <1>3, <2>1 DEF OnePresetPerGroup, GroupedPresets, IsInjective
  <2>2. i <= i
    BY <1>2
  <2>3. \A k \in Presets :
           (/\ dash.layout[k].group = dash.layout[i].group
            /\ \A j \in Presets : dash.layout[j].group = dash.layout[i].group => j <= k)
           <=> k = i
    BY <2>1, <2>2
  <2>4. QED
    BY <2>3 DEF LastPresetOf
<1>4. \A group : Grouped(group)' = Grouped(group)
  BY <1>0 DEF Grouped
<1>5. "" \notin DOMAIN active'
  BY <1>1
<1>6. ASSUME NEW group \in DOMAIN active'
      PROVE  \E i \in Presets : /\ dash.layout[i].group = group /\ group # ""
                                /\ active'[group] = dash.layout[i].id
  BY <1>1, <1>3, <1>6
<1>7. ASSUME NEW group \in DOMAIN active'
      PROVE  active'[group] \in Grouped(group) \cup {None}
  BY <1>2, <1>6, GroupOfWidget
<1>8. ASSUME NEW group, group # ""
      PROVE  DOMAIN filters' \cap Grouped(group) \subseteq ActiveOf(group)'
  <2>1. \A id : id \in DOMAIN filters' \cap Grouped(group)
                  <=> \E i \in Presets : id = dash.layout[i].id /\ dash.layout[i].group = group
    BY <1>1, <1>2, GroupOfWidget, ZenonT(30)
  <2>2. CASE group \in DOMAIN active'
    <3>1. PICK i \in Presets : /\ dash.layout[i].group = group
                               /\ active'[group] = dash.layout[i].id
      BY <1>6, <2>2
    <3>2. \A j \in Presets : dash.layout[j].group = group => j = i
      BY <1>3, <1>8, <3>1
    <3>3. active'[group] # None
      BY <1>2, <3>1, GroupOfWidget
    <3>4. QED
      BY <2>1, <2>2, <3>1, <3>2, <3>3 DEF ActiveOf
  <2>3. CASE group \notin DOMAIN active'
    <3>1. \A i \in Presets : dash.layout[i].group # group
      BY <1>1, <1>8, <2>3
    <3>2. QED
      BY <2>1, <2>3, <3>1 DEF ActiveOf
  <2>4. QED
    BY <2>2, <2>3
<1>9. QED
  BY <1>4, <1>5, <1>7, <1>8 DEF Buttons

\* A click on a button turns the one of its group off, and no other.
LEMMA ButtonsClicked ==
  ASSUME Types, Buttons, dash # NoDash, NEW click \in Clicks, Click(click)
  PROVE  Buttons'
<1>0. dash' = dash /\ click.widget \in LayoutIds
  BY DEF Click, serverVars
<1>1. PICK i \in DOMAIN dash.layout : dash.layout[i].id = click.widget
  BY <1>0 DEF LayoutIds, Range
<1>2. dash.layout[i].group = click.group
  BY <1>1 DEF Types, ServerTypes, IsDashboard, Range
<1>3. click.widget # None /\ \A group : click.widget \in Grouped(group) <=> group = click.group
  BY <1>1, <1>2, GroupOfWidget
<1>4. \A group : Grouped(group)' = Grouped(group)
  BY <1>0 DEF Grouped
<1>5. /\ DOMAIN active' = IF click.group = "" THEN DOMAIN active ELSE DOMAIN active \cup {click.group}
      /\ \A group \in DOMAIN active' :
            active'[group] = IF group = click.group
                             THEN IF click.on THEN click.widget ELSE None
                             ELSE active[group]
  BY DEF Click, Put, Buttons
<1>6. DOMAIN filters' =
         ((DOMAIN filters \ (IF click.group \in DOMAIN active THEN {active[click.group]} ELSE {}))
            \ {click.widget})
         \cup (IF click.items = << >> THEN {} ELSE {click.widget})
  BY ClickedWidgets
<1>7. "" \notin DOMAIN active'
  BY <1>5 DEF Buttons
<1>8. ASSUME NEW group \in DOMAIN active'
      PROVE  active'[group] \in Grouped(group) \cup {None}
  BY <1>3, <1>5 DEF Buttons
<1>9. ASSUME NEW group, group # ""
      PROVE  DOMAIN filters' \cap Grouped(group) \subseteq ActiveOf(group)'
  <2>0. DOMAIN filters \cap Grouped(group) \subseteq ActiveOf(group)
    BY <1>9 DEF Buttons
  <2>1. CASE group = click.group
    <3>1. \A id \in DOMAIN filters \cap Grouped(group) :
             click.group \in DOMAIN active /\ id = active[click.group]
      BY <2>0, <2>1 DEF ActiveOf
    <3>2. DOMAIN filters' \cap Grouped(group) = IF click.items = << >> THEN {} ELSE {click.widget}
      BY <1>3, <1>6, <2>1, <3>1
    <3>3. group \in DOMAIN active' /\ active'[group] = IF click.on THEN click.widget ELSE None
      BY <1>5, <1>9, <2>1
    <3>4. ActiveOf(group)' = {active'[group]} \ {None}
      BY <3>3 DEF ActiveOf
    <3>5. click.items # << >> => click.on
      BY ItemsAssumption
    <3>6. QED
      BY <1>3, <3>2, <3>3, <3>4, <3>5
  <2>2. CASE group # click.group
    <3>1. click.widget \notin Grouped(group)
      BY <1>3, <2>2
    <3>2. click.group \in DOMAIN active => active[click.group] \notin DOMAIN filters \cap Grouped(group)
      <4>1. SUFFICES ASSUME click.group \in DOMAIN active,
                            active[click.group] \in DOMAIN filters \cap Grouped(group)
                     PROVE  FALSE
        OBVIOUS
      <4>2. active[click.group] # None
        BY <2>0, <2>2, <4>1, <1>3 DEF ActiveOf
      <4>3. active[click.group] \in Grouped(click.group)
        BY <4>1, <4>2 DEF Buttons
      <4>4. PICK j \in DOMAIN dash.layout :
               dash.layout[j].id = active[click.group] /\ dash.layout[j].group = click.group
        BY <4>3 DEF Grouped, Range
      <4>5. QED
        BY <2>2, <4>1, <4>4, GroupOfWidget
    <3>3. DOMAIN filters' \cap Grouped(group) = DOMAIN filters \cap Grouped(group)
      BY <1>6, <3>1, <3>2
    <3>4. (group \in DOMAIN active' <=> group \in DOMAIN active)
          /\ (group \in DOMAIN active => active'[group] = active[group])
      BY <1>5, <2>2
    <3>5. ActiveOf(group)' = ActiveOf(group)
      BY <3>4 DEF ActiveOf
    <3>6. QED
      BY <2>0, <3>3, <3>5
  <2>3. QED
    BY <2>1, <2>2
<1>10. QED
  BY <1>4, <1>7, <1>8, <1>9 DEF Buttons

LEMMA ButtonsStep ==
  ASSUME Types, ButtonsOfPage, [Next]_vars
  PROVE  ButtonsOfPage'
<1> USE DEF serverVars, controlVars, trafficVars, viewVars, vars
<1>1. dash' = dash
  BY DEF Next, Answered, Handle, Deliver, Lose, Open, FireTimer, Retry, LoadMore, ExportCsv,
     Click, SetRowLimit, Expire
<1>2. OnePresetPerGroup' = OnePresetPerGroup
  BY <1>1 DEF OnePresetPerGroup, GroupedPresets, Presets
<1>3. CASE Open
  BY <1>1, <1>2, <1>3, ButtonsOpened DEF ButtonsOfPage, Open
<1>4. ASSUME NEW click \in Clicks, Click(click) PROVE ButtonsOfPage'
  <2>1. page # "closed" /\ dash # NoDash
    BY <1>4 DEF Click, MayAct, Types, PageTypes, Opened
  <2>2. QED
    BY <1>1, <1>2, <1>4, <2>1, ButtonsClicked DEF ButtonsOfPage
<1>5. ASSUME UNCHANGED <<filters, active>>, page = "closed" => page' = "closed"
      PROVE  ButtonsOfPage'
  BY <1>1, <1>2, <1>5 DEF ButtonsOfPage, Buttons, Grouped, ActiveOf
<1>6. ASSUME NEW r \in requests, Handle(r) \/ Deliver(r) \/ Lose(r) PROVE ButtonsOfPage'
  <2>1. page # "closed" /\ UNCHANGED <<filters, active>>
    BY <1>6 DEF Handle, Deliver, Lose, Types, PageTypes, Opened
  <2>2. QED
    BY <1>1, <1>2, <2>1 DEF ButtonsOfPage, Buttons, Grouped, ActiveOf
<1>7. CASE FireTimer \/ Retry \/ LoadMore \/ ExportCsv \/ SetRowLimit \/ Expire \/ UNCHANGED vars
  BY <1>5, <1>7 DEF FireTimer, Retry, LoadMore, ExportCsv, SetRowLimit, Expire, MayAct
<1>8. QED
  BY <1>3, <1>4, <1>6, <1>7 DEF Next, Answered

\* A button of a toggle group that is among the filters is the one drawn as
\* active, whatever is clicked, taken back, empty, lost or tried again, unless
\* the file presets two of them.
THEOREM ButtonsExclude == Spec => []OneButtonPerGroup
<1>1. Init => ButtonsOfPage
  BY DEF Init, ButtonsOfPage
<1>2. Types /\ ButtonsOfPage => OneButtonPerGroup
  <2>1. SUFFICES ASSUME Types, ButtonsOfPage, page = "open", OnePresetPerGroup,
                        NEW w \in Range(dash.layout), w.group # "", w.id \in DOMAIN filters
                 PROVE  w.group \in DOMAIN active /\ active[w.group] = w.id
    BY DEF OneButtonPerGroup, OnePresetPerGroup
  <2>2. Buttons
    BY <2>1 DEF ButtonsOfPage, Types, PageTypes, Opened
  <2>3. w.id \in DOMAIN filters \cap Grouped(w.group)
    BY <2>1 DEF Grouped
  <2>4. w.id \in ActiveOf(w.group)
    BY <2>1, <2>2, <2>3 DEF Buttons
  <2>5. QED
    BY <2>4 DEF ActiveOf
<1>3. Types /\ ButtonsOfPage /\ [Next]_vars => ButtonsOfPage'
  BY ButtonsStep
<1>4. QED
  BY <1>1, <1>2, <1>3, TypesInit, TypesStep, PTL DEF Spec

-----------------------------------------------------------------------------
(* What is shown *)

\* The page shows what was asked for with its filters unless a new request is
\* due. A user who waits has one request on its way, with these filters.
Waiting ==
    /\ timer => requests = {}
    /\ \A r, q \in requests : r = q
    /\ \A r \in requests : r.filters = filters
    /\ page = "open" /\ ~timer /\ (\A r \in requests : r.kind # "data")
          => shown.filters = filters /\ table.filters = {filters}

LEMMA WaitingStep ==
  ASSUME ~Impatient, Types, Waiting, [Next]_vars
  PROVE  Waiting'
<1> USE DEF serverVars, controlVars, trafficVars, viewVars, vars
<1>0. /\ timer \in BOOLEAN
      /\ page = "closed" => requests = {} /\ ~timer
      /\ \A r \in requests : IsRequest(r)
      /\ DOMAIN table = {"rows", "offset", "total", "more", "loading", "filters"}
  BY DEF Types, TrafficTypes, PageTypes, TableTypes, Opened
<1>1. ASSUME NEW kind, NEW wanted, NEW pinned, requests = {}, Send(kind, wanted, pinned)
      PROVE  \E q : requests' = {q} /\ q.kind = kind /\ q.filters = wanted
  <2>1. PICK q : q = [n |-> sent + 1, kind |-> kind, filters |-> wanted, pins |-> pinned,
                      offset |-> IF kind = "page" THEN table.offset ELSE 0, answer |-> NoAnswer]
    OBVIOUS
  <2>2. requests' = {q} /\ q.kind = kind /\ q.filters = wanted
    BY <1>1, <2>1 DEF Send
  <2>3. QED
    BY <2>2
<1>2. CASE Open
  <2>1. CASE dash = NoDash
    BY <1>0, <1>2, <2>1 DEF Open, Waiting
  <2>2. CASE dash # NoDash
    <3>1. PICK wanted, pinned : wanted = filters' /\ pinned = pins'
      OBVIOUS
    <3>2. Send("data", wanted, pinned) /\ timer' = timer
      BY <1>2, <2>2, <3>1 DEF Open
    <3>3. PICK q : requests' = {q} /\ q.kind = "data" /\ q.filters = wanted
      BY <1>0, <1>1, <1>2, <3>2, ZenonT(30) DEF Open
    <3>4. ~timer'
      BY <1>0, <1>2, <3>2 DEF Open
    <3>5. QED
      BY <3>1, <3>3, <3>4 DEF Waiting
  <2>3. QED
    BY <2>1, <2>2
<1>3. ASSUME NEW click \in Clicks, Click(click) PROVE Waiting'
  <2>1. requests = {} /\ UNCHANGED requests /\ timer' = TRUE
    BY <1>3 DEF Click, MayAct, Quiet
  <2>2. QED
    BY <2>1 DEF Waiting
<1>4. CASE FireTimer \/ Retry
  <2>1. requests = {} /\ Send("data", filters, pins) /\ UNCHANGED filters
    BY <1>4 DEF FireTimer, Retry, Quiet, Waiting
  <2>2. timer' = FALSE
    BY <1>0, <1>4 DEF FireTimer, Retry, Quiet
  <2>3. PICK q : requests' = {q} /\ q.kind = "data" /\ q.filters = filters
    BY <1>1, <2>1
  <2>4. QED
    BY <2>1, <2>2, <2>3 DEF Waiting
<1>5. CASE LoadMore \/ ExportCsv
  <2>1. /\ requests = {} /\ UNCHANGED <<filters, timer, page, shown>> /\ ~timer /\ page = "open"
        /\ table'.filters = table.filters
    BY <1>0, <1>5 DEF LoadMore, ExportCsv, MayAct, Quiet
  <2>2. PICK q : requests' = {q} /\ q.filters = filters
    BY <1>1, <1>5, <2>1 DEF LoadMore, ExportCsv
  <2>3. shown.filters = filters /\ table.filters = {filters}
    BY <2>1 DEF Waiting
  <2>4. QED
    BY <2>1, <2>2, <2>3 DEF Waiting
<1>6. ASSUME NEW r \in requests, Handle(r) PROVE Waiting'
  <2>1. PICK answer : requests' = (requests \ {r}) \cup {[r EXCEPT !.answer = answer]}
    BY <1>6, HandlerAnswers DEF Answers, Answer
  <2>2. PICK q : q = [r EXCEPT !.answer = answer]
    OBVIOUS
  <2>3. q.filters = r.filters /\ q.kind = r.kind
    BY <1>0, <2>2 DEF IsRequest
  <2>4. requests = {r} /\ requests' = {q}
    BY <2>1, <2>2 DEF Waiting
  <2>5. UNCHANGED <<filters, timer, page, shown, table>> /\ ~timer
    BY <1>6 DEF Handle, Waiting
  <2>6. QED
    BY <2>3, <2>4, <2>5 DEF Waiting
<1>7. ASSUME NEW r \in requests, Deliver(r) \/ Lose(r) PROVE Waiting'
  <2>1. /\ requests = {r} /\ requests' = {} /\ r.filters = filters
        /\ UNCHANGED <<filters, timer>> /\ ~timer
    BY <1>7 DEF Deliver, Lose, Waiting
  <2>2. CASE ShowError(r)
    <3>1. /\ page' = IF r.kind = "data" THEN "failed" ELSE page
          /\ shown' = shown /\ table'.filters = table.filters
      BY <1>0, <2>2 DEF ShowError
    <3>2. QED
      BY <2>1, <3>1 DEF Waiting
  <2>3. CASE ShowData(r)
    <3>1. shown'.filters = r.filters
      BY <2>3 DEF ShowData
    <3>2. PICK rows : table' = Reset(r, rows)
      BY <2>3 DEF ShowData
    <3>3. table'.filters = {r.filters}
      BY <1>0, <3>2 DEF Reset
    <3>4. QED
      BY <2>1, <3>1, <3>3 DEF Waiting
  <2>4. CASE ShowPage(r)
    <3>1. /\ r.kind = "page" /\ UNCHANGED <<page, shown>>
          /\ table'.filters = table.filters \cup {r.filters}
      BY <2>4 DEF ShowPage
    <3>2. QED
      BY <2>1, <3>1 DEF Waiting
  <2>5. CASE SaveCsv(r)
    <3>1. r.kind = "export" /\ UNCHANGED <<page, shown, table>>
      BY <2>5 DEF SaveCsv
    <3>2. QED
      BY <2>1, <3>1 DEF Waiting
  <2>6. QED
    BY <1>7, <2>2, <2>3, <2>4, <2>5 DEF Deliver, Lose
<1>8. CASE SetRowLimit \/ Expire \/ UNCHANGED vars
  BY <1>8 DEF SetRowLimit, Expire, Waiting
<1>9. QED
  BY <1>2, <1>3, <1>4, <1>5, <1>6, <1>7, <1>8 DEF Next, Answered

\* If the user waits for answers, a page that is quiet shows data, and pages of
\* the table, that were asked for with the filters that are set, whatever was
\* lost or refused before.
THEOREM PatientViewFollows ==
  ASSUME ~Impatient
  PROVE  Spec => []ViewFollowsFilters
<1>1. Init => Waiting
  BY DEF Init, Waiting
<1>2. Waiting => ViewFollowsFilters
  BY DEF Waiting, ViewFollowsFilters, Quiet
<1>3. Types /\ Waiting /\ [Next]_vars => Waiting'
  BY WaitingStep
<1>4. QED
  BY <1>1, <1>2, <1>3, TypesInit, TypesStep, PTL DEF Spec
-----------------------------------------------------------------------------
(* What becomes of a condition *)

\* A row that meets a condition of a request meets what is made of it.
LEMMA ItemsHold ==
  ASSUME NEW item, IsItem(item), item.operator \in Operators, Values(item) # {},
         NEW column, NEW id, NEW row, NEW c,
         c = [column |-> column, operator |-> item.operator, value |-> Values(item), widget |-> id]
  PROVE  Holds(c, row) <=> Meets(item, row[column])
<1>. DEFINE value == row[column]
            choice == item.value \ {""}
<1>0. c.column = column /\ c.operator = item.operator /\ c.value = Values(item)
  OBVIOUS
<1>1. CASE item.operator = "in"
  <2>1. Values(item) = choice /\ choice # {}
    BY <1>1 DEF Values, ListOperators
  <2>2. Holds(c, row) <=> \E v \in choice : Rank[value] = Rank[v]
    BY <1>0, <1>1, <2>1 DEF Holds, Vacuous, Compare, LikeOperators
  <2>3. QED
    BY <1>1, <2>1, <2>2 DEF Meets, LikeOperators
<1>2. CASE item.operator = "not_in"
  <2>1. Values(item) = choice
    BY <1>2 DEF Values, ListOperators
  <2>2. Holds(c, row) <=> \A v \in choice : Rank[value] # Rank[v]
    BY <1>0, <1>2, <2>1 DEF Holds, Vacuous, LikeOperators
  <2>3. QED
    BY <1>2, <2>2 DEF Meets, LikeOperators
<1>3. CASE item.operator \notin ListOperators
  <2>1. PICK v : item.value = {v}
    BY <1>3 DEF IsItem
  <2>2. c.value = {v} /\ c.operator = item.operator
    BY <1>0, <1>3, <2>1 DEF Values
  <2>3. CASE item.operator = "last_minutes"
    <3>1. Holds(c, row) <=> (~({v} \subseteq Numbers) \/ Rank[value] + Rank[v] >= Now)
      BY <1>0, <2>2, <2>3 DEF Holds, Vacuous, Numeric, LikeOperators
    <3>2. Meets(item, value) <=> ({v} \subseteq Numbers => Rank[value] + Rank[v] >= Now)
      BY <2>1, <2>3 DEF Meets, LikeOperators
    <3>3. QED
      BY <3>1, <3>2
  <2>4. CASE item.operator \in LikeOperators
    <3>1. Holds(c, row) <=> <<item.operator, v, value>> \in Like
      BY <1>0, <2>2, <2>4 DEF Holds, Vacuous, LikeOperators
    <3>2. Meets(item, value) <=> <<item.operator, v, value>> \in Like
      BY <2>1, <2>4 DEF Meets, LikeOperators
    <3>3. QED
      BY <3>1, <3>2
  <2>5. CASE item.operator \in Comparisons
    <3>1. Holds(c, row) <=> Compare(item.operator, Rank[value], Rank[v])
      BY <1>0, <2>2, <2>5 DEF Holds, Vacuous, LikeOperators, Comparisons
    <3>2. Meets(item, value) <=> Compare(item.operator, Rank[value], Rank[v])
      BY <2>1, <2>5 DEF Meets, Compare, LikeOperators, Comparisons
    <3>3. QED
      BY <3>1, <3>2
  <2>6. QED
    BY <1>3, <2>3, <2>4, <2>5 DEF Operators
<1>4. QED
  BY <1>1, <1>2, <1>3 DEF ListOperators

\* What is no condition asks nothing.
LEMMA NoValuesAskNothing ==
  ASSUME NEW item, IsItem(item), item.operator \in Operators, Values(item) = {}, NEW value
  PROVE  Meets(item, value)
<1>1. item.operator \in {"in", "not_in"} /\ item.value \ {""} = {}
  BY DEF Values, IsItem, ListOperators
<1>2. QED
  BY <1>1 DEF Meets, LikeOperators

\* A pin asks for rows with its value.
LEMMA PinsAskForTheirValue ==
  ASSUME NEW pin
  PROVE  /\ DOMAIN Equals(pin) = {1}
         /\ IsItem(Equals(pin)[1]) /\ Equals(pin)[1].operator \in Operators
         /\ \A value : Meets(Equals(pin)[1], value) <=> Rank[value] = Rank[pin]
<1>1. PICK item : item = [operator |-> "eq", value |-> {pin}]
  OBVIOUS
<1>2. item.operator = "eq" /\ item.value = {pin}
  BY <1>1
<1>3. DOMAIN Equals(pin) = {1} /\ Equals(pin)[1] = item
  BY <1>1 DEF Equals
<1>4. IsItem(item) /\ item.operator \in Operators
  BY <1>2 DEF IsItem, Operators, Comparisons
<1>5. \A value : Meets(item, value) <=> Rank[value] = Rank[pin]
  BY <1>2 DEF Meets, LikeOperators
<1>6. QED
  BY <1>3, <1>4, <1>5

\* Filters hold lists of conditions.
AreFilters(f) ==
    /\ f = [id \in DOMAIN f |-> f[id]]
    /\ \A id \in DOMAIN f : \A i \in DOMAIN f[id] : IsItem(f[id][i])

LEMMA NothingPinned ==
  ASSUME NEW f, AreFilters(f)
  PROVE  Merged(f, Nothing) = f
  BY DEF AreFilters, Merged, Nothing

\* A row meets the conditions of a filter just if it meets the filter.
LEMMA ConditionsOfFilter ==
  ASSUME NEW m, ~Unparsable(dash, m), AreFilters(m), NEW row
  PROVE  (\A c \in Conditions(dash, m) : Holds(c, row))
         <=> \A id \in Applied(dash, m) : \A i \in DOMAIN m[id] :
                Meets(m[id][i], row[ColumnOf(dash, id)])
<1>. DEFINE Made(id, item) == [column |-> ColumnOf(dash, id), operator |-> item.operator,
                               value |-> Values(item), widget |-> id]
<1>1. \A c : c \in Conditions(dash, m)
             <=> \E id \in Applied(dash, m) : \E i \in DOMAIN m[id] :
                    Values(m[id][i]) # {} /\ c = Made(id, m[id][i])
  BY DEF Conditions, Range
<1>2. ASSUME NEW id \in Applied(dash, m), NEW i \in DOMAIN m[id]
      PROVE  /\ IsItem(m[id][i]) /\ m[id][i].operator \in Operators
             /\ Values(m[id][i]) = {} => Meets(m[id][i], row[ColumnOf(dash, id)])
             /\ Values(m[id][i]) # {}
                   => (Holds(Made(id, m[id][i]), row) <=> Meets(m[id][i], row[ColumnOf(dash, id)]))
  <2>1. IsItem(m[id][i]) /\ m[id][i].operator \in Operators
    BY DEF Applied, AreFilters, Unparsable
  <2>2. QED
    BY <2>1, ItemsHold, NoValuesAskNothing
<1>. HIDE DEF Made
<1>3. ASSUME \A c \in Conditions(dash, m) : Holds(c, row),
             NEW id \in Applied(dash, m), NEW i \in DOMAIN m[id]
      PROVE  Meets(m[id][i], row[ColumnOf(dash, id)])
  BY <1>1, <1>2, <1>3
<1>4. ASSUME \A id \in Applied(dash, m) : \A i \in DOMAIN m[id] :
                Meets(m[id][i], row[ColumnOf(dash, id)]),
             NEW c \in Conditions(dash, m)
      PROVE  Holds(c, row)
  <2>1. PICK id \in Applied(dash, m) : \E i \in DOMAIN m[id] :
           Values(m[id][i]) # {} /\ c = Made(id, m[id][i])
    BY <1>1
  <2>2. PICK i \in DOMAIN m[id] : Values(m[id][i]) # {} /\ c = Made(id, m[id][i])
    BY <2>1
  <2>3. QED
    BY <1>2, <1>4, <2>2
<1>5. QED
  BY <1>3, <1>4

\* The conditions of a request hold just for the rows that are wanted.
LEMMA ConditionsMean ==
  ASSUME NEW f, AreFilters(f), NEW p, ~Unparsable(dash, Merged(f, p)), NEW row
  PROVE  (\A c \in Conditions(dash, Merged(f, p)) : Holds(c, row)) <=> Wanted(row, f, p)
<1>. DEFINE m == Merged(f, p)
            Asked(id) == \A i \in DOMAIN m[id] : Meets(m[id][i], row[ColumnOf(dash, id)])
<1>1. /\ DOMAIN m = DOMAIN f \cup DOMAIN p
      /\ \A id \in DOMAIN p : m[id] = Equals(p[id])
      /\ \A id \in DOMAIN f \ DOMAIN p : m[id] = f[id]
      /\ m = [id \in DOMAIN m |-> m[id]]
  BY DEF Merged
<1>. HIDE DEF m
<1>2. AreFilters(m)
  BY <1>1, PinsAskForTheirValue DEF AreFilters
<1>3. Applied(dash, m) = Applied(dash, p) \cup (Applied(dash, f) \ DOMAIN p)
  BY <1>1 DEF Applied
<1>4. ASSUME NEW id \in Applied(dash, p)
      PROVE  Asked(id) <=> Rank[row[ColumnOf(dash, id)]] = Rank[p[id]]
  <2>1. m[id] = Equals(p[id])
    BY <1>1 DEF Applied
  <2>2. QED
    BY <2>1, PinsAskForTheirValue
<1>5. ASSUME NEW id \in Applied(dash, f) \ DOMAIN p
      PROVE  Asked(id) <=> \A i \in DOMAIN f[id] : Meets(f[id][i], row[ColumnOf(dash, id)])
  BY <1>1 DEF Applied
<1>6. (\A c \in Conditions(dash, m) : Holds(c, row)) <=> \A id \in Applied(dash, m) : Asked(id)
  BY <1>2, ConditionsOfFilter DEF m
<1>. HIDE DEF Asked
<1>7. QED
  BY <1>3, <1>4, <1>5, <1>6 DEF Wanted, MeetsPins, m
-----------------------------------------------------------------------------
(* The rows of a query *)

\* The first rows of a list.
LEMMA PrefixRows ==
  ASSUME NEW rows, IsRows(rows), NEW n \in Nat
  PROVE  LET first == Prefix(rows, n)
         IN  /\ IsRows(first) /\ first \in Seq(Range(rows))
             /\ Len(first) = IF n < Len(rows) THEN n ELSE Len(rows)
             /\ \A i \in 1..Len(first) : first[i] = rows[i]
<1>. DEFINE S == Range(rows)
<1>1. rows \in Seq(S) /\ Len(rows) \in Nat /\ \A i \in 1..Len(rows) : rows[i] \in S
  BY DEF IsRows
<1>2. PICK k : k = IF n < Len(rows) THEN n ELSE Len(rows)
  OBVIOUS
<1>3. k \in Nat /\ k <= Len(rows) /\ Prefix(rows, n) = SubSeq(rows, 1, k)
  BY <1>1, <1>2 DEF Prefix
<1>. HIDE DEF S
<1>4. \A i \in 1..k : rows[i] \in S
  BY <1>1, <1>3
<1>5. /\ SubSeq(rows, 1, k) \in Seq(S)
      /\ Len(SubSeq(rows, 1, k)) = IF 1 <= k THEN k - 1 + 1 ELSE 0
      /\ \A i \in 1..k - 1 + 1 : SubSeq(rows, 1, k)[i] = rows[1 + i - 1]
  BY <1>3, <1>4, SubSeqProperties
<1>6. PICK first : first = Prefix(rows, n)
  OBVIOUS
<1>7. first \in Seq(S) /\ Len(first) = k /\ \A i \in 1..Len(first) : first[i] = rows[i]
  BY <1>3, <1>5, <1>6
<1>8. IsRows(first)
  BY <1>7, ListsAreRows
<1>9. QED
  BY <1>2, <1>6, <1>7, <1>8 DEF S

\* The rows after the first k, n of them.
LEMMA NextRows ==
  ASSUME NEW rows, IsRows(rows), NEW k \in Nat, k <= Len(rows), NEW n \in Nat
  PROVE  LET next == Prefix(SubSeq(rows, k + 1, Len(rows)), n)
         IN  /\ IsRows(next) /\ next \in Seq(Range(rows))
             /\ k + Len(next) <= Len(rows)
             /\ \A i \in 1..Len(next) : next[i] = rows[k + i]
<1>. DEFINE S == Range(rows)
<1>1. PICK m : m = Len(rows)
  OBVIOUS
<1>2. m \in Nat /\ k <= m /\ \A i \in 1..m : rows[i] \in S
  BY <1>1 DEF IsRows
<1>. HIDE DEF S
<1>3. PICK rest : rest = SubSeq(rows, k + 1, m)
  OBVIOUS
<1>4. /\ rest \in Seq(S)
      /\ Len(rest) = IF k + 1 <= m THEN m - (k + 1) + 1 ELSE 0
      /\ \A i \in 1..m - (k + 1) + 1 : rest[i] = rows[k + 1 + i - 1]
  <2>1. \A i \in (k + 1)..m : rows[i] \in S
    BY <1>2
  <2>2. k + 1 \in Int /\ m \in Int
    BY <1>2
  <2>3. QED
    BY <1>3, <2>1, <2>2, SubSeqProperties
<1>5. Len(rest) = m - k /\ \A i \in 1..Len(rest) : rest[i] = rows[k + i]
  BY <1>2, <1>4
<1>6. IsRows(rest)
  BY <1>4, ListsAreRows
<1>7. PICK next : next = Prefix(rest, n)
  OBVIOUS
<1>8. /\ next \in Seq(Range(rest)) /\ IsRows(next)
      /\ Len(next) = IF n < Len(rest) THEN n ELSE Len(rest)
      /\ \A i \in 1..Len(next) : next[i] = rest[i]
  BY <1>6, <1>7, PrefixRows
<1>9. Len(next) \in Nat /\ Len(next) <= Len(rest) /\ k + Len(next) <= m
  BY <1>2, <1>5, <1>8
<1>10. \A i \in 1..Len(next) : next[i] = rows[k + i]
  BY <1>5, <1>8, <1>9
<1>11. next \in Seq(S)
  <2>1. \A i \in 1..Len(next) : next[i] \in S
    BY <1>2, <1>9, <1>10
  <2>2. QED
    BY <1>8, <2>1
<1>12. QED
  BY <1>1, <1>3, <1>7, <1>8, <1>9, <1>10, <1>11 DEF S

\* A page continues the rows before it.
LEMMA PagesContinue ==
  ASSUME NEW rows, IsRows(rows), NEW k \in Nat, k <= Len(rows), NEW n \in Nat
  PROVE  LET next == Prefix(SubSeq(rows, k + 1, Len(rows)), n)
         IN  Prefix(rows, k) \o next = Prefix(rows, k + Len(next))
<1>. DEFINE S == Range(rows)
<1>1. PICK next : next = Prefix(SubSeq(rows, k + 1, Len(rows)), n)
  OBVIOUS
<1>2. /\ next \in Seq(S) /\ Len(next) \in Nat /\ k + Len(next) <= Len(rows)
      /\ \A i \in 1..Len(next) : next[i] = rows[k + i]
  <2>1. /\ next \in Seq(S) /\ k + Len(next) <= Len(rows)
        /\ \A i \in 1..Len(next) : next[i] = rows[k + i]
    BY <1>1, NextRows, Zenon
  <2>. HIDE DEF S
  <2>2. Len(next) \in Nat
    BY <2>1
  <2>3. QED
    BY <2>1, <2>2
<1>3. PICK first : first = Prefix(rows, k)
  OBVIOUS
<1>4. Len(rows) \in Nat
  BY DEF IsRows
<1>5. first \in Seq(S) /\ Len(first) = k /\ \A i \in 1..k : first[i] = rows[i]
  BY <1>3, <1>4, PrefixRows
<1>6. PICK all : all = Prefix(rows, k + Len(next))
  OBVIOUS
<1>7. k + Len(next) \in Nat
  BY <1>2
<1>8. /\ all \in Seq(S) /\ Len(all) = k + Len(next)
      /\ \A i \in 1..k + Len(next) : all[i] = rows[i]
  BY <1>2, <1>4, <1>6, <1>7, PrefixRows
<1>. HIDE DEF S
<1>9. /\ first \o next \in Seq(S) /\ Len(first \o next) = k + Len(next)
      /\ \A i \in 1..k + Len(next) :
            (first \o next)[i] = IF i <= k THEN first[i] ELSE next[i - k]
  BY <1>2, <1>5, ConcatProperties
<1>10. ASSUME NEW i \in 1..k + Len(next)
       PROVE  (first \o next)[i] = all[i]
  <2>1. CASE i <= k
    <3>1. i \in 1..k
      BY <1>2, <2>1
    <3>2. (first \o next)[i] = first[i]
      BY <1>9, <2>1
    <3>3. QED
      BY <1>5, <1>8, <3>1, <3>2
  <2>2. CASE ~(i <= k)
    <3>1. i - k \in 1..Len(next) /\ k + (i - k) = i
      BY <1>2, <2>2
    <3>2. QED
      BY <1>2, <1>8, <1>9, <2>2, <3>1
  <2>3. QED
    BY <2>1, <2>2
<1>11. first \o next = all
  BY <1>8, <1>9, <1>10, SeqEqual
<1>12. QED
  BY <1>1, <1>3, <1>6, <1>11

\* All the rows, in order.
LEMMA AllRows ==
  ASSUME NEW rows, IsRows(rows)
  PROVE  RowsAt(rows, DOMAIN rows) = rows
<1>1. PICK n \in Nat : DOMAIN rows = 1..n /\ Len(rows) = n /\ rows = [i \in 1..n |-> rows[i]]
  BY DEF IsRows
<1>2. Cardinality(1..n) = n
  BY FS_Interval
<1>3. ASSUME NEW m \in 1..n
      PROVE  (CHOOSE i \in 1..n : Cardinality({j \in 1..n : j <= i}) = m) = m
  <2>1. ASSUME NEW i \in 1..n PROVE Cardinality({j \in 1..n : j <= i}) = i
    <3>1. {j \in 1..n : j <= i} = 1..i
      OBVIOUS
    <3>2. Cardinality(1..i) = i
      BY FS_Interval
    <3>3. QED
      BY <3>1, <3>2
  <2>2. \A i \in 1..n : Cardinality({j \in 1..n : j <= i}) = m <=> i = m
    BY <2>1
  <2>3. QED
    BY <2>2
<1>4. RowsAt(rows, 1..n)
         = [m \in 1..n |-> rows[CHOOSE i \in 1..n : Cardinality({j \in 1..n : j <= i}) = m]]
  BY <1>2 DEF RowsAt
<1>5. QED
  BY <1>1, <1>3, <1>4

\* A statement without a WHERE leaves out conditions that hold for every row.
LEMMA WithoutWhere ==
  ASSUME NEW conds, ~HasWhere(conds), NEW c \in conds, NEW row, NEW table_
  PROVE  Holds(c, row) /\ ~Fails(c, table_)
<1>1. Vacuous(c)
  BY DEF HasWhere
<1>2. QED
  BY <1>1 DEF Holds, Fails

\* A query that names the base view as the file defines it reads the rows that
\* the conditions leave, or all of them if it is exempt, or it is refused.
LEMMA PlainQueries ==
  ASSUME NEW d, IsDashboard(d), NEW query, query.form = "plain", NEW conds, NEW nested, NEW exempt,
         NEW filtered, filtered = (HasWhere(conds) /\ ~exempt),
         NEW result \in QueryResults(d, query, filtered, conds, nested),
         NEW table_, table_ = Tables[d.sourceTable],
         NEW due, due = IF exempt THEN table_.rows ELSE FilteredRows(table_, conds)
  PROVE  \/ result \in Orders([ok |-> TRUE, rows |-> due], query.ordered)
         \/ result = Failed /\ ~exempt /\ \E c \in conds : Fails(c, table_)
<1>1. IsRows(table_.rows)
  BY TableRows DEF IsDashboard
<1>2. PICK found \in (IF HasWhere(conds) /\ ~exempt
                      THEN Injected(table_, conds, query.form, nested)
                      ELSE {Select(table_, {})}) :
              result \in Orders(found, query.ordered)
  BY DEF QueryResults
<1>3. CASE HasWhere(conds) /\ ~exempt
  <2>1. found = Select(table_, conds)
    BY <1>2, <1>3 DEF Injected
  <2>2. CASE \E c \in conds : Fails(c, table_)
    <3>1. found = Failed
      BY <2>1, <2>2 DEF Select
    <3>2. result = Failed
      BY <1>2, <3>1 DEF Orders, Failed
    <3>3. QED
      BY <1>3, <2>2, <3>2
  <2>3. CASE ~\E c \in conds : Fails(c, table_)
    <3>1. found = [ok |-> TRUE, rows |-> FilteredRows(table_, conds)]
      BY <2>1, <2>3 DEF Select
    <3>2. QED
      BY <1>2, <1>3, <3>1
  <2>4. QED
    BY <2>2, <2>3
<1>4. CASE ~(HasWhere(conds) /\ ~exempt)
  <2>1. FilteredRows(table_, {}) = table_.rows
    <3>1. {i \in DOMAIN table_.rows : \A c \in {} : Holds(c, table_.rows[i])} = DOMAIN table_.rows
      OBVIOUS
    <3>2. QED
      BY <1>1, <3>1, AllRows DEF FilteredRows
  <2>2. found = [ok |-> TRUE, rows |-> table_.rows]
    BY <1>2, <1>4, <2>1 DEF Select
  <2>3. ~exempt => FilteredRows(table_, conds) = table_.rows
    <3>1. SUFFICES ASSUME ~exempt PROVE FilteredRows(table_, conds) = table_.rows
      OBVIOUS
    <3>2. \A i \in DOMAIN table_.rows : \A c \in conds : Holds(c, table_.rows[i])
      BY <1>4, <3>1, WithoutWhere
    <3>3. {i \in DOMAIN table_.rows : \A c \in conds : Holds(c, table_.rows[i])} = DOMAIN table_.rows
      BY <3>2
    <3>4. QED
      BY <1>1, <3>3, AllRows DEF FilteredRows
  <2>4. due = table_.rows
    BY <2>3
  <2>5. QED
    BY <1>2, <2>2, <2>4
<1>5. QED
  BY <1>3, <1>4

\* An answer holds the first of the rows, in the order of the query.
LEMMA OrderedFirst ==
  ASSUME NEW rows, IsRows(rows), NEW ordered,
         NEW result \in Orders([ok |-> TRUE, rows |-> rows], ordered), NEW n \in Nat
  PROVE  /\ result.ok = TRUE /\ Len(result.rows) = Len(rows)
         /\ ordered => result.rows = rows
         /\ FirstOf(Prefix(result.rows, n), rows, n, ordered)
<1>1. PICK m \in Nat : DOMAIN rows = 1..m /\ Len(rows) = m
  BY DEF IsRows
<1>2. CASE ordered
  <2>1. result = [ok |-> TRUE, rows |-> rows]
    BY <1>2 DEF Orders
  <2>2. result.ok = TRUE /\ result.rows = rows
    BY <2>1
  <2>3. FirstOf(Prefix(result.rows, n), rows, n, ordered)
    BY <1>2, <2>2 DEF FirstOf
  <2>4. QED
    BY <2>2, <2>3
<1>3. CASE ~ordered
  <2>1. PICK p \in SetToSeqs(1..m) :
           result = [ok |-> TRUE, rows |-> [i \in 1..m |-> rows[p[i]]]]
    BY <1>1, <1>3 DEF Orders
  <2>2. Cardinality(1..m) = m
    BY FS_Interval
  <2>3. p \in [1..m -> 1..m] /\ \A i, j \in 1..m : i # j => p[i] # p[j]
    BY <2>1, <2>2 DEF SetToSeqs
  <2>4. PICK found : found = [i \in 1..m |-> rows[p[i]]]
    OBVIOUS
  <2>5. result.ok = TRUE /\ result.rows = found
    BY <2>1, <2>4
  <2>6. IsRows(found) /\ Len(found) = m /\ \A i \in 1..m : found[i] = rows[p[i]]
    <3>1. found = [i \in 1..m |-> found[i]]
      BY <2>4
    <3>2. QED
      BY <2>4, <3>1, RowsAreLists
  <2>7. PICK got : got = Prefix(found, n)
    OBVIOUS
  <2>8. PICK k : k = IF n < m THEN n ELSE m
    OBVIOUS
  <2>9. got \in Seq(Range(found)) /\ Len(got) = k /\ \A i \in 1..k : got[i] = found[i]
    BY <2>6, <2>7, <2>8, PrefixRows
  <2>10. k \in Nat /\ k <= m /\ DOMAIN got = 1..k
    BY <2>8, <2>9
  <2>11. Len(Prefix(rows, n)) = k
    BY <1>1, <2>8, PrefixRows
  <2>12. PICK q : q = [i \in 1..k |-> p[i]]
    OBVIOUS
  <2>13. q \in [1..k -> 1..m] /\ IsInjective(q)
    <3>1. \A i \in 1..k : i \in 1..m
      BY <2>10
    <3>2. DOMAIN q = 1..k /\ \A i \in 1..k : q[i] = p[i] /\ q[i] \in 1..m
      BY <2>3, <2>12, <3>1
    <3>3. q \in [1..k -> 1..m]
      BY <2>12, <3>2
    <3>4. \A i, j \in DOMAIN q : q[i] = q[j] => i = j
      BY <2>3, <3>1, <3>2
    <3>5. QED
      BY <3>3, <3>4 DEF IsInjective
  <2>14. \A i \in 1..k : got[i] = rows[q[i]]
    BY <2>6, <2>9, <2>10, <2>12
  <2>15. FirstOf(got, rows, n, ordered)
    BY <1>1, <1>3, <2>9, <2>10, <2>11, <2>13, <2>14 DEF FirstOf
  <2>16. QED
    BY <1>1, <1>3, <2>5, <2>6, <2>7, <2>15
<1>4. QED
  BY <1>2, <1>3

\* What the filters leave is what they want.
LEMMA FilteredAsWanted ==
  ASSUME NEW f, AreFilters(f), NEW p, ~Unparsable(dash, Merged(f, p)), IsDashboard(dash)
  PROVE  /\ FilteredRows(Tables[dash.sourceTable], Conditions(dash, Merged(f, p)))
               = WantedRows(f, p)
         /\ IsRows(WantedRows(f, p))
<1>1. PICK rows : rows = Tables[dash.sourceTable].rows
  OBVIOUS
<1>2. PICK conds : conds = Conditions(dash, Merged(f, p))
  OBVIOUS
<1>3. \A row : (\A c \in conds : Holds(c, row)) <=> Wanted(row, f, p)
  BY <1>2, ConditionsMean
<1>4. PICK places : places = {i \in DOMAIN rows : Wanted(rows[i], f, p)}
  OBVIOUS
<1>5. places = {i \in DOMAIN rows : \A c \in conds : Holds(c, rows[i])}
  BY <1>3, <1>4
<1>6. WantedRows(f, p) = RowsAt(rows, places)
  BY <1>1, <1>4 DEF WantedRows
<1>7. FilteredRows(Tables[dash.sourceTable], conds) = RowsAt(rows, places)
  BY <1>1, <1>5 DEF FilteredRows
<1>8. IsFiniteSet(places)
  BY <1>1, <1>4, TableRows, FS_Subset DEF IsDashboard
<1>9. QED
  BY <1>2, <1>6, <1>7, <1>8, RowsAtAreRows

-----------------------------------------------------------------------------
(* Answers and their requests *)

\* An answer is what the filters of its request make of the tables.
AnswersItsRequest(r) ==
    r.answer.status = "ok" =>
        /\ r.kind = "data" =>
              /\ ~Unparsable(dash, Merged(r.filters, r.pins))
              /\ r.answer.data \in Data(dash, Conditions(dash, Merged(r.filters, r.pins)),
                                        r.answer.data.rowLimit)
        /\ r.kind = "page" =>
              /\ ~Unparsable(dash, r.filters)
              /\ r.answer.data \in Pages(dash, Table, Conditions(dash, r.filters), PageSize, r.offset)
              /\ r.answer.data.ok

\* So is what the cache holds, under the conditions it is stored for.
Sound ==
    /\ AreFilters(filters)
    /\ \A hash \in DOMAIN cache : cache[hash] \in Data(dash, hash, cache[hash].rowLimit)
    /\ \A r \in requests : AreFilters(r.filters) /\ AnswersItsRequest(r)

LEMMA LimitOfData ==
  ASSUME NEW d, NEW conds, NEW max, NEW response \in Data(d, conds, max)
  PROVE  response.rowLimit = max
<1>. DEFINE raw == [n \in RawSources(d) |-> RawRows(d, n, conds, max)]
<1>1. PICK t \in Selections([n \in DOMAIN d.totals |-> TotalResults(d, n, conds)]),
           a \in Selections([n \in DOMAIN d.aggregates |-> AggregateResults(d, n, conds, max)]) :
         response = [rowLimit |-> max, totals |-> t, aggregates |-> a, raw |-> raw,
                     map |-> WidgetMap(d)]
  BY DEF Data
<1>2. QED
  BY <1>1

\* A request that is sent has no answer yet.
LEMMA SentSoundly ==
  ASSUME Sound, NEW kind, NEW wanted, NEW pinned, AreFilters(wanted),
         Send(kind, wanted, pinned), dash' = dash
  PROVE  \A r \in requests' : AreFilters(r.filters) /\ AnswersItsRequest(r)'
<1>1. PICK q : q = [n |-> sent + 1, kind |-> kind, filters |-> wanted, pins |-> pinned,
                    offset |-> IF kind = "page" THEN table.offset ELSE 0, answer |-> NoAnswer]
  OBVIOUS
<1>2. requests' = requests \cup {q}
  BY <1>1 DEF Send
<1>3. q.filters = wanted /\ q.answer.status = "none"
  BY <1>1 DEF NoAnswer
<1>4. AnswersItsRequest(q)'
  BY <1>3 DEF AnswersItsRequest
<1>5. \A r \in requests : AreFilters(r.filters) /\ AnswersItsRequest(r)'
  BY DEF Sound, AnswersItsRequest
<1>6. QED
  BY <1>2, <1>3, <1>4, <1>5

\* The handlers answer what was asked, and store what they answer.
LEMMA HandledSoundly ==
  ASSUME Types, Sound, NEW r \in requests, Handle(r)
  PROVE  /\ \A hash \in DOMAIN cache' : cache'[hash] \in Data(dash, hash, cache'[hash].rowLimit)
         /\ \A q \in requests' : AreFilters(q.filters) /\ AnswersItsRequest(q)'
<1>0. dash' = dash /\ IsRequest(r) /\ AreFilters(r.filters)
  BY DEF Handle, Types, TrafficTypes, Sound
<1>1. ASSUME NEW answer, Answer(r, answer),
             answer.status = "ok" => AnswersItsRequest([r EXCEPT !.answer = answer])
      PROVE  \A q \in requests' : AreFilters(q.filters) /\ AnswersItsRequest(q)'
  <2>1. PICK q : q = [r EXCEPT !.answer = answer]
    OBVIOUS
  <2>2. requests' = (requests \ {r}) \cup {q}
    BY <1>1, <2>1 DEF Answer
  <2>3. q.filters = r.filters /\ q.answer = answer
    BY <1>0, <2>1 DEF IsRequest
  <2>4. AnswersItsRequest(q)
    <3>1. CASE answer.status = "ok"
      BY <1>1, <2>1, <3>1
    <3>2. CASE answer.status # "ok"
      BY <2>3, <3>2 DEF AnswersItsRequest
    <3>3. QED
      BY <3>1, <3>2
  <2>5. \A p \in {q} \cup requests : AnswersItsRequest(p)'
    BY <1>0, <2>4 DEF Sound, AnswersItsRequest
  <2>6. QED
    BY <1>0, <2>2, <2>3, <2>5 DEF Sound
<1>2. ASSUME NEW answer
      PROVE  LET q == [r EXCEPT !.answer = answer]
             IN  /\ q.answer = answer /\ q.kind = r.kind /\ q.filters = r.filters
                 /\ q.pins = r.pins /\ q.offset = r.offset
  BY <1>0 DEF IsRequest
<1>3. ErrorAnswer.status # "ok"
  BY DEF ErrorAnswer
<1>4. CASE r.kind = "data" /\ PostData(r)
  <2>1. PICK merged, conds : /\ merged = Merged(r.filters, r.pins)
                             /\ conds = Conditions(dash, merged)
    OBVIOUS
  <2>2. ASSUME ~Unparsable(dash, merged), NEW response,
               response \in Data(dash, conds, response.rowLimit), Answer(r, Ok(response))
        PROVE  \A q \in requests' : AreFilters(q.filters) /\ AnswersItsRequest(q)'
    <3>1. PICK q : q = [r EXCEPT !.answer = Ok(response)]
      OBVIOUS
    <3>2. /\ q.answer = Ok(response) /\ q.kind = "data" /\ q.filters = r.filters
          /\ q.pins = r.pins
      BY <1>2, <1>4, <3>1
    <3>3. q.answer.data = response
      BY <3>2 DEF Ok
    <3>4. AnswersItsRequest(q)
      BY <2>1, <2>2, <3>2, <3>3 DEF AnswersItsRequest
    <3>5. QED
      BY <1>1, <2>2, <3>1, <3>4
  <2>3. CASE Unparsable(dash, merged) /\ Answer(r, ErrorAnswer) /\ UNCHANGED cache
    BY <1>1, <1>3, <2>3 DEF Sound
  <2>4. CASE /\ ~Unparsable(dash, merged) /\ conds \in DOMAIN cache
             /\ Answer(r, Ok(cache[conds])) /\ UNCHANGED cache
    <3>1. cache[conds] \in Data(dash, conds, cache[conds].rowLimit)
      BY <2>4 DEF Sound
    <3>2. QED
      BY <2>2, <2>4, <3>1 DEF Sound
  <2>5. ASSUME ~Unparsable(dash, merged), NEW response \in Data(dash, conds, limit),
               Answer(r, Ok(response)),
               cache' = IF Cardinality(DOMAIN cache) < MaxCached
                        THEN Put(cache, conds, response) ELSE cache
        PROVE  /\ \A hash \in DOMAIN cache' :
                     cache'[hash] \in Data(dash, hash, cache'[hash].rowLimit)
               /\ \A q \in requests' : AreFilters(q.filters) /\ AnswersItsRequest(q)'
    <3>1. response \in Data(dash, conds, response.rowLimit)
      BY LimitOfData
    <3>2. \A hash \in DOMAIN cache' : \/ hash = conds /\ cache'[hash] = response
                                      \/ hash \in DOMAIN cache /\ cache'[hash] = cache[hash]
      <4>1. CASE cache' = cache
        BY <4>1
      <4>2. CASE cache' = Put(cache, conds, response)
        <5>1. /\ DOMAIN cache' = DOMAIN cache \cup {conds}
              /\ cache'[conds] = response
              /\ \A h \in DOMAIN cache : h # conds => cache'[h] = cache[h]
          BY <4>2 DEF Put
        <5>2. QED
          BY <5>1
      <4>3. QED
        BY <2>5, <4>1, <4>2
    <3>3. QED
      BY <2>2, <2>5, <3>1, <3>2 DEF Sound
  <2>6. QED
    BY <1>4, <2>1, <2>3, <2>4, <2>5 DEF PostData, FilterHash
<1>5. ASSUME NEW results, PostWidget(r, results), r.kind # "data",
             r.kind = "page" =>
                 results = Pages(dash, Table, Conditions(dash, r.filters), PageSize, r.offset)
      PROVE  /\ UNCHANGED cache
             /\ \A q \in requests' : AreFilters(q.filters) /\ AnswersItsRequest(q)'
  <2>1. UNCHANGED cache
    BY <1>5 DEF PostWidget
  <2>2. CASE Answer(r, ErrorAnswer)
    BY <1>1, <1>3, <2>1, <2>2
  <2>3. ASSUME ~Unparsable(dash, r.filters), NEW result \in results, result.ok, Answer(r, Ok(result))
        PROVE  \A q \in requests' : AreFilters(q.filters) /\ AnswersItsRequest(q)'
    <3>1. PICK q : q = [r EXCEPT !.answer = Ok(result)]
      OBVIOUS
    <3>2. /\ q.answer = Ok(result) /\ q.kind = r.kind /\ q.filters = r.filters
          /\ q.offset = r.offset
      BY <1>2, <3>1
    <3>3. q.answer.data = result
      BY <3>2 DEF Ok
    <3>4. AnswersItsRequest(q)
      BY <1>5, <2>3, <3>2, <3>3 DEF AnswersItsRequest
    <3>5. QED
      BY <1>1, <2>3, <3>1, <3>4
  <2>4. QED
    BY <1>5, <2>1, <2>2, <2>3 DEF PostWidget
<1>6. CASE r.kind = "page" /\ PostPage(r)
  BY <1>5, <1>6 DEF PostPage, Sound
<1>7. CASE r.kind = "export" /\ PostExport(r)
  BY <1>5, <1>7 DEF PostExport, Sound
<1>8. QED
  BY <1>4, <1>6, <1>7 DEF Handle

LEMMA WidgetOfPlace ==
  ASSUME NEW d, IsDashboard(d), NEW i \in DOMAIN d.layout
  PROVE  Widget(d, d.layout[i].id) = d.layout[i]
<1>1. \A j \in DOMAIN d.layout : d.layout[j].id = d.layout[i].id <=> j = i
  BY DEF IsDashboard
<1>2. QED
  BY <1>1 DEF Widget

\* Presets and clicks are lists of conditions.
LEMMA OpenedFilters ==
  ASSUME Types, Open, dash # NoDash
  PROVE  AreFilters(filters')
<1>1. IsDashboard(dash)
  BY DEF Types, ServerTypes
<1>2. /\ DOMAIN filters' = {dash.layout[i].id : i \in Presets}
      /\ filters' = [id \in DOMAIN filters' |-> filters'[id]]
      /\ \A id \in DOMAIN filters' : filters'[id] = Widget(dash, id).preset
  BY DEF Open
<1>3. ASSUME NEW id \in DOMAIN filters'
      PROVE  \A i \in DOMAIN filters'[id] : IsItem(filters'[id][i])
  <2>1. PICK i \in DOMAIN dash.layout : id = dash.layout[i].id
    BY <1>2 DEF Presets
  <2>2. filters'[id] = dash.layout[i].preset
    BY <1>1, <1>2, <2>1, WidgetOfPlace
  <2>3. QED
    BY <1>1, <2>2 DEF IsDashboard, Range
<1>4. QED
  BY <1>2, <1>3 DEF AreFilters

LEMMA ClickedFilters ==
  ASSUME AreFilters(filters), NEW click \in Clicks, Click(click)
  PROVE  AreFilters(filters')
<1>1. \A i \in DOMAIN click.items : IsItem(click.items[i])
  BY ItemsAssumption
<1>2. ASSUME NEW f, AreFilters(f), NEW S, S \subseteq DOMAIN f
      PROVE  AreFilters(Restrict(f, S))
  BY <1>2 DEF AreFilters, Restrict
<1>3. AreFilters(WithoutSibling(click))
  <2>1. DOMAIN filters \ {active[click.group]} \subseteq DOMAIN filters
    OBVIOUS
  <2>2. QED
    BY <1>2, <2>1 DEF WithoutSibling
<1>4. PICK others : /\ others = Restrict(WithoutSibling(click), DOMAIN WithoutSibling(click) \ {click.widget})
                    /\ filters' = IF click.items = << >> THEN others
                                  ELSE Put(others, click.widget, click.items)
  BY DEF Click
<1>5. AreFilters(others)
  BY <1>2, <1>3, <1>4
<1>6. AreFilters(Put(others, click.widget, click.items))
  <2>1. PICK f : f = Put(others, click.widget, click.items)
    OBVIOUS
  <2>2. /\ f = [id \in DOMAIN f |-> f[id]]
        /\ f[click.widget] = click.items
        /\ \A id \in DOMAIN f : id # click.widget => id \in DOMAIN others /\ f[id] = others[id]
    BY <2>1 DEF Put
  <2>3. ASSUME NEW id \in DOMAIN f PROVE \A i \in DOMAIN f[id] : IsItem(f[id][i])
    <3>1. CASE id = click.widget
      BY <1>1, <2>2, <3>1
    <3>2. CASE id # click.widget
      BY <1>5, <2>2, <3>2 DEF AreFilters
    <3>3. QED
      BY <3>1, <3>2
  <2>4. QED
    BY <2>1, <2>2, <2>3 DEF AreFilters
<1>7. QED
  BY <1>4, <1>5, <1>6

LEMMA SoundInit == Init => Sound
<1>1. AreFilters(Nothing)
  BY DEF AreFilters, Nothing
<1>2. DOMAIN Nothing = {}
  BY DEF Nothing
<1>3. QED
  BY <1>1, <1>2 DEF Init, Sound

LEMMA SoundStep ==
  ASSUME Types, Sound, [Next]_vars
  PROVE  Sound'
<1> USE DEF serverVars, controlVars, trafficVars, viewVars, vars
<1>0. /\ dash' = dash /\ AreFilters(filters)
      /\ \A hash \in DOMAIN cache : cache[hash] \in Data(dash, hash, cache[hash].rowLimit)
      /\ \A r \in requests : AreFilters(r.filters) /\ AnswersItsRequest(r)'
  <2>1. dash' = dash
    BY DEF Next, Answered, Handle, Deliver, Lose, Open, FireTimer, Retry, LoadMore, ExportCsv,
       Click, SetRowLimit, Expire
  <2>2. QED
    BY <2>1 DEF Sound, AnswersItsRequest
<1>1. ASSUME UNCHANGED cache, AreFilters(filters)',
             \A r \in requests' : AreFilters(r.filters) /\ AnswersItsRequest(r)'
      PROVE  Sound'
  BY <1>0, <1>1 DEF Sound
<1>2. CASE Open
  <2>1. CASE dash = NoDash
    BY <1>0, <1>1, <1>2, <2>1 DEF Open
  <2>2. CASE dash # NoDash
    <3>1. AreFilters(filters')
      BY <1>2, <2>2, OpenedFilters
    <3>2. PICK wanted, pinned : wanted = filters' /\ pinned = pins'
      OBVIOUS
    <3>3. Send("data", wanted, pinned)
      BY <1>2, <2>2, <3>2 DEF Open
    <3>4. \A r \in requests' : AreFilters(r.filters) /\ AnswersItsRequest(r)'
      BY <1>0, <3>1, <3>2, <3>3, SentSoundly
    <3>5. QED
      BY <1>1, <1>2, <3>1, <3>4 DEF Open
  <2>3. QED
    BY <2>1, <2>2
<1>3. ASSUME NEW click \in Clicks, Click(click) PROVE Sound'
  BY <1>0, <1>1, <1>3, ClickedFilters DEF Click
<1>4. CASE FireTimer \/ Retry \/ LoadMore \/ ExportCsv
  <2>1. PICK kind, pinned : Send(kind, filters, pinned)
    BY <1>4 DEF FireTimer, Retry, LoadMore, ExportCsv
  <2>2. \A r \in requests' : AreFilters(r.filters) /\ AnswersItsRequest(r)'
    BY <1>0, <2>1, SentSoundly
  <2>3. UNCHANGED <<cache, filters>>
    BY <1>4 DEF FireTimer, Retry, LoadMore, ExportCsv
  <2>4. QED
    BY <1>0, <1>1, <2>2, <2>3
<1>5. ASSUME NEW r \in requests, Handle(r) PROVE Sound'
  <2>1. filters' = filters
    BY <1>5 DEF Handle
  <2>2. QED
    BY <1>0, <1>5, <2>1, HandledSoundly DEF Sound
<1>6. ASSUME NEW r \in requests, Deliver(r) \/ Lose(r) PROVE Sound'
  <2>1. UNCHANGED <<cache, filters>> /\ requests' \subseteq requests
    BY <1>6 DEF Deliver, Lose
  <2>2. QED
    BY <1>0, <1>1, <2>1
<1>7. CASE Expire
  <2>1. PICK hash \in DOMAIN cache : cache' = Restrict(cache, DOMAIN cache \ {hash})
    BY <1>7 DEF Expire
  <2>2. DOMAIN cache' \subseteq DOMAIN cache /\ \A h \in DOMAIN cache' : cache'[h] = cache[h]
    BY <2>1 DEF Restrict
  <2>3. UNCHANGED <<filters, requests>>
    BY <1>7 DEF Expire
  <2>4. QED
    BY <1>0, <2>2, <2>3 DEF Sound
<1>8. CASE SetRowLimit \/ UNCHANGED vars
  BY <1>0, <1>1, <1>8 DEF SetRowLimit
<1>9. QED
  BY <1>2, <1>3, <1>4, <1>5, <1>6, <1>7, <1>8 DEF Next, Answered

LEMMA ResultsOfData ==
  ASSUME NEW d, NEW conds, NEW max, NEW response \in Data(d, conds, max)
  PROVE  /\ \A name \in DOMAIN d.totals :
               response.totals[name] \in TotalResults(d, name, conds)
         /\ \A name \in DOMAIN d.aggregates :
               response.aggregates[name] \in AggregateResults(d, name, conds, max)
<1>. DEFINE totals == [n \in DOMAIN d.totals |-> TotalResults(d, n, conds)]
            aggregates == [n \in DOMAIN d.aggregates |-> AggregateResults(d, n, conds, max)]
            raw == [n \in RawSources(d) |-> RawRows(d, n, conds, max)]
<1>1. PICK t \in Selections(totals), a \in Selections(aggregates) :
         response = [rowLimit |-> max, totals |-> t, aggregates |-> a, raw |-> raw,
                     map |-> WidgetMap(d)]
  BY DEF Data
<1>2. \A name \in DOMAIN d.totals : t[name] \in TotalResults(d, name, conds)
  BY DEF Selections
<1>3. \A name \in DOMAIN d.aggregates : a[name] \in AggregateResults(d, name, conds, max)
  BY DEF Selections
<1>4. response.totals = t /\ response.aggregates = a
  BY <1>1
<1>5. QED
  BY <1>2, <1>3, <1>4

\* Every query of the file that names the base view as the file defines it gets
\* just the rows that the link and the filter widgets ask for, for every
\* operator, table, file and link, from the handler or from the cache, in its
\* order if it has one and each row once; one that is exempt gets them all.
THEOREM FiltersAreApplied == Spec => []FiltersApply
<1>1. ASSUME Types, Sound PROVE FiltersApply
  <2>1. SUFFICES ASSUME NEW r \in DataAnswers, WellTyped(r)
                 PROVE  LET wanted == WantedRows(r.filters, r.pins)
                            response == r.answer.data
                            due(exempt) == IF exempt THEN Tables[dash.sourceTable].rows ELSE wanted
                        IN  /\ \A name \in DOMAIN dash.totals :
                                  LET total == dash.totals[name]
                                  IN  total.form = "plain" =>
                                         response.totals[name] =
                                             [ok |-> TRUE, count |-> Len(due(total.unfiltered))]
                            /\ \A name \in DOMAIN dash.aggregates :
                                  LET query == dash.aggregates[name]
                                      rows == due(query.unfiltered \/ name \in UnfilteredRefs(dash))
                                  IN  query.form = "plain" =>
                                         FirstOf(response.aggregates[name], rows,
                                                 response.rowLimit, query.ordered)
    BY DEF FiltersApply
  <2>2. PICK conds, wanted, response, source :
           /\ conds = Conditions(dash, Merged(r.filters, r.pins))
           /\ wanted = WantedRows(r.filters, r.pins)
           /\ response = r.answer.data
           /\ source = Tables[dash.sourceTable]
    OBVIOUS
  <2>3. r \in requests /\ r.kind = "data" /\ r.answer.status = "ok"
    BY DEF DataAnswers
  <2>4. IsRequest(r) /\ IsDashboard(dash)
    BY <1>1, <2>3 DEF Types, ServerTypes, TrafficTypes, PageTypes, Opened
  <2>5. response.rowLimit \in Nat
    BY <2>2, <2>3, <2>4, BoundsAssumption DEF IsRequest, IsResponse, NoAnswer, ErrorAnswer
  <2>6. /\ AreFilters(r.filters) /\ ~Unparsable(dash, Merged(r.filters, r.pins))
        /\ response \in Data(dash, conds, response.rowLimit)
    BY <1>1, <2>2, <2>3 DEF Sound, AnswersItsRequest
  <2>7. FilteredRows(source, conds) = wanted /\ IsRows(wanted) /\ IsRows(source.rows)
    BY <2>2, <2>4, <2>6, FilteredAsWanted, TableRows DEF IsDashboard
  <2>8. \A c \in conds : ~Fails(c, source)
    BY <2>1, <2>2 DEF WellTyped
  <2>. DEFINE due(exempt) == IF exempt THEN source.rows ELSE wanted
  <2>9. ASSUME NEW query, query.form = "plain", NEW exempt, NEW nested,
               NEW rows, rows = due(exempt),
               NEW filtered, filtered = (HasWhere(conds) /\ ~exempt),
               NEW result \in QueryResults(dash, query, filtered, conds, nested)
        PROVE  result \in Orders([ok |-> TRUE, rows |-> rows], query.ordered) /\ IsRows(rows)
    <3>1. result \in Orders([ok |-> TRUE, rows |-> rows], query.ordered)
      BY <2>2, <2>4, <2>7, <2>8, <2>9, PlainQueries
    <3>2. IsRows(rows)
      BY <2>7, <2>9
    <3>3. QED
      BY <3>1, <3>2
  <2>10. ASSUME NEW name \in DOMAIN dash.totals, dash.totals[name].form = "plain"
         PROVE  response.totals[name] =
                    [ok |-> TRUE, count |-> Len(due(dash.totals[name].unfiltered))]
    <3>1. PICK total, exempt, filtered, rows :
             /\ total = dash.totals[name] /\ total.form = "plain" /\ exempt = total.unfiltered
             /\ filtered = (HasWhere(conds) /\ ~exempt) /\ rows = due(exempt)
      BY <2>10
    <3>2. response.totals[name] \in TotalResults(dash, name, conds)
      BY <2>6, ResultsOfData
    <3>3. PICK result \in QueryResults(dash, total, filtered, conds, FALSE) :
             response.totals[name] = [ok |-> result.ok, count |-> Len(result.rows)]
      BY <3>1, <3>2 DEF TotalResults
    <3>4. result \in Orders([ok |-> TRUE, rows |-> rows], total.ordered) /\ IsRows(rows)
      BY <2>9, <3>1
    <3>5. result.ok = TRUE /\ Len(result.rows) = Len(rows)
      BY <2>5, <3>4, OrderedFirst
    <3>6. response.totals[name] = [ok |-> TRUE, count |-> Len(rows)]
      BY <3>3, <3>5
    <3>7. QED
      BY <3>1, <3>6
  <2>11. ASSUME NEW name \in DOMAIN dash.aggregates, dash.aggregates[name].form = "plain"
         PROVE  FirstOf(response.aggregates[name],
                        due(dash.aggregates[name].unfiltered \/ name \in UnfilteredRefs(dash)),
                        response.rowLimit, dash.aggregates[name].ordered)
    <3>1. PICK query, exempt, filtered, rows :
             /\ query = dash.aggregates[name] /\ query.form = "plain"
             /\ exempt = (query.unfiltered \/ name \in UnfilteredRefs(dash))
             /\ filtered = (HasWhere(conds) /\ ~exempt) /\ rows = due(exempt)
      BY <2>11
    <3>2. AggregateFiltered(dash, name, conds) = filtered
      BY <3>1 DEF AggregateFiltered
    <3>3. response.aggregates[name] \in AggregateResults(dash, name, conds, response.rowLimit)
      BY <2>6, ResultsOfData
    <3>4. PICK result \in QueryResults(dash, query, filtered, conds, TRUE) :
             response.aggregates[name] = Prefix(result.rows, response.rowLimit)
      BY <3>1, <3>2, <3>3 DEF AggregateResults
    <3>5. result \in Orders([ok |-> TRUE, rows |-> rows], query.ordered) /\ IsRows(rows)
      BY <2>9, <3>1
    <3>6. FirstOf(Prefix(result.rows, response.rowLimit), rows, response.rowLimit, query.ordered)
      BY <2>5, <3>5, OrderedFirst
    <3>7. QED
      BY <3>1, <3>4, <3>6
  <2>12. QED
    BY <2>2, <2>10, <2>11
<1>2. QED
  BY <1>1, TypesInit, TypesStep, SoundInit, SoundStep, PTL DEF Spec

-----------------------------------------------------------------------------
(* Paging *)

\* A page of the table and a response hold parts of the same rows.
LEMMA StableResults ==
  ASSUME IsDashboard(dash), StablePages, NEW f, AreFilters(f), ~Unparsable(dash, f),
         NEW conds, conds = Conditions(dash, f), NEW nested,
         NEW filtered, filtered = HasWhere(conds),
         NEW result \in QueryResults(dash, dash.aggregates[Widget(dash, Table).data],
                                     filtered, conds, nested)
  PROVE  \/ result = Failed
         \/ result.rows = WantedRows(f, Nothing)
<1>1. PICK query, exempt, table_ :
         /\ query = dash.aggregates[Widget(dash, Table).data]
         /\ exempt = FALSE
         /\ table_ = Tables[dash.sourceTable]
  OBVIOUS
<1>2. query.form = "plain" /\ query.ordered
  BY <1>1 DEF StablePages
<1>3. filtered = (HasWhere(conds) /\ ~exempt)
  BY <1>1 DEF HasWhere
<1>4. PICK wanted : wanted = WantedRows(f, Nothing)
  OBVIOUS
<1>5. FilteredRows(table_, conds) = wanted /\ IsRows(wanted)
  <2>1. Merged(f, Nothing) = f
    BY NothingPinned
  <2>2. QED
    BY <1>1, <1>4, <2>1, FilteredAsWanted
<1>6. \/ result \in Orders([ok |-> TRUE, rows |-> wanted], query.ordered)
      \/ result = Failed
  <2>1. result \in QueryResults(dash, query, filtered, conds, nested)
    BY <1>1
  <2>2. PICK due : due = IF exempt THEN table_.rows ELSE FilteredRows(table_, conds)
    OBVIOUS
  <2>3. result \in Orders([ok |-> TRUE, rows |-> due], query.ordered) \/ result = Failed
    <3>1. query.form = "plain"
      BY <1>2
    <3>2. table_ = Tables[dash.sourceTable]
      BY <1>1
    <3>3. QED
      BY <1>3, <2>1, <2>2, <3>1, <3>2, PlainQueries
  <2>4. due = wanted
    BY <1>1, <1>5, <2>2
  <2>5. QED
    BY <2>3, <2>4
<1>7. ASSUME result \in Orders([ok |-> TRUE, rows |-> wanted], query.ordered)
      PROVE  result.rows = wanted
  <2>1. 0 \in Nat
    OBVIOUS
  <2>2. QED
    BY <1>2, <1>5, <1>7, <2>1, OrderedFirst
<1>8. QED
  BY <1>4, <1>6, <1>7

\* What the table takes from a response are the first of the rows.
LEMMA FirstRowsShown ==
  ASSUME IsDashboard(dash), StablePages, NEW f, AreFilters(f), ~Unparsable(dash, f),
         NEW response, IsResponse(dash, response),
         response \in Data(dash, Conditions(dash, f), response.rowLimit),
         Table \in DOMAIN DataOf(response)
  PROVE  LET rows == DataOf(response)[Table]
             wanted == WantedRows(f, Nothing)
         IN  Len(rows) <= Len(wanted) /\ rows = Prefix(wanted, Len(rows))
<1>1. PICK key, conds, wanted, max :
         /\ key = Widget(dash, Table).data /\ conds = Conditions(dash, f)
         /\ wanted = WantedRows(f, Nothing) /\ max = response.rowLimit
  OBVIOUS
<1>2. max \in Nat
  BY <1>1, BoundsAssumption DEF IsResponse
<1>3. DataOf(response)[Table] = response.aggregates[key]
  <2>1. Table \in {e.widget : e \in response.map} /\ response.map = WidgetMap(dash)
    BY DEF DataOf, IsResponse
  <2>2. PICK e \in WidgetMap(dash) : e.widget = Table /\ DataOf(response)[Table] = ValueOf(response, e)
    BY <2>1 DEF DataOf
  <2>3. \A w \in Range(dash.layout) : w.id = Table => w.type = "basic_table" /\ w = Widget(dash, Table)
    BY WidgetOfPlace DEF IsDashboard, Range
  <2>4. ~(\E w \in {v \in Range(dash.layout) : v.type \in TotalTypes /\ v.value \in DOMAIN dash.totals} :
              e = [widget |-> w.id, type |-> "total", key |-> w.value])
    BY <2>2, <2>3 DEF TotalTypes
  <2>5. PICK w \in DataWidgets(dash) :
           e = [widget |-> w.id,
                type |-> IF w.data \in DOMAIN dash.aggregates THEN "aggregate" ELSE "raw",
                key |-> w.data]
    BY <2>2, <2>4 DEF WidgetMap
  <2>6. w.data = key
    BY <1>1, <2>2, <2>3, <2>5 DEF DataWidgets
  <2>7. key \in DOMAIN dash.aggregates
    BY <1>1 DEF StablePages
  <2>8. e.type = "aggregate" /\ e.key = key
    BY <2>5, <2>6, <2>7
  <2>9. QED
    BY <2>2, <2>8 DEF ValueOf
<1>4. response.aggregates[key] \in AggregateResults(dash, key, conds, max)
  BY <1>1, ResultsOfData DEF StablePages
<1>5. PICK filtered : filtered = AggregateFiltered(dash, key, conds)
  OBVIOUS
<1>6. filtered = HasWhere(conds)
  BY <1>1, <1>5 DEF AggregateFiltered, StablePages, HasWhere
<1>7. PICK result \in QueryResults(dash, dash.aggregates[key], filtered, conds, TRUE) :
         response.aggregates[key] = Prefix(result.rows, max)
  BY <1>4, <1>5 DEF AggregateResults
<1>8. IsRows(wanted) /\ Len(wanted) \in Nat
  BY <1>1, NothingPinned, FilteredAsWanted DEF IsRows
<1>9. result = Failed \/ result.rows = wanted
  <2>1. result \in QueryResults(dash, dash.aggregates[Widget(dash, Table).data], filtered,
                               conds, TRUE)
    BY <1>1, <1>7
  <2>2. result = Failed \/ result.rows = WantedRows(f, Nothing)
    BY <1>1, <1>6, <2>1, StableResults
  <2>3. QED
    BY <1>1, <2>2
<1>10. PICK rows : rows = response.aggregates[key]
  OBVIOUS
<1>11. CASE result = Failed
  <2>1. Prefix(<< >>, max) = << >> /\ Len(<< >>) = 0
    BY <1>2, NoRows, PrefixRows, EmptySeq
  <2>2. rows = << >> /\ Len(rows) = 0
    BY <1>7, <1>10, <1>11, <2>1 DEF Failed
  <2>3. Prefix(wanted, 0) = << >>
    BY <1>8, PrefixRows, EmptySeq
  <2>4. QED
    BY <1>1, <1>3, <1>8, <1>10, <2>2, <2>3
<1>12. CASE result.rows = wanted
  <2>1. rows = Prefix(wanted, max)
    BY <1>7, <1>10, <1>12
  <2>2. Len(rows) = IF max < Len(wanted) THEN max ELSE Len(wanted)
    BY <1>2, <1>8, <2>1, PrefixRows
  <2>3. Prefix(wanted, Len(rows)) = Prefix(wanted, max)
    BY <1>2, <1>8, <2>2 DEF Prefix
  <2>4. QED
    BY <1>1, <1>2, <1>3, <1>8, <1>10, <2>1, <2>2, <2>3
<1>13. QED
  BY <1>9, <1>11, <1>12

\* What it takes from a page are the rows that follow.
LEMMA NextRowsShown ==
  ASSUME IsDashboard(dash), StablePages, NEW f, AreFilters(f), ~Unparsable(dash, f),
         NEW k \in Nat,
         NEW result \in Pages(dash, Table, Conditions(dash, f), PageSize, k), result.ok
  PROVE  LET wanted == WantedRows(f, Nothing)
         IN  /\ result.rows = Prefix(SubSeq(wanted, k + 1, Len(wanted)), PageSize)
             /\ result.total = Len(wanted)
             /\ result.more = (k + Len(result.rows) < Len(wanted))
<1>1. PICK widget, key, conds, wanted :
         /\ widget = Widget(dash, Table) /\ key = widget.data /\ conds = Conditions(dash, f)
         /\ wanted = WantedRows(f, Nothing)
  OBVIOUS
<1>2. ~NoPage.ok
  BY DEF NoPage
<1>3. ~NotPageable(dash, Table) /\ key # ""
  BY <1>1, <1>2 DEF Pages, NotPageable
<1>4. PICK found \in WidgetResults(dash, Table, conds) :
         result = IF ~found.ok THEN NoPage
                  ELSE LET rows == Prefix(SubSeq(found.rows, k + 1, Len(found.rows)), PageSize)
                       IN  [ok |-> TRUE, rows |-> rows, total |-> Len(found.rows),
                            more |-> HasMore(k, PageSize, Len(rows), Len(found.rows))]
  BY <1>1, <1>3 DEF Pages
<1>5. found.ok
  BY <1>2, <1>4
<1>6. PICK filtered : filtered = ((HasWhere(conds) /\ ~widget.unfiltered)
                                    /\ ~dash.aggregates[key].unfiltered)
  OBVIOUS
<1>7. found \in QueryResults(dash, dash.aggregates[key], filtered, conds, FALSE)
  BY <1>1, <1>4, <1>6 DEF WidgetResults, StablePages
<1>8. ~widget.unfiltered
  <2>1. PICK i \in DOMAIN dash.layout : dash.layout[i].id = Table
    BY DEF StablePages, LayoutIds, Range
  <2>2. widget = dash.layout[i] /\ widget \in Range(dash.layout)
    BY <1>1, <2>1, WidgetOfPlace DEF Range
  <2>3. QED
    BY <1>1, <1>3, <2>2 DEF StablePages, UnfilteredRefs
<1>9. filtered = HasWhere(conds)
  BY <1>1, <1>6, <1>8 DEF StablePages, HasWhere
<1>10. found = Failed \/ found.rows = wanted
  BY <1>1, <1>7, <1>9, StableResults
<1>11. found.rows = wanted
  BY <1>5, <1>10 DEF Failed
<1>12. result = [ok |-> TRUE,
                 rows |-> Prefix(SubSeq(wanted, k + 1, Len(wanted)), PageSize),
                 total |-> Len(wanted),
                 more |-> HasMore(k, PageSize, Len(Prefix(SubSeq(wanted, k + 1, Len(wanted)), PageSize)),
                                  Len(wanted))]
  BY <1>4, <1>5, <1>11
<1>13. QED
  BY <1>1, <1>12 DEF HasMore

\* What the table holds of the rows that are due: the first of them, and it
\* knows if there are more.
Paged(t, wanted) ==
    /\ Len(t.rows) <= Len(wanted) /\ t.rows = Prefix(wanted, Len(t.rows))
    /\ Len(t.rows) < Len(wanted) /\ t.rows # <<>> => t.more
    /\ t.total \in {None, Len(wanted)}
    /\ t.total = Len(t.rows) => ~t.more

\* A page that is on its way starts where the table ends.
Paging ==
    /\ page = "closed" => table.filters = {}
    /\ \A r \in requests : r.kind = "data" => r.pins = pins
    /\ \A r \in requests : r.kind = "page" => page = "open" /\ r.offset = table.offset
    /\ StablePages => \A f \in table.filters : Paged(table, WantedRows(f, Nothing))

\* The rows a filter leaves are the rows of the dashboard that is loaded.
LEMMA SameRows ==
  ASSUME dash' = dash, NEW f
  PROVE  WantedRows(f, Nothing)' = WantedRows(f, Nothing)
  BY DEF WantedRows, Wanted, MeetsPins, Nothing

LEMMA SamePages ==
  ASSUME dash' = dash, pins' = pins
  PROVE  StablePages' = StablePages
  BY DEF StablePages, LayoutIds

\* A table that starts anew has the first rows, from a response.
LEMMA PagedAfterData ==
  ASSUME IsDashboard(dash), StablePages, NEW r, AreFilters(r.filters), AnswersItsRequest(r),
         r.kind = "data", r.answer.status = "ok", r.pins = Nothing,
         IsResponse(dash, r.answer.data),
         NEW rows, rows = IF Table \in DOMAIN DataOf(r.answer.data)
                          THEN DataOf(r.answer.data)[Table] ELSE << >>,
         NEW t, t.rows = rows, t.total = None, t.more = (Len(rows) > 0)
  PROVE  Paged(t, WantedRows(r.filters, Nothing))
<1>1. PICK f, wanted, response :
         f = r.filters /\ wanted = WantedRows(f, Nothing) /\ response = r.answer.data
  OBVIOUS
<1>2. Merged(f, Nothing) = f
  BY <1>1, NothingPinned
<1>3. /\ ~Unparsable(dash, f)
      /\ response \in Data(dash, Conditions(dash, f), response.rowLimit)
  BY <1>1, <1>2 DEF AnswersItsRequest
<1>4. IsRows(wanted) /\ Len(wanted) \in Nat
  BY <1>1, <1>2, <1>3, FilteredAsWanted DEF IsRows
<1>5. Len(rows) \in Nat /\ Len(rows) <= Len(wanted) /\ rows = Prefix(wanted, Len(rows))
  <2>1. CASE Table \in DOMAIN DataOf(response)
    <3>1. Len(rows) <= Len(wanted) /\ rows = Prefix(wanted, Len(rows))
      BY <1>1, <1>3, <2>1, FirstRowsShown
    <3>2. IsRows(rows)
      BY <1>1, <2>1, TableFindsRows
    <3>3. QED
      BY <3>1, <3>2 DEF IsRows
  <2>2. CASE Table \notin DOMAIN DataOf(response)
    <3>1. rows = << >> /\ Len(rows) = 0
      BY <1>1, <2>2, EmptySeq
    <3>2. Prefix(wanted, 0) = << >>
      BY <1>4, PrefixRows, EmptySeq
    <3>3. QED
      BY <1>4, <3>1, <3>2
  <2>3. QED
    BY <2>1, <2>2
<1>6. rows # << >> => Len(rows) > 0
  <2>1. IsRows(rows)
    BY <1>4, <1>5, PrefixRows
  <2>2. QED
    BY <1>5, <2>1, EmptySeq DEF IsRows
<1>7. t.total # Len(rows)
  BY <1>5, NoneAssumption
<1>8. QED
  BY <1>1, <1>5, <1>6, <1>7 DEF Paged

\* With the next page it still has the first rows.
LEMMA PagedAfterPage ==
  ASSUME IsDashboard(dash), StablePages, NEW f, AreFilters(f), ~Unparsable(dash, f),
         NEW t, IsRows(t.rows), Paged(t, WantedRows(f, Nothing)),
         NEW k, k = Len(t.rows),
         NEW result \in Pages(dash, Table, Conditions(dash, f), PageSize, k), result.ok,
         NEW u, u.rows = t.rows \o result.rows, u.total = result.total, u.more = result.more
  PROVE  Paged(u, WantedRows(f, Nothing))
<1>1. PICK wanted : wanted = WantedRows(f, Nothing)
  OBVIOUS
<1>2. IsRows(wanted) /\ Len(wanted) \in Nat
  BY <1>1, NothingPinned, FilteredAsWanted DEF IsRows
<1>3. k \in Nat /\ k <= Len(wanted) /\ t.rows = Prefix(wanted, k) /\ PageSize \in Nat
  BY <1>1, BoundsAssumption DEF Paged, IsRows
<1>4. PICK added : added = Prefix(SubSeq(wanted, k + 1, Len(wanted)), PageSize)
  OBVIOUS
<1>5. /\ result.rows = added /\ result.total = Len(wanted)
      /\ result.more = (k + Len(result.rows) < Len(wanted))
  <2>1. k \in Nat
    BY <1>3
  <2>2. /\ result.rows = Prefix(SubSeq(WantedRows(f, Nothing), k + 1, Len(WantedRows(f, Nothing))), PageSize)
        /\ result.total = Len(WantedRows(f, Nothing))
        /\ result.more = (k + Len(result.rows) < Len(WantedRows(f, Nothing)))
    BY <2>1, NextRowsShown, Zenon
  <2>3. QED
    BY <1>1, <1>4, <2>2
<1>6. IsRows(added) /\ k + Len(added) <= Len(wanted)
  BY <1>2, <1>3, <1>4, NextRows, Zenon
<1>7. Len(added) \in Nat
  BY <1>6 DEF IsRows
<1>8. u.rows = Prefix(wanted, k + Len(added))
  <2>1. Prefix(wanted, k) \o added = Prefix(wanted, k + Len(added))
    BY <1>2, <1>3, <1>4, PagesContinue, Zenon
  <2>2. QED
    BY <1>3, <1>5, <2>1
<1>9. Len(u.rows) = k + Len(added)
  <2>1. PICK n \in Nat : n = k + Len(added)
    BY <1>3, <1>7
  <2>2. Len(Prefix(wanted, n)) = IF n < Len(wanted) THEN n ELSE Len(wanted)
    BY <1>2, PrefixRows
  <2>3. QED
    BY <1>2, <1>6, <1>8, <2>1, <2>2
<1>10. QED
  <2>1. Len(u.rows) <= Len(wanted) /\ u.rows = Prefix(wanted, Len(u.rows))
    BY <1>6, <1>8, <1>9
  <2>2. PICK n \in Nat, m \in Nat : n = Len(u.rows) /\ m = Len(wanted)
    <3>1. k + Len(added) \in Nat
      BY <1>3, <1>7
    <3>2. QED
      BY <1>2, <1>9, <3>1
  <2>3. u.more = (n < m)
    BY <1>5, <1>9, <2>2
  <2>4. /\ n < m => u.more
        /\ n = m => ~u.more
    <3>1. n = m => ~(n < m)
      BY <2>2
    <3>2. QED
      BY <2>3, <3>1, Zenon
  <2>5. u.total = m
    BY <1>5, <2>2
  <2>6. QED
    BY <1>1, <2>1, <2>2, <2>4, <2>5 DEF Paged

LEMMA PagingInit == Init => Paging
  BY DEF Init, Paging, EmptyTable

LEMMA PagingStep ==
  ASSUME ~Impatient, Types, Waiting, Sound, Paging, [Next]_vars
  PROVE  Paging'
<1> USE DEF serverVars, controlVars, trafficVars, viewVars, vars
<1>0. /\ timer \in BOOLEAN
      /\ page = "closed" => requests = {} /\ ~timer /\ table.filters = {}
      /\ \A r \in requests : IsRequest(r) /\ AreFilters(r.filters) /\ AnswersItsRequest(r)
      /\ DOMAIN table = {"rows", "offset", "total", "more", "loading", "filters"}
      /\ IsRows(table.rows) /\ table.offset = Len(table.rows)
      /\ requests # {} => IsDashboard(dash)
  BY DEF Types, ServerTypes, TrafficTypes, PageTypes, TableTypes, Opened, Sound, Paging
<1>1. dash' = dash
  BY DEF Next, Answered, Handle, Deliver, Lose, Open, FireTimer, Retry, LoadMore, ExportCsv,
     Click, SetRowLimit, Expire
<1>2. ASSUME /\ table'.rows = table.rows /\ table'.offset = table.offset
             /\ table'.total = table.total /\ table'.more = table.more
             /\ table'.filters = table.filters,
             pins' = pins \/ table.filters = {},
             page' = "closed" => page = "closed",
             \A r \in requests' : r.kind = "data" => r.pins = pins',
             \A r \in requests' : r.kind = "page" => page' = "open" /\ r.offset = table'.offset
      PROVE  Paging'
  <2>1. StablePages' => \A f \in table'.filters : Paged(table', WantedRows(f, Nothing)')
    <3>1. SUFFICES ASSUME StablePages', NEW f \in table'.filters
                   PROVE  Paged(table', WantedRows(f, Nothing)')
      OBVIOUS
    <3>2. StablePages
      BY <1>1, <1>2, <3>1, SamePages
    <3>3. Paged(table, WantedRows(f, Nothing))
      BY <1>2, <3>1, <3>2 DEF Paging
    <3>4. WantedRows(f, Nothing)' = WantedRows(f, Nothing)
      BY <1>1, SameRows
    <3>5. Paged(table', WantedRows(f, Nothing))
      BY <1>2, <3>3 DEF Paged
    <3>6. QED
      BY <3>4, <3>5
  <2>2. page' = "closed" => table'.filters = {}
    BY <1>0, <1>2
  <2>3. QED
    BY <1>2, <2>1, <2>2 DEF Paging
<1>3. ASSUME NEW kind, NEW wanted, NEW pinned, requests = {}, Send(kind, wanted, pinned),
             kind = "data" => pinned = pins',
             kind = "page" => page' = "open",
             table'.offset = table.offset
      PROVE  /\ \A r \in requests' : r.kind = "data" => r.pins = pins'
             /\ \A r \in requests' : r.kind = "page" => page' = "open" /\ r.offset = table'.offset
  <2>1. PICK q : q = [n |-> sent + 1, kind |-> kind, filters |-> wanted, pins |-> pinned,
                      offset |-> IF kind = "page" THEN table.offset ELSE 0, answer |-> NoAnswer]
    OBVIOUS
  <2>2. requests' = {q} /\ q.kind = kind /\ q.pins = pinned
        /\ (kind = "page" => q.offset = table.offset)
    BY <1>3, <2>1 DEF Send
  <2>3. QED
    BY <1>3, <2>2
<1>4. CASE Open
  <2>1. requests = {} /\ table.filters = {} /\ UNCHANGED table
    BY <1>0, <1>4 DEF Open
  <2>2. CASE dash = NoDash
    BY <1>2, <1>4, <2>1, <2>2 DEF Open
  <2>3. CASE dash # NoDash
    <3>1. PICK wanted, pinned : wanted = filters' /\ pinned = pins'
      OBVIOUS
    <3>2. Send("data", wanted, pinned) /\ page' = "open"
      BY <1>4, <2>3, <3>1 DEF Open
    <3>3. /\ \A r \in requests' : r.kind = "data" => r.pins = pins'
          /\ \A r \in requests' : r.kind = "page" => page' = "open" /\ r.offset = table'.offset
      BY <1>3, <2>1, <3>1, <3>2
    <3>4. QED
      BY <1>2, <2>1, <3>2, <3>3
  <2>4. QED
    BY <2>2, <2>3
<1>5. ASSUME NEW click \in Clicks, Click(click) PROVE Paging'
  <2>1. requests = {} /\ UNCHANGED <<requests, table, pins, page>>
    BY <1>5 DEF Click, MayAct, Quiet
  <2>2. QED
    BY <1>2, <2>1
<1>6. CASE FireTimer \/ Retry
  <2>1. /\ requests = {} /\ Send("data", filters, pins) /\ UNCHANGED <<table, pins>>
        /\ page' = "closed" => page = "closed"
    BY <1>6 DEF FireTimer, Retry, Quiet, Waiting
  <2>2. /\ \A r \in requests' : r.kind = "data" => r.pins = pins'
        /\ \A r \in requests' : r.kind = "page" => page' = "open" /\ r.offset = table'.offset
    BY <1>3, <2>1
  <2>3. QED
    BY <1>2, <2>1, <2>2
<1>7. CASE LoadMore \/ ExportCsv
  <2>1. /\ requests = {} /\ UNCHANGED <<pins, page>> /\ page = "open"
        /\ table'.rows = table.rows /\ table'.offset = table.offset
        /\ table'.total = table.total /\ table'.more = table.more
        /\ table'.filters = table.filters
    BY <1>0, <1>7 DEF LoadMore, ExportCsv, MayAct, Quiet
  <2>2. PICK kind \in {"page", "export"} : Send(kind, filters, Nothing)
    BY <1>7 DEF LoadMore, ExportCsv
  <2>3. /\ \A r \in requests' : r.kind = "data" => r.pins = pins'
        /\ \A r \in requests' : r.kind = "page" => page' = "open" /\ r.offset = table'.offset
    BY <1>3, <2>1, <2>2
  <2>4. QED
    BY <1>2, <2>1, <2>3
<1>8. ASSUME NEW r \in requests, Handle(r) PROVE Paging'
  <2>1. PICK answer : requests' = (requests \ {r}) \cup {[r EXCEPT !.answer = answer]}
    BY <1>8, HandlerAnswers DEF Answers, Answer
  <2>2. PICK q : q = [r EXCEPT !.answer = answer]
    OBVIOUS
  <2>3. q.kind = r.kind /\ q.pins = r.pins /\ q.offset = r.offset
    BY <1>0, <2>2 DEF IsRequest
  <2>4. requests' = {q}
    BY <2>1, <2>2 DEF Waiting
  <2>5. UNCHANGED <<pins, page, table>>
    BY <1>8 DEF Handle
  <2>6. /\ r.kind = "data" => r.pins = pins
        /\ r.kind = "page" => page = "open" /\ r.offset = table.offset
    BY DEF Paging
  <2>7. QED
    BY <1>2, <2>3, <2>4, <2>5, <2>6
<1>9. ASSUME NEW r \in requests, Deliver(r) \/ Lose(r) PROVE Paging'
  <2>1. /\ requests' = {} /\ UNCHANGED <<pins, filters>> /\ r.filters = filters
        /\ ~timer /\ page # "closed" /\ \A q \in requests : q = r
    BY <1>0, <1>9 DEF Deliver, Lose, Waiting
  <2>2. IsRequest(r) /\ AreFilters(r.filters) /\ AnswersItsRequest(r) /\ IsDashboard(dash)
    BY <1>0
  <2>3. CASE ShowError(r)
    <3>1. page' # "closed"
      BY <2>1, <2>3 DEF ShowError
    <3>2. /\ table'.rows = table.rows /\ table'.offset = table.offset
          /\ table'.total = table.total /\ table'.more = table.more
          /\ table'.filters = table.filters
      BY <1>0, <2>3 DEF ShowError
    <3>3. QED
      BY <1>2, <2>1, <3>1, <3>2
  <2>4. CASE SaveCsv(r)
    <3>1. UNCHANGED <<page, table>>
      BY <2>4 DEF SaveCsv
    <3>2. QED
      BY <1>2, <2>1, <3>1
  <2>5. ASSUME r.answer.status = "ok", page' # "closed",
               StablePages => \A f \in table'.filters : Paged(table', WantedRows(f, Nothing))
        PROVE  Paging'
    <3>1. StablePages' = StablePages
      BY <1>1, <2>1, SamePages
    <3>2. \A f : WantedRows(f, Nothing)' = WantedRows(f, Nothing)
      BY <1>1, SameRows
    <3>3. QED
      BY <2>1, <2>5, <3>1, <3>2 DEF Paging
  <2>6. ASSUME r.answer.status = "ok", ShowData(r) PROVE Paging'
    <3>1. PICK rows : rows = IF Table \in DOMAIN DataOf(r.answer.data)
                             THEN DataOf(r.answer.data)[Table] ELSE << >>
      OBVIOUS
    <3>2. r.kind = "data" /\ table' = Reset(r, rows) /\ UNCHANGED page
      BY <2>6, <3>1 DEF ShowData
    <3>3. /\ table'.rows = rows /\ table'.total = None /\ table'.more = (Len(rows) > 0)
          /\ table'.filters = {r.filters}
      BY <1>0, <3>2 DEF Reset
    <3>4. IsResponse(dash, r.answer.data)
      BY <2>2, <2>6, <3>2 DEF IsRequest, NoAnswer, ErrorAnswer
    <3>5. ASSUME StablePages PROVE Paged(table', WantedRows(r.filters, Nothing))
      <4>1. r.pins = Nothing
        BY <3>2, <3>5 DEF Paging, StablePages
      <4>2. QED
        BY <2>2, <2>6, <3>1, <3>2, <3>3, <3>4, <3>5, <4>1, PagedAfterData
    <3>6. QED
      BY <2>1, <2>5, <2>6, <3>2, <3>3, <3>5
  <2>7. ASSUME r.answer.status = "ok", ShowPage(r) PROVE Paging'
    <3>1. PICK result : result = r.answer.data
      OBVIOUS
    <3>2. /\ r.kind = "page" /\ UNCHANGED page
          /\ table'.rows = table.rows \o result.rows
          /\ table'.total = result.total /\ table'.more = result.more
          /\ table'.filters = table.filters \cup {r.filters}
      BY <2>7, <3>1 DEF ShowPage
    <3>3. table.filters = {r.filters} /\ r.offset = Len(table.rows)
      BY <1>0, <2>1, <3>2 DEF Waiting, Paging
    <3>4. /\ ~Unparsable(dash, r.filters) /\ result.ok
          /\ result \in Pages(dash, Table, Conditions(dash, r.filters), PageSize, r.offset)
      BY <2>2, <2>7, <3>1, <3>2 DEF AnswersItsRequest
    <3>5. ASSUME StablePages PROVE Paged(table', WantedRows(r.filters, Nothing))
      <4>1. Paged(table, WantedRows(r.filters, Nothing))
        BY <3>3, <3>5 DEF Paging
      <4>2. QED
        BY <1>0, <2>2, <3>2, <3>3, <3>4, <3>5, <4>1, PagedAfterPage
    <3>6. QED
      BY <2>1, <2>5, <2>7, <3>2, <3>3, <3>5
  <2>8. QED
    BY <1>9, <2>3, <2>4, <2>6, <2>7 DEF Deliver, Lose
<1>10. CASE SetRowLimit \/ Expire \/ UNCHANGED vars
  <2>1. UNCHANGED <<requests, pins, page, table>>
    BY <1>10 DEF SetRowLimit, Expire
  <2>2. QED
    BY <1>2, <2>1 DEF Paging
<1>11. QED
  BY <1>4, <1>5, <1>6, <1>7, <1>8, <1>9, <1>10 DEF Next, Answered

\* If the user waits for answers, paging from the first rows on collects the
\* rows the filters leave, in order and each once, whatever the page size, the
\* row limit, the cache and the answers that were lost: what the table holds is
\* always the first of them, it offers more until it has them all, the total it
\* shows is their number, and with the last of them it stops.
THEOREM PagingCollectsAll ==
  ASSUME ~Impatient
  PROVE  Spec => []PagingComplete
<1>1. Waiting /\ Paging => PagingComplete
  <2>1. SUFFICES ASSUME Waiting, Paging, StablePages, Quiet, page = "open"
                 PROVE  LET rows == WantedRows(CHOOSE f \in table.filters : TRUE, Nothing)
                        IN  /\ table.rows = Prefix(rows, Len(table.rows))
                            /\ Len(table.rows) < Len(rows) /\ table.rows # <<>> => table.more
                            /\ table.total # None => table.total = Len(rows)
                            /\ table.total = Len(table.rows) => ~table.more
    BY DEF PagingComplete
  <2>2. table.filters = {filters}
    BY <2>1 DEF Waiting, Quiet
  <2>3. PICK f : f = CHOOSE g \in table.filters : TRUE
    OBVIOUS
  <2>4. f \in table.filters
    BY <2>2, <2>3
  <2>5. Paged(table, WantedRows(f, Nothing))
    BY <2>1, <2>4 DEF Paging
  <2>6. QED
    BY <2>3, <2>5 DEF Paged
<1>2. Init => Waiting
  BY DEF Init, Waiting
<1>3. Types /\ Waiting /\ [Next]_vars => Waiting'
  BY WaitingStep
<1>4. Types /\ Sound /\ [Next]_vars => Sound'
  BY SoundStep
<1>5. Types /\ Waiting /\ Sound /\ Paging /\ [Next]_vars => Paging'
  BY PagingStep
<1>6. QED
  BY <1>1, <1>2, <1>3, <1>4, <1>5, TypesInit, TypesStep, SoundInit, PagingInit, PTL DEF Spec
=============================================================================
