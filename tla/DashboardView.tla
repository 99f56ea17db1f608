---------------------------- MODULE DashboardView ----------------------------
(***************************************************************************)
(* A dashboard in a browser (frontend/components/DashboardView.js and the  *)
(* basic_table widget) and the handlers of api/dashboards.py it talks to:  *)
(* filters, the delay before a new request, answers in any order, paging   *)
(* and exports, the response cache and the row limit.                      *)
(*                                                                         *)
(* A handler is one step; its request and its answer travel beside others. *)
(* The data does not change (ResponseCache.tla has refreshes and times to  *)
(* live) and the definition is the one the page was opened with.           *)
(***************************************************************************)
EXTENDS DashboardQueries

CONSTANTS
    Files,          \* what the dashboard file may contain
    Urls,           \* the f[...] parameters of the page: id -> value
    Clicks,         \* what the filter widgets emit: [widget, items, group, on],
                    \* with no items when the value is empty, and not on when
                    \* there is none because a filter is taken back
    RowLimits,      \* the values of the row_limit setting
    Table,          \* the id of the basic_table on the page
    PageSize,
    MaxRequests,    \* bound on the number of requests of the page
    MaxCached,      \* bound on the number of cached responses
    MaxFaults,      \* bound on the number of requests that are lost
    Impatient       \* the user acts while answers are on their way

ASSUME BoundsAssumption ==
    {PageSize, MaxCached, MaxFaults} \cup RowLimits \subseteq Nat /\ MaxRequests \in Nat \ {0}
ASSUME ImpatientAssumption == Impatient \in BOOLEAN

\* The statement of a base view creates one of Tables. A widget emits what its
\* own configuration calls its group.
ASSUME FilesAssumption ==
    \A file \in Files :
        /\ file.layout \in Seq(Widgets)
        /\ file.base.runs => file.base.name \in DOMAIN Tables
        /\ \A w \in Range(file.layout) :
              /\ w.id = Table => w.type = "basic_table"
              /\ \A click \in Clicks : click.widget = w.id => click.group = w.group

ASSUME ItemsAssumption ==
    /\ \A click \in Clicks :
          /\ click.items # <<>> => click.on
          /\ \A i \in DOMAIN click.items : IsItem(click.items[i])
    /\ \A file \in Files : \A w \in Range(file.layout) :
          \A i \in DOMAIN w.preset : IsItem(w.preset[i])

VARIABLES
    dash,       \* the loaded dashboard, or NoDash
    limit,      \* general_settings.row_limit
    cache,      \* filter hash -> the response stored under it
    page,       \* "closed", "open", or "failed" when an error is shown
    filters,    \* what the filter widgets ask for
    active,     \* toggle group -> the button that is active in it
    pins,       \* pinnedFilters
    timer,      \* a change of the filters waits for its 300 ms
    requests,   \* the requests on their way, and their answers
    sent,       \* number of requests sent
    shown,      \* dashboardData, and the filters it was asked with
    table,      \* what the table widget holds, and the filters it was asked with
    csv,        \* the rows of the last export
    faults      \* number of requests lost

serverVars == <<dash, limit, cache>>
controlVars == <<filters, active, pins, timer>>
trafficVars == <<requests, sent, faults>>
viewVars == <<page, shown, table, csv>>
vars == <<serverVars, controlVars, trafficVars, viewVars>>

\* f with a value at x.
Put(f, x, value) == [y \in DOMAIN f \cup {x} |-> IF y = x THEN value ELSE f[y]]

NoDash == [id |-> None]
Nothing == [id \in {} |-> ""]
NoAnswer == [status |-> "none"]
ErrorAnswer == [status |-> "error"]
NoView == [loaded |-> FALSE, filters |-> Nothing, data |-> Nothing]
EmptyTable ==
    [rows |-> <<>>, offset |-> 0, total |-> None, more |-> FALSE, loading |-> FALSE,
     filters |-> {}]

Init ==
    /\ dash \in {IF Refused(file) THEN NoDash ELSE Loaded(file) : file \in Files}
    /\ limit \in RowLimits
    /\ cache = Nothing
    /\ page = "closed"
    /\ filters = Nothing
    /\ active = Nothing
    /\ pins \in Urls
    /\ timer = FALSE
    /\ requests = {}
    /\ sent = 0
    /\ shown = NoView
    /\ table = EmptyTable
    /\ csv = <<>>
    /\ faults = 0

-----------------------------------------------------------------------------
(* The handlers *)

\* The hash of the sorted conditions.
FilterHash(conds) == conds

Answer(r, answer) == requests' = (requests \ {r}) \cup {[r EXCEPT !.answer = answer]}

Ok(result) == [status |-> "ok", data |-> result]

\* post_dashboard_data: parse, look up, query, store. The limit is not hashed.
PostData(r) ==
    LET merged == Merged(r.filters, r.pins)
        conds == Conditions(dash, merged)
        hash == FilterHash(conds)
    IN  \/ /\ Unparsable(dash, merged)
           /\ Answer(r, ErrorAnswer)
           /\ UNCHANGED cache
        \/ /\ ~Unparsable(dash, merged) /\ hash \in DOMAIN cache
           /\ Answer(r, Ok(cache[hash]))
           /\ UNCHANGED cache
        \/ /\ ~Unparsable(dash, merged) /\ hash \notin DOMAIN cache
           /\ \E response \in Data(dash, conds, limit) :
                 /\ Answer(r, Ok(response))
                 /\ cache' = IF Cardinality(DOMAIN cache) < MaxCached
                             THEN Put(cache, hash, response)
                             ELSE cache

\* get_widget_page and export_widget_csv: no cache, and no query parameters.
PostWidget(r, results) ==
    /\ IF Unparsable(dash, r.filters) THEN Answer(r, ErrorAnswer)
       ELSE \E result \in results : Answer(r, IF result.ok THEN Ok(result) ELSE ErrorAnswer)
    /\ UNCHANGED cache

PostPage(r) ==
    PostWidget(r, Pages(dash, Table, Conditions(dash, r.filters), PageSize, r.offset))

PostExport(r) == PostWidget(r, Exports(dash, Table, Conditions(dash, r.filters)))

Handle(r) ==
    /\ r.answer = NoAnswer
    /\ \/ r.kind = "data" /\ PostData(r)
       \/ r.kind = "page" /\ PostPage(r)
       \/ r.kind = "export" /\ PostExport(r)
    /\ UNCHANGED <<dash, limit, controlVars, sent, faults, viewVars>>

\* PUT /system/settings. The cache keeps responses made with another limit.
SetRowLimit ==
    /\ limit' \in RowLimits \ {limit}
    /\ UNCHANGED <<dash, cache, controlVars, trafficVars, viewVars>>

\* A response has lived its time.
Expire ==
    /\ \E hash \in DOMAIN cache : cache' = Restrict(cache, DOMAIN cache \ {hash})
    /\ UNCHANGED <<dash, limit, controlVars, trafficVars, viewVars>>

-----------------------------------------------------------------------------
(* The page *)

Quiet == requests = {} /\ ~timer
MayAct == page = "open" /\ shown.loaded /\ (Impatient \/ Quiet)
Room == sent + (IF timer THEN 1 ELSE 0) < MaxRequests

Send(kind, wanted, pinned) ==
    /\ sent' = sent + 1
    /\ requests' = requests \cup
          {[n |-> sent + 1, kind |-> kind, filters |-> wanted, pins |-> pinned,
            offset |-> IF kind = "page" THEN table.offset ELSE 0, answer |-> NoAnswer]}
    /\ UNCHANGED faults

LayoutIds == {w.id : w \in Range(dash.layout)}

\* The buttons that are active by default; of two in a group the last counts.
Presets == {i \in DOMAIN dash.layout : dash.layout[i].preset # <<>>}

LastPresetOf(group) ==
    CHOOSE i \in Presets :
        /\ dash.layout[i].group = group
        /\ \A j \in Presets : dash.layout[j].group = group => j <= i

\* fetchLayout, seedDefaultFilters and the first fetchData.
Open ==
    /\ page = "closed"
    /\ IF dash = NoDash
       THEN /\ page' = "failed"
            /\ UNCHANGED <<controlVars, requests, sent, faults>>
       ELSE /\ page' = "open"
            /\ filters' = [id \in {dash.layout[i].id : i \in Presets} |-> Widget(dash, id).preset]
            /\ active' = [g \in {dash.layout[i].group : i \in Presets} \ {""} |->
                             dash.layout[LastPresetOf(g)].id]
            /\ pins' = Restrict(pins, DOMAIN pins \cap LayoutIds)
            /\ Send("data", filters', pins')
            /\ UNCHANGED timer
    /\ UNCHANGED <<serverVars, shown, table, csv>>

\* Slip: the button that was active in the group stays among the filters.
Regrouped(click) == filters

\* Only one button of a toggle group is active.
WithoutSibling(click) ==
    IF click.group \in DOMAIN active /\ active[click.group] # click.widget
    THEN Restrict(filters, DOMAIN filters \ {active[click.group]})
    ELSE filters

\* Slip: a filter that is taken back is not asked for again.
ClickToSet(click) ==
    /\ MayAct
    /\ click.widget \in LayoutIds
    /\ timer \/ Room
    /\ LET others == Restrict(WithoutSibling(click), DOMAIN WithoutSibling(click) \ {click.widget})
       IN  filters' = IF click.items = <<>> THEN others
                      ELSE Put(others, click.widget, click.items)
    /\ active' = IF click.group = "" THEN active
                 ELSE Put(active, click.group, IF click.on THEN click.widget ELSE None)
    /\ timer' = (click.items # <<>>)
    /\ UNCHANGED <<serverVars, pins, trafficVars, viewVars>>

\* onWidgetFilterUpdate; the delay starts anew. A button whose value is the empty
\* string becomes the active one of its group and sets no filter.
Click(click) ==
    /\ MayAct
    /\ click.widget \in LayoutIds
    /\ timer \/ Room
    /\ LET others == Restrict(WithoutSibling(click), DOMAIN WithoutSibling(click) \ {click.widget})
       IN  filters' = IF click.items = <<>> THEN others
                      ELSE Put(others, click.widget, click.items)
    /\ active' = IF click.group = "" THEN active
                 ELSE Put(active, click.group, IF click.on THEN click.widget ELSE None)
    /\ timer' = TRUE
    /\ UNCHANGED <<serverVars, pins, trafficVars, viewVars>>

\* refetchData's timeout; an error that is shown does not stop it.
FireTimer ==
    /\ timer
    /\ timer' = FALSE
    /\ Send("data", filters, pins)
    /\ UNCHANGED <<serverVars, filters, active, pins, viewVars>>

\* retryLoad.
Retry ==
    /\ page = "failed" /\ dash # NoDash
    /\ Impatient \/ Quiet
    /\ Room
    /\ page' = "open"
    /\ Send("data", filters, pins)
    /\ UNCHANGED <<serverVars, controlVars, shown, table, csv>>

\* loadMore: the table has the filters of the page, not its pins.
LoadMore ==
    /\ MayAct /\ Room
    /\ table.more /\ ~table.loading
    /\ table' = [table EXCEPT !.loading = TRUE]
    /\ Send("page", filters, Nothing)
    /\ UNCHANGED <<serverVars, controlVars, page, shown, csv>>

\* exportCsv, one at a time.
ExportCsv ==
    /\ MayAct /\ Room
    /\ \A r \in requests : r.kind # "export"
    /\ Send("export", filters, Nothing)
    /\ UNCHANGED <<serverVars, controlVars, viewVars>>

-----------------------------------------------------------------------------
(* Answers *)

\* What fetchData takes from a response for each widget of its map.
ValueOf(response, entry) ==
    CASE entry.type = "total" -> response.totals[entry.key]
      [] entry.type = "raw" -> response.raw[entry.key]
      [] entry.type = "aggregate" -> response.aggregates[entry.key]

DataOf(response) ==
    [id \in {e.widget : e \in response.map} |->
        ValueOf(response, CHOOSE e \in response.map : e.widget = id)]

\* Slip: the offset is where the last page ended.
ResetRows(r, rows) == [table EXCEPT !.rows = rows, !.total = None, !.more = Len(rows) > 0,
                                    !.filters = {r.filters}]

\* resetFromProps, whenever dashboardData is replaced; a page that is on its
\* way stays on its way.
Reset(r, rows) ==
    [table EXCEPT !.rows = rows, !.offset = Len(rows), !.total = None, !.more = Len(rows) > 0,
                  !.filters = {r.filters}]

ShowData(r) ==
    /\ r.kind = "data"
    /\ shown' = [loaded |-> TRUE, filters |-> r.filters, data |-> DataOf(r.answer.data)]
    /\ table' = Reset(r, IF Table \in DOMAIN shown'.data THEN shown'.data[Table] ELSE <<>>)
    /\ UNCHANGED <<page, csv>>

ShowPage(r) ==
    /\ r.kind = "page"
    /\ LET result == r.answer.data
       IN  table' = [rows |-> table.rows \o result.rows,
                     offset |-> table.offset + Len(result.rows),
                     total |-> result.total, more |-> result.more, loading |-> FALSE,
                     filters |-> table.filters \cup {r.filters}]
    /\ UNCHANGED <<page, shown, csv>>

SaveCsv(r) ==
    /\ r.kind = "export"
    /\ csv' = r.answer.data.rows
    /\ UNCHANGED <<page, shown, table>>

\* The answer is an error, or there is none: the page shows it instead of the
\* widgets, the table offers to try again.
ShowError(r) ==
    /\ page' = IF r.kind = "data" THEN "failed" ELSE page
    /\ table' = IF r.kind = "page" THEN [table EXCEPT !.loading = FALSE] ELSE table
    /\ UNCHANGED <<shown, csv>>

Deliver(r) ==
    /\ r.answer # NoAnswer
    /\ requests' = requests \ {r}
    /\ \/ r.answer.status = "ok" /\ (ShowData(r) \/ ShowPage(r) \/ SaveCsv(r))
       \/ r.answer.status = "error" /\ ShowError(r)
    /\ UNCHANGED <<serverVars, controlVars, sent, faults>>

Lose(r) ==
    /\ faults < MaxFaults
    /\ faults' = faults + 1
    /\ requests' = requests \ {r}
    /\ ShowError(r)
    /\ UNCHANGED <<serverVars, controlVars, sent>>

-----------------------------------------------------------------------------

Answered == \E r \in requests : Handle(r) \/ Deliver(r)

Next ==
    \/ Answered
    \/ \E r \in requests : Lose(r)
    \/ Open \/ FireTimer \/ Retry \/ LoadMore \/ ExportCsv
    \/ \E click \in Clicks : Click(click)
    \/ SetRowLimit \/ Expire

Spec == Init /\ [][Next]_vars

-----------------------------------------------------------------------------
(* Properties *)

TypeOK ==
    /\ dash = NoDash \/ DOMAIN dash.aggregates \cup DOMAIN dash.totals \subseteq Identifiers
    /\ limit \in RowLimits
    /\ Cardinality(DOMAIN cache) <= MaxCached
    /\ \A hash \in DOMAIN cache : cache[hash].rowLimit \in RowLimits
    /\ page \in {"closed", "open", "failed"}
    /\ dash # NoDash /\ page # "closed" => DOMAIN filters \cup DOMAIN pins \subseteq LayoutIds
    /\ timer \in BOOLEAN
    /\ sent \in 0..MaxRequests
    /\ \A r, q \in requests : r.n = q.n => r = q
    /\ \A r \in requests : r.n \in 1..sent /\ r.kind \in {"data", "page", "export"}
    /\ table.offset = Len(table.rows)
    /\ table.loading <=> \E r \in requests : r.kind = "page"
    /\ faults \in 0..MaxFaults

\* The answers on their way to requests for all the data.
DataAnswers == {r \in requests : r.kind = "data" /\ r.answer.status = "ok"}

\* What a condition of a request says of a row. A choice of nothing asks
\* nothing, and neither do minutes that are not a number.
Meets(item, value) ==
    LET choice == item.value \ {""}
    IN  CASE item.operator = "eq" -> \A v \in item.value : Rank[value] = Rank[v]
          [] item.operator = "neq" -> \A v \in item.value : Rank[value] # Rank[v]
          [] item.operator = "gt" -> \A v \in item.value : Rank[value] > Rank[v]
          [] item.operator = "lt" -> \A v \in item.value : Rank[value] < Rank[v]
          [] item.operator \in {"gte", "ge"} -> \A v \in item.value : Rank[value] >= Rank[v]
          [] item.operator \in {"lte", "le"} -> \A v \in item.value : Rank[value] <= Rank[v]
          [] item.operator = "in" -> choice # {} => \E v \in choice : Rank[value] = Rank[v]
          [] item.operator = "not_in" -> \A v \in choice : Rank[value] # Rank[v]
          [] item.operator \in LikeOperators ->
                 \A v \in item.value : <<item.operator, v, value>> \in Like
          [] item.operator = "last_minutes" ->
                 item.value \subseteq Numbers =>
                     \A v \in item.value : Rank[value] + Rank[v] >= Now

\* What the user asks of the rows: the link says what its widgets say, the
\* other widgets what they show. A widget that filters no column asks nothing.
MeetsPins(row, pinned) ==
    \A id \in Applied(dash, pinned) : Rank[row[ColumnOf(dash, id)]] = Rank[pinned[id]]

Wanted(row, wanted, pinned) ==
    /\ MeetsPins(row, pinned)
    /\ \A id \in Applied(dash, wanted) \ DOMAIN pinned :
          \A i \in DOMAIN wanted[id] : Meets(wanted[id][i], row[ColumnOf(dash, id)])

WantedRows(wanted, pinned) ==
    LET rows == Tables[dash.sourceTable].rows
    IN  RowsAt(rows, {i \in DOMAIN rows : Wanted(rows[i], wanted, pinned)})

\* got is the first n of the rows that are due, or n of them in any order.
FirstOf(got, rows, n, ordered) ==
    /\ Len(got) = Len(Prefix(rows, n))
    /\ IF ordered THEN got = Prefix(rows, n)
       ELSE \E p \in [DOMAIN got -> DOMAIN rows] :
               IsInjective(p) /\ \A i \in DOMAIN got : got[i] = rows[p[i]]

\* No value that one kind of column has is compared with a column of another.
WellTyped(r) ==
    \A c \in Conditions(dash, Merged(r.filters, r.pins)) : ~Fails(c, Tables[dash.sourceTable])

\* Every query of the file that names the base view as the file defines it
\* gets just the rows the link and the filter widgets ask for, from the cache
\* or not and at most as many as the row limit it was made with, and one that is
\* exempt gets them all: "Query-param filters are pinned/locked - they always
\* win over a body filter with the same key" (api/dashboards.py:321), "a single
\* WHERE clause" (models/dashboard.py:472). docs/backend_architecture.md:201 and
\* :225 and models/schemas.py:323 say the opposite of the first (README, Known
\* limits).
FiltersApply ==
    \A r \in {q \in DataAnswers : WellTyped(q)} :
        LET wanted == WantedRows(r.filters, r.pins)
            response == r.answer.data
            due(exempt) == IF exempt THEN Tables[dash.sourceTable].rows ELSE wanted
        IN  /\ \A name \in DOMAIN dash.totals :
                  LET total == dash.totals[name]
                  IN  total.form = "plain" =>
                         response.totals[name] = [ok |-> TRUE, count |-> Len(due(total.unfiltered))]
            /\ \A name \in DOMAIN dash.aggregates :
                  LET query == dash.aggregates[name]
                      rows == due(query.unfiltered \/ name \in UnfilteredRefs(dash))
                  IN  query.form = "plain" =>
                         FirstOf(response.aggregates[name], rows, response.rowLimit,
                                 query.ordered)

\* The map of a response leads every chart, table and dropdown of the layout
\* to data that is in the response, also when a query failed or the name is
\* the name of nothing (_build_widget_map, _raw_sources_needed).
WidgetMapBacked ==
    \A r \in DataAnswers :
        LET response == r.answer.data
        IN  /\ \A e \in response.map :
                  e.key \in CASE e.type = "total" -> DOMAIN response.totals
                              [] e.type = "raw" -> DOMAIN response.raw
                              [] e.type = "aggregate" -> DOMAIN response.aggregates
            /\ \A w \in DataWidgets(dash) : \E e \in response.map : e.widget = w.id

\* Once everything is quiet, the widgets show data that was asked for with the
\* filters that are set, the pages of the table included: "props.data itself
\* is replaced wholesale (new array reference) whenever the dashboard refetches
\* on a filter change, so pagination state resets" (BasicTableWidget.js:17).
ViewFollowsFilters ==
    Quiet /\ page = "open" => shown.filters = filters /\ table.filters = {filters}

\* The query behind the table is ordered and the page sees the rows /data saw.
StablePages ==
    /\ dash # NoDash /\ Table \in LayoutIds /\ pins = Nothing
    /\ Widget(dash, Table).data \in DOMAIN dash.aggregates \ UnfilteredRefs(dash)
    /\ LET query == dash.aggregates[Widget(dash, Table).data]
       IN  query.ordered /\ query.form = "plain" /\ ~query.unfiltered

\* Paging from the first rows on collects every row the filters leave, once
\* and in order, and stops there: "total_count is an exact COUNT(*)", and
\* has_more "is derived from it" (models/dashboard.py:1194).
PagingComplete ==
    StablePages /\ Quiet /\ page = "open" /\ Cardinality(table.filters) = 1 =>
        LET rows == WantedRows(CHOOSE f \in table.filters : TRUE, Nothing)
        IN  /\ table.rows = Prefix(rows, Len(table.rows))
            /\ Len(table.rows) < Len(rows) /\ table.rows # <<>> => table.more
            /\ table.total # None => table.total = Len(rows)
            /\ table.total = Len(table.rows) => ~table.more


\* The buttons that are active by default and in a group.
GroupedPresets == {i \in Presets : dash.layout[i].group # ""}

\* A button of a toggle group that is among the filters is the one drawn as
\* active, so that no two of them are: "only one button sharing the same
\* toggle_group value can be active at a time" (models/dashboard.py:646). A file
\* in which two of them are active by default is only warned about; a button
\* whose value is empty is active and asks for nothing.
OneButtonPerGroup ==
    page = "open" /\ IsInjective([i \in GroupedPresets |-> dash.layout[i].group]) =>
        \A w \in Range(dash.layout) :
            w.group # "" /\ w.id \in DOMAIN filters =>
                w.group \in DOMAIN active /\ active[w.group] = w.id

\* A page opened with a link that pins a filter shows and exports no row the
\* pin excludes: pinned filters "always win over a body filter with the same
\* key, on every request, not just the first" (DashboardView.js:4).
PinsHold ==
    \A row \in Range(table.rows) \cup Range(csv) : MeetsPins(row, pins)
=============================================================================
