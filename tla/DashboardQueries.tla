--------------------------- MODULE DashboardQueries ---------------------------
(***************************************************************************)
(* The queries of a loaded dashboard (models/dashboard.py): what becomes   *)
(* of the filters of a request, how they are put in front of the queries   *)
(* of the file, and what /data, /page and /export answer.                  *)
(*                                                                         *)
(* The aggregates of the model list the rows they read and its totals      *)
(* count them. Values are strings, also in the rows: Rank gives those that *)
(* read as a number, a text or an instant their place in the order of      *)
(* their column.                                                           *)
(***************************************************************************)
EXTENDS DashboardFile, SequencesExt

CONSTANTS
    Tables,         \* Tables[name] = [kinds, rows] of the base views and the
                    \* data sources: the kind of each column, "text", "number"
                    \* or "time", and the list of rows
    Numbers,        \* the values float() accepts
    Rank,           \* value -> Nat
    Like,           \* the triples <<operator, value, text>> that match
    Now,            \* CURRENT_TIMESTAMP, on the scale of Rank
    MaxExport       \* rows of an export (100 000)

\* Every row has a value in every column.
ASSUME TablesAssumption ==
    \A name \in DOMAIN Tables :
        Tables[name].rows \in Seq([DOMAIN Tables[name].kinds -> DOMAIN Rank])

Comparisons == {"eq", "neq", "gt", "lt", "gte", "lte", "ge", "le"}
LikeOperators == {"has", "prefix", "suffix"}
ListOperators == {"in", "not_in"}
Operators == Comparisons \cup LikeOperators \cup ListOperators \cup {"last_minutes"}

-----------------------------------------------------------------------------
(* parse_widget_filters *)

\* What is no list of values becomes one string.
IsItem(item) ==
    item.operator \in ListOperators \/ \E v \in item.value : item.value = {v}

\* A plain string asks for equality. Requests hold lists of conditions.
Equals(value) == <<[operator |-> "eq", value |-> {value}]>>

\* Slip: the body wins over the query parameters.
BodyOverPins(body, pins) ==
    [w \in DOMAIN body \cup DOMAIN pins |->
        IF w \in DOMAIN body THEN body[w] ELSE Equals(pins[w])]

\* The f[...] parameters of the URL replace filters of the body.
Merged(body, pins) ==
    [w \in DOMAIN body \cup DOMAIN pins |->
        IF w \in DOMAIN pins THEN Equals(pins[w]) ELSE body[w]]

Widget(dash, id) == dash.layout[CHOOSE i \in DOMAIN dash.layout : dash.layout[i].id = id]

FilterIds(dash) ==
    {w.id : w \in {v \in Range(dash.layout) : v.type \in FilterTypes \ {"button_url"}}}

\* The column a filter widget stands for, "" when it has none.
ColumnOf(dash, id) ==
    LET alias == Widget(dash, id).mapping
    IN  IF alias \in DOMAIN dash.mappings THEN dash.mappings[alias] ELSE alias

\* Filters of widgets the layout does not have are skipped.
Applied(dash, filters) ==
    {id \in DOMAIN filters \cap FilterIds(dash) : ColumnOf(dash, id) # ""}

\* ValueError: the handler answers 422.
Unparsable(dash, filters) ==
    \/ ~(DOMAIN filters \subseteq Identifiers)
    \/ \E id \in Applied(dash, filters) :
          \E i \in DOMAIN filters[id] : filters[id][i].operator \notin Operators

\* An empty choice is no condition, and the values of a scalar stay.
Values(item) == IF item.operator \in ListOperators THEN item.value \ {""} ELSE item.value

Conditions(dash, filters) ==
    UNION {{[column |-> ColumnOf(dash, id), operator |-> item.operator,
             value |-> Values(item), widget |-> id] :
                item \in {i \in Range(filters[id]) : Values(i) # {}}} :
           id \in Applied(dash, filters)}

-----------------------------------------------------------------------------
(* _build_sql_where *)

Numeric(c) == c.value \subseteq Numbers

\* "1=1" stands for minutes that are not a number.
Vacuous(c) == c.operator = "last_minutes" /\ ~Numeric(c)

\* where # "1=1": two vacuous conditions read "1=1 AND 1=1".
HasWhere(conds) == ~(conds = {} \/ \E c \in conds : conds = {c} /\ Vacuous(c))

Compare(operator, a, b) ==
    CASE operator \in {"eq", "in"} -> a = b
      [] operator = "neq" -> a # b
      [] operator = "gt" -> a > b
      [] operator = "lt" -> a < b
      [] operator \in {"gte", "ge"} -> a >= b
      [] operator \in {"lte", "le"} -> a <= b

Holds(c, row) ==
    \/ Vacuous(c)
    \/ CASE c.operator = "last_minutes" ->
               \A v \in c.value : Rank[row[c.column]] + Rank[v] >= Now
         [] c.operator \in LikeOperators ->
               \A v \in c.value : <<c.operator, v, row[c.column]>> \in Like
         [] c.operator = "not_in" -> \A v \in c.value : Rank[row[c.column]] # Rank[v]
         [] OTHER -> \E v \in c.value : Compare(c.operator, Rank[row[c.column]], Rank[v])

\* Numbers go into the statement as literals: DuckDB then converts a text
\* column, and refuses a row that is no number. A value that is not a number
\* is bound to a parameter, which a number column refuses.
Fails(c, table) ==
    /\ ~Vacuous(c)
    /\ \/ c.column \notin DOMAIN table.kinds
       \/ LET kind == table.kinds[c.column]
          IN  CASE c.operator = "last_minutes" -> kind # "time"
                [] c.operator \in LikeOperators -> kind # "text"
                [] OTHER -> Numeric(c) <=> kind # "number"

-----------------------------------------------------------------------------
(* Executing a query *)

Failed == [ok |-> FALSE, rows |-> <<>>]

\* The rows at the given places, in order.
RowsAt(rows, places) ==
    LET nth(n) == CHOOSE i \in places : Cardinality({j \in places : j <= i}) = n
    IN  [n \in 1..Cardinality(places) |-> rows[nth(n)]]

FilteredRows(table, conds) ==
    RowsAt(table.rows, {i \in DOMAIN table.rows : \A c \in conds : Holds(c, table.rows[i])})

\* What SELECT * FROM <table> WHERE <conds> may return.
Select(table, conds) ==
    IF \E c \in conds : Fails(c, table) THEN Failed
    ELSE [ok |-> TRUE, rows |-> FilteredRows(table, conds)]

\* WITH __filtered AS (...) in front of a query of the file, in which the name
\* of the base view is replaced. "nested": the query is within a SELECT that
\* the prefix precedes, so its own WITH does not follow the prefix. With the
\* name in another case the query reads the view itself, and values bound to
\* parameters of the unused expression may be refused.
Injected(table, conds, form, nested) ==
    CASE form = "part" \/ (form = "with" /\ ~nested) -> {Failed}
      [] form = "case" -> {[ok |-> TRUE, rows |-> table.rows]}
                          \cup IF \A c \in conds : Numeric(c) THEN {} ELSE {Failed}
      [] OTHER -> {Select(table, conds)}

\* Without an ORDER BY the rows come in any order.
Orders(result, ordered) ==
    IF ordered \/ ~result.ok THEN {result}
    ELSE {[ok |-> TRUE, rows |-> [i \in DOMAIN result.rows |-> result.rows[p[i]]]] :
             p \in SetToSeqs(DOMAIN result.rows)}

QueryResults(dash, query, filtered, conds, nested) ==
    LET table == Tables[dash.sourceTable]
        results == IF filtered THEN Injected(table, conds, query.form, nested)
                   ELSE {Select(table, {})}
    IN  UNION {Orders(r, query.ordered) : r \in results}

\* A table a widget shows; a name that is no table fails.
RawResult(name, filtered, conds) ==
    IF name \in DOMAIN Tables THEN Select(Tables[name], IF filtered THEN conds ELSE {})
    ELSE Failed

Prefix(rows, n) == SubSeq(rows, 1, IF n < Len(rows) THEN n ELSE Len(rows))

-----------------------------------------------------------------------------
(* get_data_for_filters *)

DataWidgets(dash) ==
    {w \in Range(dash.layout) : w.type \in AggregateTypes \cup DropdownTypes /\ w.data # ""}

\* _build_widget_map; a tile with a literal is left to the frontend.
WidgetMap(dash) ==
    {[widget |-> w.id, type |-> "total", key |-> w.value] :
        w \in {v \in Range(dash.layout) : v.type \in TotalTypes /\ v.value \in DOMAIN dash.totals}}
    \cup {[widget |-> w.id,
           type |-> IF w.data \in DOMAIN dash.aggregates THEN "aggregate" ELSE "raw",
           key |-> w.data] : w \in DataWidgets(dash)}

\* Slip: the dropdowns are filter widgets.
RawSourcesOfCharts(dash) ==
    {w.data : w \in {v \in DataWidgets(dash) : v.type \in AggregateTypes}}
    \ DOMAIN dash.aggregates

\* _raw_sources_needed
RawSources(dash) == {w.data : w \in DataWidgets(dash)} \ DOMAIN dash.aggregates

\* _widget_unfiltered_data_refs
UnfilteredRefs(dash) ==
    {w.data : w \in {v \in Range(dash.layout) : v.data # "" /\ v.unfiltered}}

\* The functions that take one of f[x] at every x.
Selections(f) ==
    {g \in [DOMAIN f -> UNION Range(f)] : \A x \in DOMAIN f : g[x] \in f[x]}

AggregateFiltered(dash, name, conds) ==
    /\ HasWhere(conds)
    /\ ~dash.aggregates[name].unfiltered
    /\ name \notin UnfilteredRefs(dash)

\* The values that a total may have: [ok, count]; None for one that fails.
TotalResults(dash, name, conds) ==
    LET total == dash.totals[name]
    IN  {[ok |-> r.ok, count |-> Len(r.rows)] :
            r \in QueryResults(dash, total, HasWhere(conds) /\ ~total.unfiltered, conds, FALSE)}

AggregateResults(dash, name, conds, limit) ==
    {Prefix(r.rows, limit) :
        r \in QueryResults(dash, dash.aggregates[name],
                           AggregateFiltered(dash, name, conds), conds, TRUE)}

RawRows(dash, name, conds, limit) ==
    LET filtered == HasWhere(conds) /\ name \notin UnfilteredRefs(dash)
    IN  Prefix(RawResult(name, filtered, conds).rows, limit)

\* The responses to conds. A query that fails leaves None or no rows.
Data(dash, conds, limit) ==
    {[rowLimit |-> limit, totals |-> t, aggregates |-> a,
      raw |-> [n \in RawSources(dash) |-> RawRows(dash, n, conds, limit)],
      map |-> WidgetMap(dash)] :
        t \in Selections([n \in DOMAIN dash.totals |-> TotalResults(dash, n, conds)]),
        a \in Selections([n \in DOMAIN dash.aggregates |-> AggregateResults(dash, n, conds, limit)])}

-----------------------------------------------------------------------------
(* get_widget_page, export_widget_csv *)

\* ValueError before a query runs: the handlers answer 400.
NotPageable(dash, id) ==
    \/ \A w \in Range(dash.layout) : w.id # id
    \/ Widget(dash, id).type \in FilterTypes
    \/ Widget(dash, id).data = ""

\* The whole result behind a widget: only its own flag counts beside that of
\* the query, and the prefix stands before the query itself.
WidgetResults(dash, id, conds) ==
    LET w == Widget(dash, id)
        filtered == HasWhere(conds) /\ ~w.unfiltered
    IN  IF w.data \in DOMAIN dash.aggregates
        THEN QueryResults(dash, dash.aggregates[w.data],
                          filtered /\ ~dash.aggregates[w.data].unfiltered, conds, FALSE)
        ELSE {RawResult(w.data, filtered, conds)}

\* Slip: a page that is full has more behind it.
FullPage(offset, limit, got, total) == got = limit

HasMore(offset, limit, got, total) == offset + got < total

NoPage == [ok |-> FALSE, rows |-> <<>>, total |-> 0, more |-> FALSE]

\* LIMIT and OFFSET, and an exact count of the same query.
Pages(dash, id, conds, limit, offset) ==
    IF NotPageable(dash, id) THEN {NoPage}
    ELSE {IF ~r.ok THEN NoPage
          ELSE LET rows == Prefix(SubSeq(r.rows, offset + 1, Len(r.rows)), limit)
               IN  [ok |-> TRUE, rows |-> rows, total |-> Len(r.rows),
                    more |-> HasMore(offset, limit, Len(rows), Len(r.rows))] :
          r \in WidgetResults(dash, id, conds)}


Exports(dash, id, conds) ==
    IF NotPageable(dash, id) THEN {Failed}
    ELSE {[r EXCEPT !.rows = Prefix(@, MaxExport)] : r \in WidgetResults(dash, id, conds)}
=============================================================================
