--------------------------- MODULE MCDashboardView ---------------------------
(* Instances of DashboardView for TLC. *)
EXTENDS DashboardView

NamesOfFile == {"sales", "v_sales", "count", "list", "share",
                "tile", "chart", "table", "region", "amount", "small", "all", "pie"}

Row(id, region, amount) == [id |-> id, region |-> region, amount |-> amount]

\* A base view and a data source that lacks one of its columns.
SalesTables ==
    [name \in {"v_sales", "orders"} |->
        IF name = "v_sales"
        THEN [kinds |-> [id |-> "number", region |-> "text", amount |-> "number"],
              rows |-> <<Row("1", "north", "1"), Row("2", "north", "2"), Row("3", "south", "2")>>]
        ELSE [kinds |-> [id |-> "number", amount |-> "number"],
              rows |-> <<[id |-> "1", amount |-> "1"], [id |-> "2", amount |-> "2"]>>]]

NumberTexts == {"1", "2", "3"}
Ranks == [v \in NumberTexts \cup {"", "north", "south", "soon"} |->
             CASE v = "1" -> 1 [] v = "2" -> 2 [] v = "3" -> 3
               [] v = "" -> 0 [] v = "north" -> 1 [] v = "south" -> 2 [] v = "soon" -> 9]
Matching == {<<"has", "north", "north">>, <<"has", "south", "south">>}

Query(name, form, unfiltered, ordered) ==
    [name |-> name, query |-> TRUE, form |-> form, unfiltered |-> unfiltered, ordered |-> ordered]

W(type, id, data, mapping) ==
    [type |-> type, id |-> id, x |-> 0, w |-> 4, value |-> "", data |-> data,
     mapping |-> mapping, unfiltered |-> FALSE, group |-> "", preset |-> <<>>]

Item(operator, values) == <<[operator |-> operator, value |-> values]>>

\* A tile, two charts of a query that repeats the name of the view, the table,
\* a dropdown that lists a data source, two buttons of which one is active by
\* default.
Sales ==
    [id |-> "sales", gridColumns |-> 12,
     base |-> [ddl |-> "create view", name |-> "v_sales", first |-> TRUE, runs |-> TRUE],
     totals |-> <<Query("count", "plain", FALSE, TRUE)>>,
     aggregates |-> <<Query("list", "plain", FALSE, TRUE), Query("share", "part", FALSE, TRUE),
                      Query("bad name", "plain", FALSE, TRUE)>>,
     mappings |-> [a \in {"Region"} |-> "region"],
     layout |-> <<[W("tile", "tile", "", "") EXCEPT !.value = "count"],
                  W("bar_chart", "chart", "share", ""),
                  W("basic_table", "table", "list", ""),
                  W("pie_chart", "pie", "share", ""),
                  [W("dropdown_multy", "region", "orders", "Region") EXCEPT !.unfiltered = TRUE],
                  [W("button_filter", "small", "", "amount") EXCEPT
                      !.group = "g", !.preset = Item("lte", {"1"})],
                  [W("button_filter", "all", "", "amount") EXCEPT !.group = "g"]>>]

\* The table shows the list of the dropdown, and its rows come in any order;
\* a chart shows a data source that lacks a column some filters are on.
Shared ==
    [Sales EXCEPT !.aggregates = <<Query("list", "plain", FALSE, FALSE)>>,
                  !.layout[2].data = "list", !.layout[4].data = "orders",
                  !.layout[5].data = "list"]

\* Files that are refused for their queries, their widgets and their grid.
RefusedFiles ==
    {[Sales EXCEPT !.totals[1].form = "other"],
     [Sales EXCEPT !.layout[3].data = "count"],
     [Sales EXCEPT !.layout[4].x = 9],
     [Sales EXCEPT !.layout[7].id = "small"]}

SalesFiles == {Sales, Shared} \cup RefusedFiles
CleanFiles == {Sales}

Pinned(value) == [id \in {"region"} |-> value]
NoPins == [id \in {} |-> ""]
Links == {NoPins, Pinned("south")}
PlainUrl == {NoPins}

Chosen(widget, items, group) ==
    [widget |-> widget, items |-> items, group |-> group, on |-> items # <<>>]

\* Choices in the dropdown, of nothing too, the buttons, one that is taken
\* back, one whose value is empty, and one whose operator in the file is none.
UserClicks ==
    {Chosen("region", Item("in", {"north"}), ""), Chosen("region", Item("in", {""}), ""),
     Chosen("small", Item("lte", {"1"}), "g"), Chosen("all", Item("gte", {"1"}), "g"),
     Chosen("all", <<>>, "g"), [Chosen("all", <<>>, "g") EXCEPT !.on = TRUE],
     Chosen("all", Item("between", {"1"}), "g")}

FewClicks ==
    {Chosen("region", Item("in", {"north"}), ""), Chosen("region", Item("in", {"south"}), "")}
=============================================================================
