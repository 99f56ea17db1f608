---------------------------- MODULE DashboardFile ----------------------------
(***************************************************************************)
(* Dashboard.load_yaml: which dashboard files are accepted, and what is    *)
(* loaded from one.                                                        *)
(*                                                                         *)
(* A file is a record                                                      *)
(*   id, gridColumns                                                       *)
(*   base       [ddl, name, first, runs]: the statement under `base_view`, *)
(*              whether it precedes the queries and whether DuckDB takes it*)
(*   totals, aggregates: lists of [name, query, form, unfiltered, ordered] *)
(*   mappings   alias -> column                                            *)
(*   layout     list of widgets [type, id, x, w, value, data, mapping,     *)
(*              unfiltered, group, preset], "" or None where a field is    *)
(*              missing; preset is what default_active asks for            *)
(*                                                                         *)
(* A query is abstracted to how its text names the base view ("form"):     *)
(*   "plain"  by the name, and nothing else contains the name              *)
(*   "case"   in another case: the same view for SQL and for the check of  *)
(*            the file, and another string                                 *)
(*   "part"   by the name, which is also a part of another identifier      *)
(*   "with"   as "plain", and the query begins with a WITH of its own      *)
(*   "other"  not at all                                                   *)
(***************************************************************************)
EXTENDS Naturals, Sequences, FiniteSets, Functions

CONSTANTS
    None,           \* a field that is not in the file
    Identifiers     \* the names sanitize_name accepts

ASSUME NoneAssumption == None \notin Identifiers \cup Nat

TotalTypes == {"tile", "radial_gauge_full", "radial_gauge_semi"}

AggregateTypes ==
    {"bar_chart", "horizontal_bar_chart", "stacked_bar_chart", "area_chart",
     "line_chart", "pie_chart", "sankey", "basic_table", "widget_type"}

DropdownTypes == {"dropdown_single", "dropdown_multy"}

FilterTypes ==
    DropdownTypes \cup
    {"button_filter", "input_filter", "button_url", "widget_start_end_time",
     "button_datetime_filter"}

\* A widget of the layout; preset has the conditions of default_active.
Items == [operator : STRING, value : SUBSET STRING]

Widgets ==
    [type : STRING, id : STRING, x : Nat \cup {None}, w : Nat \cup {None},
     value : STRING, data : STRING, mapping : STRING, unfiltered : BOOLEAN,
     group : STRING, preset : Seq(Items)]

-----------------------------------------------------------------------------
(* What is loaded *)

\* An entry without a name or a query, or with a bad name, is skipped with a
\* warning.
Kept(entries) ==
    {i \in DOMAIN entries : entries[i].name \in Identifiers /\ entries[i].query}

\* Results are keyed by name: of two entries with one name the last counts.
ByName(entries) ==
    LET last(name) == CHOOSE i \in Kept(entries) :
                          /\ entries[i].name = name
                          /\ \A j \in Kept(entries) : entries[j].name = name => j <= i
    IN  [name \in {entries[i].name : i \in Kept(entries)} |->
            [form |-> entries[last(name)].form,
             unfiltered |-> entries[last(name)].unfiltered,
             ordered |-> entries[last(name)].ordered]]

Loaded(file) ==
    [id |-> file.id,
     gridColumns |-> file.gridColumns,
     sourceTable |-> file.base.name,
     totals |-> ByName(file.totals),
     aggregates |-> ByName(file.aggregates),
     mappings |-> file.mappings,
     layout |-> file.layout]

-----------------------------------------------------------------------------
(* What is refused *)

\* Checked before the base view is created, in this order; the statement is
\* then executed, and a file refused below has replaced the view all the same
\* (GlobalRefresh.tla has what that does to readers).
HeaderRefused(file) ==
    \/ file.id \notin Identifiers
    \/ file.gridColumns \notin {12, 24}
    \/ file.base.ddl = "none"
    \/ ~file.base.first
    \/ file.base.ddl # "create view"
    \/ file.base.name \notin Identifiers
    \/ ~file.base.runs

\* _uses_base_view: the name as a word, in any case.
UsesBaseView(entry) == entry.form # "other"

QueriesRefused(file) ==
    \E entries \in {file.totals, file.aggregates} :
        \E i \in Kept(entries) : ~UsesBaseView(entries[i])

\* A tile or gauge shows a total, the others and the option lists of the
\* dropdowns an aggregate or a table.
WrongKind(w, dash) ==
    \/ w.type \in TotalTypes /\ w.value \in DOMAIN dash.aggregates
    \/ w.type \in AggregateTypes \cup DropdownTypes /\ w.data \in DOMAIN dash.totals

OffGrid(w, dash) ==
    /\ None \notin {w.x, w.w}
    /\ w.x + w.w > dash.gridColumns

LayoutRefused(dash) ==
    \/ \E i, j \in DOMAIN dash.layout : i # j /\ dash.layout[i].id = dash.layout[j].id
    \/ \E w \in Range(dash.layout) :
          w.id \notin Identifiers \/ OffGrid(w, dash) \/ WrongKind(w, dash)

Refused(file) ==
    HeaderRefused(file) \/ QueriesRefused(file) \/ LayoutRefused(Loaded(file))
=============================================================================
