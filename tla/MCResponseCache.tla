-------------------------- MODULE MCResponseCache --------------------------
(* Instances of ResponseCache for TLC. *)
EXTENDS ResponseCache

\* A widget of every dashboard shows the table of the one data source, so that
\* its name is in the index beside the base view's.
ShownTables == [d \in Dashboards |-> Sources \cup {"view"}]

\* Every widget shows an aggregate or a total over the base view.
ViewTables == [d \in Dashboards |-> {"view"}]
=============================================================================
