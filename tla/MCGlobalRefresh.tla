-------------------------- MODULE MCGlobalRefresh --------------------------
(* Instances of GlobalRefresh for TLC. *)
EXTENDS GlobalRefresh

Definition(dash, name, needs, body) ==
    [dash |-> dash, view |-> name, needs |-> needs, body |-> body,
     replace |-> TRUE, valid |-> TRUE]

\* The file of a dashboard is edited: it says CREATE VIEW without OR REPLACE,
\* which the parser accepts, and reads another source.
EditedDefs ==
    {Definition("d1", "v1", "s1", "first"),
     [Definition("d1", "v1", "s2", "edited") EXCEPT !.replace = FALSE]}
=============================================================================
