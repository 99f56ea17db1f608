--------------------------- MODULE SnapshotStore ---------------------------
(***************************************************************************)
(* What the active/standby pair of DuckDB files promises to its readers    *)
(* (db.py, docs/backend_architecture.md ADR-001): they see one complete    *)
(* generation of the data at a time, a newer one appears in a single step, *)
(* and after a restart the generation last recorded on disk is served.     *)
(***************************************************************************)
EXTENDS Naturals

VARIABLES
    served,     \* the generation readers see
    recorded,   \* the generation a restarted process would serve
    available   \* the complete generations on disk

storeVars == <<served, recorded, available>>

Init ==
    /\ served = 0
    /\ recorded = 0
    /\ available = {0}

\* A load overwrites or completes a generation nobody is served from.
Build ==
    /\ available' \in SUBSET Nat
    /\ {served, recorded} \subseteq available'
    /\ UNCHANGED <<served, recorded>>

\* A newer complete generation becomes visible, all of it at once.
Publish ==
    /\ \E g \in available : g > served /\ served' = g
    /\ UNCHANGED <<recorded, available>>

Record ==
    /\ recorded' = served
    /\ UNCHANGED <<served, available>>

\* The process stops and a new one opens what was recorded.
Restart ==
    /\ served' = recorded
    /\ UNCHANGED <<recorded, available>>

Next == Build \/ Publish \/ Record \/ Restart

Spec == Init /\ [][Next]_storeVars
=============================================================================
