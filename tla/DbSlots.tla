------------------------------- MODULE DbSlots -------------------------------
(***************************************************************************)
(* The DuckDB connection manager of src/backend/app/core/db.py: two fixed  *)
(* files ("slots" a and b), the connection that serves reads, the one a    *)
(* refresh loads into, and the marker file that names the slot to serve    *)
(* after a restart.                                                        *)
(*                                                                         *)
(* The refresh worker is the single thread of SystemManager._task_queue.   *)
(* The contents of a slot are abstracted to the refresh run that wrote it  *)
(* last and whether that run wrote all of it; GlobalRefresh.tla has the    *)
(* tables and views.                                                       *)
(***************************************************************************)
EXTENDS Naturals

CONSTANTS
    Readers,        \* threads that call get_db() and then use the connection
    Grace,          \* _STANDBY_GRACE_SECONDS, in ticks
    MaxQuery,       \* the longest a reader keeps a connection, in ticks
    MaxRuns,        \* bound on the number of refresh runs
    MarkerMayFail   \* whether writing the marker file may fail

ASSUME GraceAssumption == Grace \in Nat
ASSUME QueryAssumption == MaxQuery \in Nat
ASSUME RunsAssumption == MaxRuns \in Nat
ASSUME MarkerAssumption == MarkerMayFail \in BOOLEAN

Slots == {"a", "b"}
Other(slot) == IF slot = "a" THEN "b" ELSE "a"

NoCon == "none"         \* a connection variable that is None
Detached == "detached"  \* a connection only its reader still refers to
Closed == "closed"      \* a connection that was closed under its reader

VARIABLES
    file,       \* file[slot]: the run that wrote it last, and if it is whole
    marker,     \* the slot named by the marker file, or "absent"
    activeCon,  \* the slot _active_con is open on, or NoCon
    standbyCon, \* the slot _standby_con is open on, or NoCon
    activeSlot, \* _active_slot, or "unknown" before the first get_db()
    pc,         \* where the refresh worker is
    oldCon,     \* promote_standby's old_active_con
    oldSlot,    \* promote_standby's old_active_slot
    grace,      \* ticks left of promote_standby's sleep
    held,       \* the connection each reader obtained, or NoCon
    left,       \* ticks until a reader is done with its connection
    run         \* number of refresh runs started so far

conVars == <<activeCon, standbyCon, activeSlot>>
promoteVars == <<oldCon, oldSlot, grace>>
readVars == <<held, left>>
vars == <<file, marker, conVars, pc, promoteVars, readVars, run>>

WorkerSteps == {"idle", "opening", "loading", "loaded", "swapped", "draining"}

TypeOK ==
    /\ file \in [Slots -> [run : Nat, whole : BOOLEAN]]
    /\ marker \in Slots \cup {"absent"}
    /\ activeCon \in Slots \cup {NoCon}
    /\ standbyCon \in Slots \cup {NoCon}
    /\ activeSlot \in Slots \cup {"unknown"}
    /\ pc \in WorkerSteps
    /\ oldCon \in Slots \cup {NoCon}
    /\ oldSlot \in Slots
    /\ grace \in 0..Grace
    /\ held \in [Readers -> Slots \cup {NoCon, Detached, Closed}]
    /\ left \in [Readers -> 0..MaxQuery]
    /\ run \in Nat

Init ==
    /\ file = [slot \in Slots |-> [run |-> 0, whole |-> TRUE]]
    /\ marker = "absent"
    /\ activeCon = NoCon
    /\ standbyCon = NoCon
    /\ activeSlot = "unknown"
    /\ pc = "idle"
    /\ oldCon = NoCon
    /\ oldSlot = "a"
    /\ grace = 0
    /\ held = [r \in Readers |-> NoCon]
    /\ left = [r \in Readers |-> 0]
    /\ run = 0

-----------------------------------------------------------------------------
(* get_db() *)

\* _read_active_slot: slot a unless the marker file says otherwise.
MarkedSlot == IF marker = "absent" THEN "a" ELSE marker

\* The first caller opens the marked slot, under the lock; the others take
\* the connection that is there without the lock.
EnsureActive ==
    IF activeCon = NoCon
    THEN /\ pc # "swapped"
         /\ activeSlot' = MarkedSlot
         /\ activeCon' = MarkedSlot
    ELSE UNCHANGED <<activeSlot, activeCon>>

\* A request handler, an export or a health probe takes the connection ...
GetDb(r) ==
    /\ held[r] = NoCon
    /\ EnsureActive
    /\ held' = [held EXCEPT ![r] = activeCon']
    /\ left' = [left EXCEPT ![r] = MaxQuery]
    /\ UNCHANGED <<file, marker, standbyCon, pc, promoteVars, run>>

\* ... and is done with it, or meets the error of a closed one.
Finish(r) ==
    /\ held[r] # NoCon
    /\ held' = [held EXCEPT ![r] = NoCon]
    /\ left' = [left EXCEPT ![r] = 0]
    /\ UNCHANGED <<file, marker, conVars, pc, promoteVars, run>>

-----------------------------------------------------------------------------
(* The refresh worker: get_standby_db, the load, promote_standby *)

\* _do_refresh begins: get_standby_db makes sure the active slot is known.
BeginRefresh ==
    /\ pc = "idle"
    /\ run < MaxRuns
    /\ run' = run + 1
    /\ EnsureActive
    /\ pc' = "opening"
    /\ UNCHANGED <<file, marker, standbyCon, promoteVars, readVars>>

\* Slip: the standby is always slot b.
OpenSlotB ==
    /\ pc = "opening"
    /\ standbyCon' = IF standbyCon = NoCon THEN "b" ELSE standbyCon
    /\ pc' = "loading"
    /\ UNCHANGED <<file, marker, activeCon, activeSlot, promoteVars, readVars, run>>

OpenStandby ==
    /\ pc = "opening"
    /\ standbyCon' = IF standbyCon = NoCon THEN Other(activeSlot) ELSE standbyCon
    /\ pc' = "loading"
    /\ UNCHANGED <<file, marker, activeCon, activeSlot, promoteVars, readVars, run>>

\* Slip: a connector loads into the active connection.
LoadActiveTable ==
    /\ pc = "loading"
    /\ activeCon # NoCon
    /\ file' = [file EXCEPT ![activeCon] = [run |-> run, whole |-> FALSE]]
    /\ UNCHANGED <<marker, conVars, pc, promoteVars, readVars, run>>

\* One connector drops and recreates its table in the standby slot.
LoadTable ==
    /\ pc = "loading"
    /\ standbyCon # NoCon
    /\ file' = [file EXCEPT ![standbyCon] = [run |-> run, whole |-> FALSE]]
    /\ UNCHANGED <<marker, conVars, pc, promoteVars, readVars, run>>

LoadDone ==
    /\ pc = "loading"
    /\ standbyCon # NoCon
    /\ file' = [file EXCEPT ![standbyCon] = [run |-> run, whole |-> TRUE]]
    /\ pc' = "loaded"
    /\ UNCHANGED <<marker, conVars, promoteVars, readVars, run>>

\* Slip: the failure of a connector is logged and the job goes on.
RefreshGoesOn ==
    /\ pc \in {"opening", "loading"}
    /\ pc' = "loaded"
    /\ UNCHANGED <<file, marker, conVars, promoteVars, readVars, run>>

\* The standby cannot be opened, or a connector or a view raises: the job
\* ends and the standby keeps whatever was loaded.
RefreshFails ==
    /\ pc \in {"opening", "loading"}
    /\ pc' = "idle"
    /\ UNCHANGED <<file, marker, conVars, promoteVars, readVars, run>>

\* promote_standby raises before it swaps: there is no standby connection, or
\* the read-only reopen fails (the standby is opened again, when it can be).
PromoteFails ==
    /\ pc = "loaded"
    /\ standbyCon' \in {standbyCon, NoCon}
    /\ pc' = "idle"
    /\ UNCHANGED <<file, marker, activeCon, activeSlot, promoteVars, readVars, run>>

\* The validated standby becomes the active connection; the lock stays held.
Swap ==
    /\ pc = "loaded"
    /\ standbyCon # NoCon
    /\ oldCon' = activeCon
    /\ oldSlot' = activeSlot
    /\ activeCon' = Other(activeSlot)
    /\ activeSlot' = Other(activeSlot)
    /\ standbyCon' = NoCon
    /\ pc' = "swapped"
    /\ UNCHANGED <<file, marker, grace, readVars, run>>

\* Slip: the marker gets the name of the old slot.
WriteOldMarker ==
    /\ pc = "swapped"
    /\ marker' = oldSlot
    /\ grace' = Grace
    /\ pc' = "draining"
    /\ UNCHANGED <<file, conVars, oldCon, oldSlot, readVars, run>>

\* Slip: no grace period.
WriteMarkerNoGrace ==
    /\ pc = "swapped"
    /\ marker' = activeSlot
    /\ grace' = 0
    /\ pc' = "draining"
    /\ UNCHANGED <<file, conVars, oldCon, oldSlot, readVars, run>>

WriteMarker ==
    /\ pc = "swapped"
    /\ marker' = activeSlot
    /\ grace' = Grace
    /\ pc' = "draining"
    /\ UNCHANGED <<file, conVars, oldCon, oldSlot, readVars, run>>

\* _write_active_slot raises: the swap is not undone, and nothing refers to
\* the old connection any more but the readers that hold it.
WriteMarkerFails ==
    /\ MarkerMayFail
    /\ pc = "swapped"
    /\ held' = [r \in Readers |->
                  IF held[r] = oldCon /\ oldCon # NoCon THEN Detached ELSE held[r]]
    /\ pc' = "idle"
    /\ UNCHANGED <<file, marker, conVars, promoteVars, left, run>>

\* After the grace period the old connection is closed under whoever still
\* reads it, and its slot is opened as the next standby. Both calls may
\* raise, the first when close_db left no old connection.
Demote ==
    /\ pc = "draining"
    /\ grace = 0
    /\ held' = [r \in Readers |->
                  IF held[r] = oldCon /\ oldCon # NoCon THEN Closed ELSE held[r]]
    /\ \/ oldCon # NoCon /\ standbyCon' = oldSlot
       \/ UNCHANGED standbyCon
    /\ pc' = "idle"
    /\ UNCHANGED <<file, marker, activeCon, activeSlot, promoteVars, left, run>>

-----------------------------------------------------------------------------
(* Time, shutdown and crashes *)

\* Slip: the grace period is counted without an end.
TickPastGrace ==
    /\ \A r \in Readers : held[r] # NoCon => left[r] > 0
    /\ left' = [r \in Readers |-> IF held[r] # NoCon THEN left[r] - 1 ELSE left[r]]
    /\ grace' = Grace + 1
    /\ UNCHANGED <<file, marker, conVars, pc, oldCon, oldSlot, held, run>>

\* Slip: the worker waits until nobody reads, on any connection.
TickWhenIdle ==
    /\ \A r \in Readers : held[r] # NoCon => left[r] > 0
    /\ left' = [r \in Readers |-> IF held[r] # NoCon THEN left[r] - 1 ELSE left[r]]
    /\ grace' = IF grace > 0 /\ \A r \in Readers : held[r] = NoCon THEN grace - 1 ELSE grace
    /\ UNCHANGED <<file, marker, conVars, pc, oldCon, oldSlot, held, run>>

\* A tick passes for the readers and the sleeping worker. A reader never
\* keeps its connection longer than MaxQuery ticks.
Tick ==
    /\ \A r \in Readers : held[r] # NoCon => left[r] > 0
    /\ left' = [r \in Readers |-> IF held[r] # NoCon THEN left[r] - 1 ELSE left[r]]
    /\ grace' = IF grace > 0 THEN grace - 1 ELSE 0
    /\ UNCHANGED <<file, marker, conVars, pc, oldCon, oldSlot, held, run>>

\* close_db, the last shutdown hook: the executor's job may still be running.
CloseDb ==
    /\ pc # "swapped"
    /\ activeCon # NoCon \/ standbyCon # NoCon
    /\ activeCon' = NoCon
    /\ standbyCon' = NoCon
    /\ held' = [r \in Readers |->
                  IF held[r] = activeCon /\ activeCon # NoCon THEN Closed ELSE held[r]]
    /\ UNCHANGED <<file, marker, activeSlot, pc, promoteVars, left, run>>

\* The process dies at any point; a new one starts with the files it left.
Crash ==
    /\ activeCon' = NoCon
    /\ standbyCon' = NoCon
    /\ activeSlot' = "unknown"
    /\ pc' = "idle"
    /\ oldCon' = NoCon
    /\ oldSlot' = "a"
    /\ grace' = 0
    /\ held' = [r \in Readers |-> NoCon]
    /\ left' = [r \in Readers |-> 0]
    /\ UNCHANGED <<file, marker, run>>

-----------------------------------------------------------------------------

Promote == Swap \/ WriteMarker \/ WriteMarkerFails \/ PromoteFails \/ Demote

Worker ==
    \/ BeginRefresh \/ OpenStandby
    \/ LoadTable \/ LoadDone \/ RefreshFails
    \/ Promote

Next ==
    \/ \E r \in Readers : GetDb(r) \/ Finish(r)
    \/ Worker
    \/ Tick
    \/ CloseDb
    \/ Crash

Spec == Init /\ [][Next]_vars

\* Threads are scheduled, sleeps end, and readers do not keep a connection
\* for ever; nothing says that a refresh is ever asked for.
Fairness ==
    /\ WF_vars(OpenStandby \/ LoadDone \/ RefreshFails \/ Promote)
    /\ WF_vars(Tick)
    /\ \A r \in Readers : WF_vars(Finish(r))

FairSpec == Spec /\ Fairness

-----------------------------------------------------------------------------
(* Properties *)

\* The active connection is open on a slot that one refresh run wrote from
\* beginning to end: "a refresh never serves a half-loaded table"
\* (README.md:42), after a failed load, a shutdown or a crash as well.
ServedWhole == activeCon # NoCon => file[activeCon].whole

\* The standby is never the file that readers are served from, and once the
\* active slot is known each connection is on the slot db.py believes it is.
SlotsApart ==
    /\ activeCon # NoCon => activeCon = activeSlot
    /\ standbyCon # NoCon => activeSlot \in Slots /\ standbyCon = Other(activeSlot)

\* Outside the locked swap of promote_standby the marker names the slot the
\* process serves, so that a restart serves what this process served.
MarkerNamesServed ==
    (pc # "swapped" /\ activeSlot # "unknown") => activeSlot = MarkedSlot

\* When the grace period ends nobody is in the middle of a query on the
\* connection that promote_standby is about to close (db.py:43-46).
DrainedBeforeClose ==
    (pc = "draining" /\ grace = 0 /\ oldCon # NoCon)
        => \A r \in Readers : held[r] # oldCon

\* Every promotion that swapped ends: the worker is free for the next refresh.
PromotionEnds == pc = "swapped" ~> pc = "idle"

\* The slots implement the snapshot store: readers see whole generations
\* that change in one step, and only a restart goes back to the recorded one.
ServedSlot == IF activeSlot = "unknown" THEN MarkedSlot ELSE activeSlot

Store == INSTANCE SnapshotStore WITH
    served <- file[ServedSlot].run,
    recorded <- file[MarkedSlot].run,
    available <- {file[slot].run : slot \in {s \in Slots : file[s].whole}}

ImplementsStore == Store!Spec
=============================================================================
