--------------------------- MODULE DbSlotsProofs ---------------------------
(***************************************************************************)
(* Theorems about DbSlots for any set of readers, any grace period and any *)
(* number of refresh runs.                                                 *)
(***************************************************************************)
EXTENDS DbSlots, TLAPS

(***************************************************************************)
(* Typing, whether or not the marker file can be written.                  *)
(***************************************************************************)

\* get_db() has run, so _active_slot is known, before anything refers to it.
SlotKnown == pc # "idle" \/ activeCon # NoCon => activeSlot \in Slots

TypeInv == TypeOK /\ SlotKnown

\* A fresh process with no marker file is well typed.
LEMMA TypeInit == Init => TypeInv
  BY GraceAssumption, QueryAssumption
     DEF Init, TypeInv, TypeOK, SlotKnown, Slots, NoCon, WorkerSteps

\* Every step of the readers, the worker, the shutdown and a crash keeps the
\* variables of db.py well typed and the active slot known once it is used.
LEMMA TypeStep == TypeInv /\ [Next]_vars => TypeInv'
<1> SUFFICES ASSUME TypeInv, [Next]_vars PROVE TypeInv'
  OBVIOUS
<1> USE GraceAssumption, QueryAssumption, RunsAssumption
    DEF TypeInv, TypeOK, SlotKnown, Slots, Other, NoCon, Detached, Closed,
        WorkerSteps, MarkedSlot, conVars, promoteVars, readVars
<1>1. ASSUME NEW r \in Readers, GetDb(r) PROVE TypeInv'
  BY <1>1 DEF GetDb, EnsureActive
<1>2. ASSUME NEW r \in Readers, Finish(r) PROVE TypeInv'
  BY <1>2 DEF Finish
<1>3. CASE BeginRefresh
  BY <1>3 DEF BeginRefresh, EnsureActive
<1>4. CASE OpenStandby
  BY <1>4 DEF OpenStandby
<1>5. CASE LoadTable
  BY <1>5 DEF LoadTable
<1>6. CASE LoadDone
  BY <1>6 DEF LoadDone
<1>7. CASE RefreshFails
  BY <1>7 DEF RefreshFails
<1>8. CASE PromoteFails
  BY <1>8 DEF PromoteFails
<1>9. CASE Swap
  BY <1>9 DEF Swap
<1>10. CASE WriteMarker
  BY <1>10 DEF WriteMarker
<1>11. CASE WriteMarkerFails
  BY <1>11 DEF WriteMarkerFails
<1>12. CASE Demote
  BY <1>12 DEF Demote
<1>13. CASE Tick
  BY <1>13 DEF Tick
<1>14. CASE CloseDb
  BY <1>14 DEF CloseDb
<1>15. CASE Crash
  BY <1>15 DEF Crash
<1>16. CASE UNCHANGED vars
  BY <1>16 DEF vars
<1>17. QED
  BY <1>1, <1>2, <1>3, <1>4, <1>5, <1>6, <1>7, <1>8, <1>9, <1>10, <1>11,
     <1>12, <1>13, <1>14, <1>15, <1>16 DEF Next, Worker, Promote

\* Every reachable state of db.py is well typed.
THEOREM Typing == Spec => []TypeOK
<1>1. TypeInv => TypeOK
  BY DEF TypeInv
<1>2. QED
  BY <1>1, TypeInit, TypeStep, PTL DEF Spec

(***************************************************************************)
(* The two files, the marker and the connections. From here on the marker  *)
(* file can be written.                                                    *)
(***************************************************************************)

\* From the swap to the end of the grace period there is no standby and the
\* old connection is on the other slot; the marker still names it at the swap.
Promoting ==
    /\ pc \in {"swapped", "draining"} =>
          /\ standbyCon = NoCon
          /\ oldSlot = Other(activeSlot)
          /\ oldCon \in {NoCon, oldSlot}
    /\ pc = "swapped" =>
          /\ activeCon = activeSlot
          /\ MarkedSlot = oldSlot

\* What a restart would serve is whole, and so is what is about to be swapped
\* in or has just been.
WholeFiles ==
    /\ file[MarkedSlot].whole
    /\ pc = "loaded" /\ standbyCon # NoCon => file[standbyCon].whole
    /\ pc = "swapped" => file[activeSlot].whole

SlotInv == TypeInv /\ SlotsApart /\ MarkerNamesServed /\ Promoting /\ WholeFiles

\* Both files are whole before the first refresh.
LEMMA SlotInit == Init => SlotInv
<1>1. Init => SlotsApart /\ MarkerNamesServed /\ Promoting /\ WholeFiles
  BY DEF Init, SlotsApart, MarkerNamesServed, Promoting, WholeFiles, MarkedSlot,
         Slots, NoCon
<1>2. QED
  BY <1>1, TypeInit DEF SlotInv

\* No step puts the marker, the active slot and the two connections at odds or
\* leaves a half-loaded file where a restart or a swap would serve it.
LEMMA SlotStep ==
  ASSUME ~MarkerMayFail, SlotInv, [Next]_vars
  PROVE  SlotInv'
<1> DEFINE I == SlotsApart /\ MarkerNamesServed /\ Promoting /\ WholeFiles
<1>0. TypeInv'
  BY TypeStep DEF SlotInv
<1> SUFFICES I'
  BY <1>0 DEF SlotInv
<1> USE DEF SlotInv, TypeInv, TypeOK, SlotKnown, SlotsApart, MarkerNamesServed,
        Promoting, WholeFiles, Slots, Other, NoCon, Detached, Closed,
        WorkerSteps, MarkedSlot, conVars, promoteVars, readVars
<1>1. ASSUME NEW r \in Readers, GetDb(r) PROVE I'
  BY <1>1 DEF GetDb, EnsureActive
<1>2. ASSUME NEW r \in Readers, Finish(r) PROVE I'
  BY <1>2 DEF Finish
<1>3. CASE BeginRefresh
  BY <1>3 DEF BeginRefresh, EnsureActive
<1>4. CASE OpenStandby
  BY <1>4 DEF OpenStandby
<1>5. CASE LoadTable
  BY <1>5 DEF LoadTable
<1>6. CASE LoadDone
  BY <1>6 DEF LoadDone
<1>7. CASE RefreshFails
  BY <1>7 DEF RefreshFails
<1>8. CASE PromoteFails
  BY <1>8 DEF PromoteFails
<1>9. CASE Swap
  BY <1>9 DEF Swap
<1>10. CASE WriteMarker
  BY <1>10 DEF WriteMarker
<1>11. CASE WriteMarkerFails
  BY <1>11 DEF WriteMarkerFails
<1>12. CASE Demote
  BY <1>12 DEF Demote
<1>13. CASE Tick
  BY <1>13 DEF Tick
<1>14. CASE CloseDb
  BY <1>14 DEF CloseDb
<1>15. CASE Crash
  BY <1>15 DEF Crash
<1>16. CASE UNCHANGED vars
  BY <1>16 DEF vars
<1>17. QED
  BY <1>1, <1>2, <1>3, <1>4, <1>5, <1>6, <1>7, <1>8, <1>9, <1>10, <1>11,
     <1>12, <1>13, <1>14, <1>15, <1>16 DEF Next, Worker, Promote

\* The agreement of files, marker and connections holds in every reachable
\* state when the marker file can be written.
LEMMA SlotInvariance ==
  ASSUME ~MarkerMayFail PROVE Spec => []SlotInv
<1>1. SlotInv /\ [Next]_vars => SlotInv'
  BY SlotStep
<1>2. QED
  BY <1>1, SlotInit, PTL DEF Spec

\* Readers are never served from a slot whose load did not finish, whatever
\* fails, shuts down or crashes in between.
THEOREM ServesWholeGenerations ==
  ASSUME ~MarkerMayFail PROVE Spec => []ServedWhole
<1>1. SlotInv => ServedWhole
  BY DEF SlotInv, TypeInv, TypeOK, SlotsApart, MarkerNamesServed, WholeFiles,
         ServedWhole, Slots, NoCon
<1>2. QED
  BY <1>1, SlotInvariance, PTL

\* The standby is never the file readers are served from.
THEOREM StandbyIsApart ==
  ASSUME ~MarkerMayFail PROVE Spec => []SlotsApart
<1>1. SlotInv => SlotsApart
  BY DEF SlotInv
<1>2. QED
  BY <1>1, SlotInvariance, PTL

\* Outside the swap itself the marker names the slot that serves, so that a
\* restart, or a crash at any point, serves what was served.
THEOREM RestartServesTheSame ==
  ASSUME ~MarkerMayFail PROVE Spec => []MarkerNamesServed
<1>1. SlotInv => MarkerNamesServed
  BY DEF SlotInv
<1>2. QED
  BY <1>1, SlotInvariance, PTL

(***************************************************************************)
(* The grace period.                                                       *)
(***************************************************************************)

\* Whoever still holds the old connection took it before the swap, so what is
\* left of its query is at most MaxQuery less the time already slept.
Drain ==
    pc = "draining" /\ oldCon # NoCon =>
        \A r \in Readers : held[r] = oldCon => left[r] + Grace <= MaxQuery + grace

\* While promote_standby sleeps, a reader of the old connection spends its
\* remaining time at least as fast as the worker spends the grace period.
LEMMA DrainStep ==
  ASSUME ~MarkerMayFail, SlotInv, Drain, [Next]_vars
  PROVE  Drain'
<1> USE GraceAssumption, QueryAssumption, RunsAssumption
    DEF SlotInv, TypeInv, TypeOK, SlotKnown, SlotsApart, MarkerNamesServed,
        Promoting, Drain, Slots, Other, NoCon, Detached, Closed,
        WorkerSteps, MarkedSlot, conVars, promoteVars, readVars
<1>1. ASSUME NEW r \in Readers, GetDb(r) PROVE Drain'
  BY <1>1 DEF GetDb, EnsureActive
<1>2. ASSUME NEW r \in Readers, Finish(r) PROVE Drain'
  BY <1>2 DEF Finish
<1>3. CASE BeginRefresh
  BY <1>3 DEF BeginRefresh, EnsureActive
<1>4. CASE OpenStandby
  BY <1>4 DEF OpenStandby
<1>5. CASE LoadTable
  BY <1>5 DEF LoadTable
<1>6. CASE LoadDone
  BY <1>6 DEF LoadDone
<1>7. CASE RefreshFails
  BY <1>7 DEF RefreshFails
<1>8. CASE PromoteFails
  BY <1>8 DEF PromoteFails
<1>9. CASE Swap
  BY <1>9 DEF Swap
<1>10. CASE WriteMarker
  BY <1>10 DEF WriteMarker
<1>11. CASE WriteMarkerFails
  BY <1>11 DEF WriteMarkerFails
<1>12. CASE Demote
  BY <1>12 DEF Demote
<1>13. CASE Tick
  BY <1>13 DEF Tick
<1>14. CASE CloseDb
  BY <1>14 DEF CloseDb
<1>15. CASE Crash
  BY <1>15 DEF Crash
<1>16. CASE UNCHANGED vars
  BY <1>16 DEF vars
<1>17. QED
  BY <1>1, <1>2, <1>3, <1>4, <1>5, <1>6, <1>7, <1>8, <1>9, <1>10, <1>11,
     <1>12, <1>13, <1>14, <1>15, <1>16 DEF Next, Worker, Promote

\* When no query is longer than the grace period, closing the old connection
\* at its end cuts nobody off, however the readers and the worker interleave.
THEOREM NobodyIsCutOff ==
  ASSUME ~MarkerMayFail, MaxQuery < Grace PROVE Spec => []DrainedBeforeClose
<1>1. Init => Drain
  BY DEF Init, Drain
<1>2. SlotInv /\ Drain /\ [Next]_vars => Drain'
  BY DrainStep
<1>3. SlotInv /\ Drain => DrainedBeforeClose
  <2>1. SUFFICES ASSUME SlotInv, Drain, pc = "draining", grace = 0, oldCon # NoCon,
                        NEW r \in Readers, held[r] = oldCon
                 PROVE  FALSE
    BY DEF DrainedBeforeClose
  <2>2. left[r] + Grace <= MaxQuery + grace
    BY <2>1 DEF Drain
  <2>3. left[r] \in Nat
    BY <2>1, QueryAssumption DEF SlotInv, TypeInv, TypeOK
  <2>4. QED
    BY <2>1, <2>2, <2>3, GraceAssumption, QueryAssumption
<1>4. QED
  BY <1>1, <1>2, <1>3, SlotInvariance, PTL DEF Spec

(***************************************************************************)
(* Refinement: the slots implement the snapshot store.                     *)
(***************************************************************************)

\* A run writes only to the standby, so until it is swapped in it is newer
\* than everything readers are served.
RunInv ==
    /\ \A slot \in Slots : file[slot].run <= run
    /\ pc \in {"opening", "loading", "loaded"} => file[activeSlot].run < run
    /\ pc = "loaded" /\ standbyCon # NoCon => file[standbyCon].run = run

\* A refresh gives the standby the newest run number, and nothing else writes
\* to a file.
LEMMA RunStep ==
  ASSUME ~MarkerMayFail, SlotInv, RunInv, [Next]_vars
  PROVE  RunInv'
<1> USE DEF SlotInv, TypeInv, TypeOK, SlotKnown, SlotsApart, MarkerNamesServed,
        RunInv, Slots, Other, NoCon, WorkerSteps, MarkedSlot,
        conVars, promoteVars, readVars
<1>1. ASSUME NEW r \in Readers, GetDb(r) PROVE RunInv'
  BY <1>1 DEF GetDb, EnsureActive
<1>2. ASSUME NEW r \in Readers, Finish(r) PROVE RunInv'
  BY <1>2 DEF Finish
<1>3. CASE BeginRefresh
  BY <1>3 DEF BeginRefresh, EnsureActive
<1>4. CASE OpenStandby
  BY <1>4 DEF OpenStandby
<1>5. CASE LoadTable
  BY <1>5 DEF LoadTable
<1>6. CASE LoadDone
  BY <1>6 DEF LoadDone
<1>7. CASE RefreshFails
  BY <1>7 DEF RefreshFails
<1>8. CASE PromoteFails
  BY <1>8 DEF PromoteFails
<1>9. CASE Swap
  BY <1>9 DEF Swap
<1>10. CASE WriteMarker
  BY <1>10 DEF WriteMarker
<1>11. CASE WriteMarkerFails
  BY <1>11 DEF WriteMarkerFails
<1>12. CASE Demote
  BY <1>12 DEF Demote
<1>13. CASE Tick
  BY <1>13 DEF Tick
<1>14. CASE CloseDb
  BY <1>14 DEF CloseDb
<1>15. CASE Crash
  BY <1>15 DEF Crash
<1>16. CASE UNCHANGED vars
  BY <1>16 DEF vars
<1>17. QED
  BY <1>1, <1>2, <1>3, <1>4, <1>5, <1>6, <1>7, <1>8, <1>9, <1>10, <1>11,
     <1>12, <1>13, <1>14, <1>15, <1>16 DEF Next, Worker, Promote

\* A process without files serves generation 0 of the snapshot store.
LEMMA InitRefines == Init => Store!Init
  BY DEF Init, Store!Init, ServedSlot, MarkedSlot, Slots

\* A load is a Build, the swap a Publish, the marker a Record and a crash a
\* Restart of the snapshot store; every other step is invisible to it.
LEMMA StepRefines ==
  ASSUME ~MarkerMayFail, SlotInv, SlotInv', RunInv, [Next]_vars
  PROVE  [Store!Next]_Store!storeVars
<1> USE DEF SlotInv, TypeInv, TypeOK, SlotKnown, SlotsApart, MarkerNamesServed,
        Promoting, WholeFiles, ServedSlot, Slots, Other, NoCon, WorkerSteps,
        MarkedSlot, conVars, promoteVars, readVars
<1>1. \/ \E r \in Readers : GetDb(r) \/ Finish(r)
      \/ BeginRefresh \/ OpenStandby \/ RefreshFails \/ PromoteFails
      \/ WriteMarkerFails \/ Demote \/ Tick \/ CloseDb \/ UNCHANGED vars
      => UNCHANGED <<file, marker>> /\ ServedSlot' = ServedSlot
  BY DEF GetDb, EnsureActive, Finish, BeginRefresh, OpenStandby, RefreshFails,
         PromoteFails, WriteMarkerFails, Demote, Tick, CloseDb, vars
<1>2. UNCHANGED <<file, marker>> /\ ServedSlot' = ServedSlot
      => UNCHANGED Store!storeVars
  BY DEF Store!storeVars
<1>3. LoadTable \/ LoadDone => Store!Build
  <2>1. SUFFICES ASSUME LoadTable \/ LoadDone PROVE Store!Build
    OBVIOUS
  <2>2. /\ activeSlot \in Slots
        /\ activeSlot = MarkedSlot
        /\ standbyCon = Other(activeSlot)
        /\ UNCHANGED <<marker, activeSlot>>
    BY <2>1 DEF LoadTable, LoadDone
  <2>3. /\ file'[activeSlot] = file[activeSlot]
        /\ file[activeSlot].whole
    BY <2>1, <2>2 DEF LoadTable, LoadDone
  <2>4. file' \in [Slots -> [run : Nat, whole : BOOLEAN]]
    OBVIOUS
  <2>5. {file'[slot].run : slot \in {s \in Slots : file'[s].whole}} \in SUBSET Nat
    BY <2>4
  <2>6. QED
    BY <2>2, <2>3, <2>5 DEF Store!Build
<1>4. Swap => Store!Publish
  <2>1. SUFFICES ASSUME Swap PROVE Store!Publish
    OBVIOUS
  <2>2. /\ activeSlot \in Slots
        /\ standbyCon = Other(activeSlot)
        /\ ServedSlot = activeSlot
        /\ ServedSlot' = standbyCon
        /\ UNCHANGED <<file, marker>>
    BY <2>1 DEF Swap
  <2>3. /\ file[standbyCon].whole
        /\ file[standbyCon].run = run
        /\ file[activeSlot].run < run
    BY <2>1, <2>2 DEF Swap, RunInv
  <2>4. QED
    BY <2>2, <2>3 DEF Store!Publish
<1>5. WriteMarker => Store!Record
  BY DEF WriteMarker, Store!Record
<1>6. Crash => Store!Restart
  BY DEF Crash, Store!Restart
<1>7. QED
  BY <1>1, <1>2, <1>3, <1>4, <1>5, <1>6 DEF Next, Worker, Promote, Store!Next

\* Readers see one whole generation at a time and a newer one in one step;
\* only a restart goes back, to the generation recorded on disk.
THEOREM Refinement ==
  ASSUME ~MarkerMayFail PROVE Spec => ImplementsStore
<1>1. Init => RunInv
  BY DEF Init, RunInv, Slots
<1>2. SlotInv /\ RunInv /\ [Next]_vars => RunInv'
  BY RunStep
<1>3. SlotInv /\ SlotInv' /\ RunInv /\ [Next]_vars => [Store!Next]_Store!storeVars
  BY StepRefines
<1>4. QED
  BY <1>1, <1>2, <1>3, InitRefines, SlotInvariance, PTL
     DEF Spec, ImplementsStore, Store!Spec
=============================================================================
