----------------------- MODULE GlobalRefreshViewsProofs -----------------------
(***************************************************************************)
(* Theorems about the base views of GlobalRefresh, and about what a refresh*)
(* shows before it is promoted: in a steady process readers find the view  *)
(* of every loaded dashboard, and a refresh under way is not seen.         *)
(***************************************************************************)
EXTENDS GlobalRefreshProofs

\* No two dashboard files name the same base view. The code does not check
\* it: a file that reuses a name replaces the view of the other dashboard, so
\* what is proved of the views is proved under this hypothesis.
DistinctViews == \A d, e \in Defs : d.view = e.view => d.dash = e.dash

(***************************************************************************)
(* The inductive invariant: without scheduled refreshes a refresh runs only*)
(* while the loop waits for it, so the registry it reads does not move, and*)
(* the views it has recreated are those of the dashboards loaded when it is*)
(* promoted.                                                               *)
(***************************************************************************)

\* The registry has a definition under the name of its file.
FiledByName ==
    \A d \in Loaded : dashboards[d] \in Defs /\ dashboards[d].dash = d

\* Nobody but the loop has asked for a refresh.
OnlyTheLoopRefreshes ==
    /\ \A i \in DOMAIN queue : queue[i].origin = "loop"
    /\ job.pc # "none" => job.origin = "loop"

ServedFrom(slot, names) ==
    \A d \in names : view[slot][dashboards[d].view] = dashboards[d]

\* The views the refresh has recreated so far, or all it has to recreate.
RecreatedByJob ==
    /\ job.pc = "views" => ServedFrom(Standby, Loaded \cap job.done)
    /\ job.pc = "promote" => ServedFrom(Standby, Loaded)

ViewsInv ==
    /\ FiledByName
    /\ steady => OnlyTheLoopRefreshes /\ RecreatedByJob /\ ServedFrom(active, Loaded)

\* Dashboards are filed under the name their definition carries.
LEMMA FiledStep ==
  ASSUME ViewTypes, FiledByName, [Next]_vars
  PROVE  FiledByName'
<1> USE DefsAssumption
    DEF ViewTypes, FiledByName, Loaded, LoadYaml, registryVars, savedVars, slotVars
<1>1. ASSUME NEW s \in Sources, NEW kind \in Kinds, Register(s, kind)
      PROVE  FiledByName'
  BY <1>1 DEF Register, Submit
<1>2. CASE TriggerRefresh
  BY <1>2 DEF TriggerRefresh, Submit
<1>3. CASE ScheduledRefresh
  BY <1>3 DEF ScheduledRefresh, Submit
<1>4. CASE Continue
  BY <1>4 DEF Continue, Return, DropObject, SaveSources
<1>5. CASE Worker
  BY <1>5 DEF Worker, StartJob, IterationFails, LoadSource, LoadSourceFails,
     SourcesLoaded, RecreateView, RecreateViewFails, ViewsRecreated,
     PromoteStandby, PromoteRaises, Swapped, PromoteFails
<1>6. ASSUME NEW s \in Sources, RemoveSource(s) PROVE FiledByName'
  BY <1>6 DEF RemoveSource
<1>7. ASSUME NEW def \in Defs, LoadDashboard(def) PROVE FiledByName'
  BY <1>7 DEF LoadDashboard
<1>8. ASSUME NEW d \in Dashboards, RemoveDashboard(d) PROVE FiledByName'
  BY <1>8 DEF RemoveDashboard
<1>9. CASE Crash \/ CrashUnreadable
  BY <1>9 DEF Crash, CrashUnreadable, Restart
<1>10. CASE StartupRefreshed
  BY <1>10 DEF StartupRefreshed
<1>11. ASSUME NEW d \in Dashboards, ReloadDashboard(d) PROVE FiledByName'
  BY <1>11 DEF ReloadDashboard
<1>12. CASE Started
  BY <1>12 DEF Started
<1>13. CASE UNCHANGED vars
  BY <1>13 DEF vars
<1>14. QED
  BY <1>1, <1>2, <1>3, <1>4, <1>5, <1>6, <1>7, <1>8, <1>9, <1>10, <1>11, <1>12,
     <1>13 DEF Next, Step, Handlers, Startup

\* In a steady process only the loop submits refreshes.
LEMMA OnlyTheLoopStep ==
  ASSUME Types, OnlyTheLoopRefreshes, steady, [Next]_vars
  PROVE  OnlyTheLoopRefreshes'
<1> USE DEF Types, OnlyTheLoopRefreshes, JobStates, Origins, NoJob,
        registryVars, savedVars, slotVars
<1>1. ASSUME NEW s \in Sources, NEW kind \in Kinds, Register(s, kind)
      PROVE  OnlyTheLoopRefreshes'
  BY <1>1 DEF Register, Submit
<1>2. CASE TriggerRefresh
  BY <1>2 DEF TriggerRefresh, Submit
<1>3. CASE ScheduledRefresh
  BY <1>3 DEF ScheduledRefresh
<1>4. CASE Continue
  BY <1>4 DEF Continue, Return, DropObject, SaveSources
<1>5. CASE StartJob
  <2>1. /\ 1 \in DOMAIN queue
        /\ Head(queue) = queue[1]
        /\ \A i \in DOMAIN Tail(queue) :
              i + 1 \in DOMAIN queue /\ Tail(queue)[i] = queue[i + 1]
    BY <1>5, HeadTailProperties DEF StartJob
  <2>2. job'.origin = queue[1].origin /\ queue' = Tail(queue)
    BY <1>5, <2>1 DEF StartJob
  <2>3. QED
    BY <2>1, <2>2
<1>6. CASE IterationFails
  BY <1>6 DEF IterationFails, EndJob
<1>7. ASSUME NEW s \in Sources, LoadSource(s) PROVE OnlyTheLoopRefreshes'
  BY <1>7 DEF LoadSource
<1>8. ASSUME NEW s \in Sources, LoadSourceFails(s) PROVE OnlyTheLoopRefreshes'
  BY <1>8 DEF LoadSourceFails, EndJob
<1>9. CASE SourcesLoaded
  BY <1>9 DEF SourcesLoaded
<1>10. ASSUME NEW d \in Dashboards, RecreateView(d) PROVE OnlyTheLoopRefreshes'
  BY <1>10 DEF RecreateView
<1>11. ASSUME NEW d \in Dashboards, RecreateViewFails(d) PROVE OnlyTheLoopRefreshes'
  BY <1>11 DEF RecreateViewFails, EndJob
<1>12. CASE ViewsRecreated
  BY <1>12 DEF ViewsRecreated
<1>13. CASE PromoteStandby \/ PromoteRaises
  BY <1>13 DEF PromoteStandby, PromoteRaises, Swapped, EndJob
<1>14. CASE PromoteFails
  BY <1>14 DEF PromoteFails, EndJob
<1>15. ASSUME NEW s \in Sources, RemoveSource(s) PROVE OnlyTheLoopRefreshes'
  BY <1>15 DEF RemoveSource
<1>16. ASSUME NEW def \in Defs, LoadDashboard(def) PROVE OnlyTheLoopRefreshes'
  BY <1>16 DEF LoadDashboard
<1>17. ASSUME NEW d \in Dashboards, RemoveDashboard(d) PROVE OnlyTheLoopRefreshes'
  BY <1>17 DEF RemoveDashboard
<1>18. CASE Crash \/ CrashUnreadable
  BY <1>18 DEF Crash, CrashUnreadable, Restart
<1>19. CASE StartupRefreshed
  BY <1>19 DEF StartupRefreshed
<1>20. ASSUME NEW d \in Dashboards, ReloadDashboard(d) PROVE OnlyTheLoopRefreshes'
  BY <1>20 DEF ReloadDashboard
<1>21. CASE Started
  BY <1>21 DEF Started
<1>22. CASE UNCHANGED vars
  BY <1>22 DEF vars
<1>23. QED
  BY <1>1, <1>2, <1>3, <1>4, <1>5, <1>6, <1>7, <1>8, <1>9, <1>10, <1>11, <1>12,
     <1>13, <1>14, <1>15, <1>16, <1>17, <1>18, <1>19, <1>20, <1>21, <1>22
     DEF Next, Step, Handlers, Worker, Startup

\* While the loop is free, or reloads, nothing is recreated.
LEMMA NoJobBesideHandlers ==
  ASSUME OneForTheLoop, OnlyTheLoopRefreshes, loop.op \in {"free", "reloading"}
  PROVE  job.pc = "none"
  BY DEF OneForTheLoop, OnlyTheLoopRefreshes, LoopRuns, Waiting

\* A definition that is loaded takes its view, and no other dashboard's.
LEMMA LoadKeepsOthers ==
  ASSUME ViewTypes, DistinctViews, FiledByName, ServedFrom(active, Loaded), steady,
         NEW def \in Defs, LoadYaml(def), active' = active
  PROVE  ServedFrom(active, Loaded)'
<1>1. SUFFICES ASSUME NEW d \in Dashboards, dashboards'[d] # NoDef
               PROVE  view'[active][dashboards'[d].view] = dashboards'[d]
  BY DEF ServedFrom, Loaded
<1>2. /\ def.valid /\ def.dash \in Dashboards
      /\ dashboards' = [dashboards EXCEPT ![def.dash] = def]
      /\ view' = [view EXCEPT ![active] =
                    [v \in Views |-> CASE v = def.view -> def
                                       [] def.valid /\ v \in Renamed(def) -> NoDef
                                       [] OTHER -> view[active][v]]]
  BY DefsAssumption DEF LoadYaml
<1>3. \A v \in Views : /\ v = def.view => view'[active][v] = def
                       /\ v # def.view /\ v \notin Renamed(def)
                             => view'[active][v] = view[active][v]
  <2>1. active \in DOMAIN view
    BY DEF ViewTypes
  <2>2. view'[active] = [v \in Views |-> CASE v = def.view -> def
                                          [] def.valid /\ v \in Renamed(def) -> NoDef
                                          [] OTHER -> view[active][v]]
    BY ONLY <1>2, <2>1
  <2>3. ASSUME NEW v \in Views
        PROVE  view'[active][v] = CASE v = def.view -> def
                                    [] def.valid /\ v \in Renamed(def) -> NoDef
                                    [] OTHER -> view[active][v]
    BY ONLY <2>2
  <2>4. ASSUME NEW v \in Views, v # def.view, v \notin Renamed(def)
        PROVE  view'[active][v] = view[active][v]
    BY <2>3, <2>4
  <2>5. ASSUME NEW v \in Views, v = def.view, v \notin Renamed(def)
        PROVE  view'[active][v] = def
    BY <2>3, <2>5
  <2>6. def.view \notin Renamed(def)
    BY DEF Renamed
  <2>7. QED
    BY <2>4, <2>5, <2>6
<1>4. CASE d = def.dash
  BY <1>2, <1>3, <1>4, ZenonT(30) DEF ViewTypes, Views
<1>5. CASE d # def.dash
  <2>1. dashboards'[d] = dashboards[d] /\ d \in Loaded
    BY <1>1, <1>2, <1>5 DEF ViewTypes, Loaded
  <2>2. dashboards[d] \in Defs /\ dashboards[d].dash = d
    BY <2>1 DEF FiledByName
  <2>3. dashboards[d].view # def.view
    BY <2>2, <1>5 DEF DistinctViews
  <2>4. dashboards[d].view \notin Renamed(def)
    <3>1. ASSUME dashboards[def.dash] # NoDef
          PROVE  dashboards[def.dash].view # dashboards[d].view
      BY <1>2, <1>5, <2>2, <3>1 DEF FiledByName, Loaded, DistinctViews
    <3>2. QED
      BY <3>1 DEF Renamed
  <2>5. dashboards[d].view \in Views
    BY <2>2 DEF Views
  <2>6. QED
    BY <1>3, <2>1, <2>3, <2>4, <2>5 DEF ServedFrom
<1>6. QED
  BY <1>4, <1>5

\* What has been recreated stays until the promotion, which serves it.
LEMMA ServedStep ==
  ASSUME Types, ViewTypes, OneForTheLoop, DistinctViews, FiledByName, steady,
         OnlyTheLoopRefreshes, RecreatedByJob, ServedFrom(active, Loaded), [Next]_vars
  PROVE  RecreatedByJob' /\ ServedFrom(active, Loaded)'
<1>0. (active = "a" \/ active = "b") /\ Standby \in Slots /\ Standby # active
  BY DEF Types, Slots, Standby
<1>. DEFINE Goal == RecreatedByJob' /\ ServedFrom(active, Loaded)'
<1>1. ASSUME UNCHANGED <<dashboards, active, view>>, job' = job \/ job'.pc \in {"none", "loading"}
      PROVE  Goal
  BY <1>1 DEF RecreatedByJob, ServedFrom, Loaded, Standby
<1>2. ASSUME NEW s \in Sources, NEW kind \in Kinds, Register(s, kind) PROVE Goal
  BY <1>1, <1>2 DEF Register, slotVars
<1>3. CASE TriggerRefresh
  BY <1>1, <1>3 DEF TriggerRefresh, slotVars, registryVars
<1>4. CASE ScheduledRefresh
  BY <1>4 DEF ScheduledRefresh
<1>5. CASE Continue
  BY <1>1, <1>5 DEF Continue, Return, DropObject, SaveSources, registryVars, slotVars
<1>6. CASE StartJob
  BY <1>1, <1>6 DEF StartJob, slotVars, registryVars
<1>7. CASE IterationFails
  BY <1>1, <1>7 DEF IterationFails, EndJob, NoJob, slotVars, registryVars
<1>8. ASSUME NEW s \in Sources, LoadSource(s) PROVE Goal
  <2>1. job'.pc = "loading"
    BY <1>8 DEF LoadSource, Types, JobStates
  <2>2. QED
    BY <1>1, <1>8, <2>1 DEF LoadSource, registryVars
<1>9. ASSUME NEW s \in Sources, LoadSourceFails(s) PROVE Goal
  BY <1>1, <1>9 DEF LoadSourceFails, EndJob, NoJob, registryVars
<1>10. CASE SourcesLoaded
  <2>1. job'.done = {} /\ job'.pc = "views"
    BY <1>10 DEF SourcesLoaded, Types, JobStates
  <2>2. UNCHANGED <<dashboards, active, view>>
    BY <1>10 DEF SourcesLoaded, registryVars, slotVars
  <2>3. QED
    BY <2>1, <2>2 DEF RecreatedByJob, ServedFrom, Loaded
<1>11. ASSUME NEW d \in Dashboards, RecreateView(d) PROVE Goal
  <2>1. /\ UNCHANGED <<dashboards, active>> /\ d \in Loaded
        /\ job.pc = "views" /\ job'.pc = "views" /\ job'.done = job.done \cup {d}
        /\ view' = [view EXCEPT ![Standby][dashboards[d].view] = dashboards[d]]
    BY <1>11 DEF RecreateView, registryVars, Types, JobStates
  <2>2. UNCHANGED <<Standby, Loaded>>
    BY <2>1 DEF Standby, Loaded
  <2>3. \A e \in Loaded : dashboards[e].view \in Views
    BY DEF FiledByName, Views
  <2>4. view'[active] = view[active]
    BY <1>0, <2>1 DEF ViewTypes
  <2>5. /\ view'[Standby][dashboards[d].view] = dashboards[d]
        /\ \A v \in Views : v # dashboards[d].view => view'[Standby][v] = view[Standby][v]
    BY <1>0, <2>1, <2>3 DEF ViewTypes
  <2>6. \A e \in Loaded : dashboards[e].view = dashboards[d].view => e = d
    BY <2>1 DEF FiledByName, DistinctViews
  <2>7. \A e \in Loaded \cap job'.done : view'[Standby][dashboards[e].view] = dashboards[e]
    BY <2>1, <2>3, <2>5, <2>6 DEF RecreatedByJob, ServedFrom
  <2>8. RecreatedByJob'
    BY <2>1, <2>2, <2>7 DEF RecreatedByJob, ServedFrom
  <2>9. QED
    BY <2>1, <2>2, <2>4, <2>8 DEF ServedFrom
<1>12. ASSUME NEW d \in Dashboards, RecreateViewFails(d) PROVE Goal
  BY <1>1, <1>12 DEF RecreateViewFails, EndJob, NoJob, registryVars, slotVars
<1>13. CASE ViewsRecreated
  <2>1. /\ job.pc = "views" /\ job'.pc = "promote" /\ Loaded \subseteq job.done
        /\ UNCHANGED <<dashboards, active, view>>
    BY <1>13 DEF ViewsRecreated, registryVars, slotVars, Types, JobStates
  <2>2. UNCHANGED <<Standby, Loaded>>
    BY <2>1 DEF Standby, Loaded
  <2>3. QED
    BY <2>1, <2>2 DEF RecreatedByJob, ServedFrom
<1>14. CASE PromoteStandby \/ PromoteRaises
  <2>1. /\ job.pc = "promote" /\ job'.pc = "none" /\ active' = Standby
        /\ UNCHANGED <<dashboards, view>>
    BY <1>14 DEF PromoteStandby, PromoteRaises, Swapped, EndJob, NoJob
  <2>2. Loaded' = Loaded
    BY <2>1 DEF Loaded
  <2>3. QED
    BY <2>1, <2>2 DEF RecreatedByJob, ServedFrom
<1>15. CASE PromoteFails
  BY <1>1, <1>15 DEF PromoteFails, EndJob, NoJob, registryVars, slotVars
<1>16. ASSUME NEW s \in Sources, RemoveSource(s) PROVE Goal
  BY <1>1, <1>16 DEF RemoveSource, slotVars
<1>17. ASSUME NEW def \in Defs, LoadDashboard(def) PROVE Goal
  <2>1. job.pc = "none" /\ job' = job /\ active' = active /\ LoadYaml(def)
    BY <1>17, NoJobBesideHandlers DEF LoadDashboard, Free
  <2>2. QED
    BY <2>1, LoadKeepsOthers DEF RecreatedByJob
<1>18. ASSUME NEW d \in Dashboards, RemoveDashboard(d) PROVE Goal
  <2>1. /\ job.pc = "none" /\ job' = job /\ active' = active /\ d \in Loaded
        /\ dashboards' = [dashboards EXCEPT ![d] = NoDef]
        /\ view' = [view EXCEPT ![active][dashboards[d].view] = NoDef]
    BY <1>18, NoJobBesideHandlers DEF RemoveDashboard, Free
  <2>2. ASSUME NEW e \in Loaded'
        PROVE  e \in Loaded /\ e # d /\ dashboards'[e] = dashboards[e]
    BY <2>1, <2>2 DEF Loaded, ViewTypes
  <2>3. ASSUME NEW e \in Loaded'
        PROVE  view'[active][dashboards[e].view] = view[active][dashboards[e].view]
    <3>1. dashboards[e].view # dashboards[d].view
      BY <2>1, <2>2, <2>3 DEF FiledByName, DistinctViews
    <3>2. dashboards[e].view \in Views
      BY <2>2, <2>3 DEF FiledByName, Views
    <3>3. QED
      BY <2>1, <3>1, <3>2 DEF ViewTypes
  <2>4. QED
    BY <2>1, <2>2, <2>3 DEF RecreatedByJob, ServedFrom
<1>19. CASE Crash \/ CrashUnreadable
  <2>1. Loaded' = {} /\ job'.pc = "none"
    BY <1>19 DEF Crash, CrashUnreadable, Restart, Loaded, NoJob
  <2>2. QED
    BY <2>1 DEF RecreatedByJob, ServedFrom
<1>20. CASE StartupRefreshed
  BY <1>1, <1>20 DEF StartupRefreshed, registryVars, slotVars
<1>21. ASSUME NEW d \in Dashboards, ReloadDashboard(d) PROVE Goal
  <2>1. job.pc = "none" /\ job' = job /\ active' = active
    BY <1>21, NoJobBesideHandlers DEF ReloadDashboard
  <2>2. CASE UNCHANGED <<view, dashboards>>
    BY <2>1, <2>2, <1>1
  <2>3. ASSUME NEW def \in Defs, LoadYaml(def) PROVE Goal
    BY <2>1, <2>3, LoadKeepsOthers DEF RecreatedByJob
  <2>4. QED
    BY <1>21, <2>2, <2>3 DEF ReloadDashboard
<1>22. CASE Started
  BY <1>1, <1>22 DEF Started, registryVars, slotVars
<1>23. CASE UNCHANGED vars
  BY <1>1, <1>23 DEF vars, registryVars, slotVars
<1>24. QED
  BY <1>2, <1>3, <1>4, <1>5, <1>6, <1>7, <1>8, <1>9, <1>10, <1>11, <1>12, <1>13,
     <1>14, <1>15, <1>16, <1>17, <1>18, <1>19, <1>20, <1>21, <1>22, <1>23
     DEF Next, Step, Handlers, Worker, Startup

\* The view invariant is inductive relative to the invariant of the refresh.
LEMMA ViewsInvStep ==
  ASSUME DistinctViews, Inv, ViewTypes, ViewsInv, [Next]_vars
  PROVE  ViewsInv'
<1>1. FiledByName'
  BY FiledStep DEF ViewsInv
<1>2. steady' = steady
  BY DEF Next, vars
<1>3. ASSUME steady
      PROVE  OnlyTheLoopRefreshes' /\ RecreatedByJob' /\ ServedFrom(active, Loaded)'
  BY <1>3, OnlyTheLoopStep, ServedStep DEF Inv, ViewsInv
<1>4. QED
  BY <1>1, <1>2, <1>3 DEF ViewsInv

\* Readers find the base view of every loaded dashboard, in the definition that
\* is loaded, in the slot that serves, whatever refreshes, reloads, removals
\* and crashes do, if no two files share the name of a view.
THEOREM DashboardsAreServed ==
  ASSUME DistinctViews PROVE Spec => []ViewsServed
<1>1. Init => ViewsInv
  BY DEF Init, ViewsInv, FiledByName, OnlyTheLoopRefreshes, RecreatedByJob, ServedFrom,
         Loaded, NoJob
<1>2. ViewTypes /\ [Next]_vars => ViewTypes'
  BY ViewTypesStep
<1>3. Inv /\ ViewTypes /\ ViewsInv /\ [Next]_vars => ViewsInv'
  BY ViewsInvStep
<1>4. ViewsInv => ViewsServed
  BY DEF ViewsInv, ViewsServed, ServedFrom
<1>5. QED
  BY <1>1, <1>2, <1>3, <1>4, InvInit, InvStep, PTL DEF Spec

-----------------------------------------------------------------------------

\* A refresh works on the standby: until it is promoted no step of it, its
\* failure and a crash in it included, changes what readers see.
THEOREM RefreshesAreInvisible == Spec => RefreshIsInvisible
<1>. DEFINE Invisible == job # job' /\ active = active'
                            => UNCHANGED <<object[active], view[active]>>
<1>1. ASSUME Inv, ViewTypes, [Next]_vars PROVE [Invisible]_vars
  <2>0. (active = "a" \/ active = "b") /\ Standby \in Slots /\ Standby # active
    BY <1>1 DEF Inv, Types, Slots, Standby
  <2>1. CASE UNCHANGED vars
    BY <2>1
  <2>2. CASE Handlers
    BY <2>2 DEF Handlers, RemoveSource, Register, TriggerRefresh, LoadDashboard,
       RemoveDashboard
  <2>3. CASE ScheduledRefresh \/ Continue \/ Startup
    BY <2>3 DEF ScheduledRefresh, Continue, Return, DropObject, SaveSources, Startup,
       StartupRefreshed, Started, ReloadDashboard
  <2>4. CASE Crash \/ CrashUnreadable
    BY <2>4 DEF Crash, CrashUnreadable, Restart
  <2>5. CASE StartJob \/ IterationFails \/ SourcesLoaded \/ ViewsRecreated \/ PromoteFails
    BY <2>5 DEF StartJob, IterationFails, SourcesLoaded, ViewsRecreated, PromoteFails,
       slotVars
  <2>6. ASSUME NEW s \in Sources, LoadSource(s) \/ LoadSourceFails(s) PROVE Invisible
    BY <2>0, <2>6, <1>1 DEF LoadSource, LoadSourceFails, Inv, Types
  <2>7. ASSUME NEW d \in Dashboards, RecreateView(d) \/ RecreateViewFails(d)
        PROVE  Invisible
    BY <2>0, <2>7, <1>1 DEF ViewTypes, RecreateView, RecreateViewFails, slotVars
  <2>8. CASE PromoteStandby \/ PromoteRaises
    BY <2>0, <2>8 DEF PromoteStandby, PromoteRaises, Swapped
  <2>9. QED
    BY <1>1, <2>1, <2>2, <2>3, <2>4, <2>5, <2>6, <2>7, <2>8 DEF Next, Step, Worker
<1>2. ViewTypes /\ [Next]_vars => ViewTypes'
  BY ViewTypesStep
<1>3. QED
  BY <1>1, <1>2, InvInit, InvStep, PTL DEF Spec, RefreshIsInvisible
=============================================================================
