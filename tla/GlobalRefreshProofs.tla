------------------------- MODULE GlobalRefreshProofs -------------------------
(***************************************************************************)
(* Theorems about GlobalRefresh for any sources, dashboards and number of  *)
(* refreshes: readers join tables of one refresh.                          *)
(***************************************************************************)
EXTENDS GlobalRefresh, FiniteSetTheorems, SequenceTheorems, TLAPS

(***************************************************************************)
(* The inductive invariant. OneGeneration is about what readers may count   *)
(* on; what a step keeps of it is that a refresh, before it goes on to the *)
(* views, has loaded into the standby all that has to be there.            *)
(***************************************************************************)

\* The part of TypeOK the invariant needs, and the rest of it.
Types ==
    /\ sources \in [Sources -> Kinds \cup {"none"}]
    /\ savedSources \in [Sources -> Kinds \cup {"none"}]
    /\ savedDashboards \subseteq Dashboards
    /\ revived \subseteq Sources
    /\ active \in Slots
    /\ marker \in Slots
    /\ object \in [Slots -> [Sources -> Objects]]
    /\ loop \in LoopStates
    /\ queue \in Seq([origin : Origins, run : 1..MaxRuns])
    /\ job \in JobStates
    /\ run \in 0..MaxRuns

ViewTypes ==
    /\ dashboards \in [Dashboards -> Defs \cup {NoDef}]
    /\ active \in Slots
    /\ marker \in Slots
    /\ view \in [Slots -> [Views -> Defs \cup {NoDef}]]
    /\ crashes \in 0..MaxCrashes

Waiting == loop.op \in {"register", "refresh", "starting"} /\ loop.answer = "none"
LoopRuns == job.pc # "none" /\ job.origin = "loop"

\* The loop has at most one refresh under way, queued or running, and waits
\* for it as long as it is.
OneForTheLoop ==
    /\ \A i \in DOMAIN queue : queue[i].origin = "loop" => Waiting /\ ~LoopRuns
    /\ \A i, j \in DOMAIN queue :
          queue[i].origin = "loop" /\ queue[j].origin = "loop" => i = j
    /\ LoopRuns => Waiting

\* The handler that is under way has entered or removed its source.
LoopsSource ==
    /\ loop.op = "register" => sources[loop.src] # "none"
    /\ loop.op = "remove" => sources[loop.src] = "none"

\* The sources that stay registered whatever the loop's refresh comes to.
Kept == IF LoopRuns THEN Registered ELSE Registered \ New

LoadedByJob(names) ==
    \A s \in names : object[Standby][s] # NoObject /\ object[Standby][s].run = job.run

LoadedTogether(names) ==
    \A s, t \in names : /\ object[active][s] # NoObject
                        /\ object[active][s].run = object[active][t].run

\* A refresh has loaded what it has done, and before it goes on to the views
\* everything that has to be in the slot it promotes.
StandbyComplete ==
    /\ job.pc = "loading" => LoadedByJob(job.done)
    /\ job.pc \in {"views", "promote"} => LoadedByJob(Kept)

ActiveComplete == LoadedTogether(Settled)

MarkerFollows == marker = active

Inv == Types /\ OneForTheLoop

GenerationInv == LoopsSource /\ StandbyComplete /\ ActiveComplete /\ MarkerFollows

\* A queue of one refresh.
LEMMA Singleton == ASSUME NEW S, NEW x \in S PROVE <<x>> \in Seq(S)
  OBVIOUS

\* The iteration counts are numbers.
LEMMA Counted ==
  /\ Cardinality(Registered) \in Nat /\ Cardinality(Loaded) \in Nat
  /\ Cardinality(Registered)' \in Nat /\ Cardinality(Loaded)' \in Nat
  BY FiniteAssumption, FS_Subset, FS_CardinalityType DEF Registered, Loaded

\* Every step keeps the types.
LEMMA TypesStep ==
  ASSUME Types, [Next]_vars
  PROVE  Types'
<1> USE Counted, KindsAssumption, BoundsAssumption
    DEF Types, LoopStates, JobStates, Answers, Origins, Objects, Slots,
        Standby, Made, Free, NoJob, NoObject, registryVars, savedVars, slotVars
<1>1. ASSUME NEW s \in Sources, NEW kind \in Kinds, Register(s, kind)
      PROVE  Types'
  BY <1>1 DEF Register, Submit
<1>2. CASE TriggerRefresh
  BY <1>2 DEF TriggerRefresh, Submit
<1>3. CASE ScheduledRefresh
  BY <1>3, SMTT(30) DEF ScheduledRefresh, Submit
<1>4. CASE Return
  <2>1. savedSources' \in [Sources -> Kinds \cup {"none"}]
    BY <1>4 DEF Return, Written
  <2>2. QED
    BY <1>4, <2>1 DEF Return
<1>5. CASE StartJob
  <2>1. Head(queue) \in [origin : Origins, run : 1..MaxRuns]
    BY <1>5, HeadTailProperties DEF StartJob
  <2>2. Tail(queue) \in Seq([origin : Origins, run : 1..MaxRuns])
    BY <1>5, HeadTailProperties DEF StartJob
  <2>3. QED
    BY <1>5, <2>1, <2>2 DEF StartJob
<1>6. CASE IterationFails
  BY <1>6 DEF IterationFails, Resized, EndJob
<1>7. ASSUME NEW s \in Sources, LoadSource(s)
      PROVE  Types'
  <2>1. object' \in [Slots -> [Sources -> Objects]]
    <3>1. /\ object' = [object EXCEPT ![Standby][s] =
                                     [kind |-> Made(sources[s]), run |-> job.run]]
          /\ [kind |-> Made(sources[s]), run |-> job.run] \in Objects
      BY <1>7 DEF LoadSource
    <3>2. object \in [Slots -> [Sources -> Objects]] /\ Standby \in Slots
      OBVIOUS
    <3> HIDE DEF Objects, Made, Standby
    <3> QED BY ONLY <1>7, <3>1, <3>2
  <2>2. job' \in JobStates
    BY <1>7 DEF LoadSource
  <2>3. QED
    BY <1>7, <2>1, <2>2 DEF LoadSource
<1>8. ASSUME NEW s \in Sources, LoadSourceFails(s)
      PROVE  Types'
  <2>1. object' \in [Slots -> [Sources -> Objects]]
    <3>1. CASE UNCHANGED object
      BY <3>1
    <3>2. CASE object' = [object EXCEPT ![Standby][s] = NoObject]
      <4>1. object \in [Slots -> [Sources -> Objects]] /\ Standby \in Slots
            /\ NoObject \in Objects
        OBVIOUS
      <4> QED BY ONLY <1>8, <3>2, <4>1
    <3> QED BY <1>8, <3>1, <3>2 DEF LoadSourceFails
  <2>2. job' \in JobStates /\ loop' \in LoopStates
    BY <1>8 DEF LoadSourceFails, EndJob
  <2>3. QED
    BY <1>8, <2>1, <2>2 DEF LoadSourceFails, EndJob
<1>9. CASE SourcesLoaded
  BY <1>9 DEF SourcesLoaded
<1>10. ASSUME NEW d \in Dashboards, RecreateView(d)
      PROVE  Types'
  BY <1>10 DEF RecreateView
<1>11. ASSUME NEW d \in Dashboards, RecreateViewFails(d)
      PROVE  Types'
  BY <1>11 DEF RecreateViewFails, EndJob
<1>12. CASE ViewsRecreated
  BY <1>12 DEF ViewsRecreated
<1>13. CASE PromoteStandby
  BY <1>13 DEF PromoteStandby, Swapped, EndJob
<1>14. CASE PromoteRaises
  BY <1>14 DEF PromoteRaises, Swapped, EndJob
<1>15. CASE PromoteFails
  BY <1>15 DEF PromoteFails, EndJob
<1>16. ASSUME NEW s \in Sources, RemoveSource(s)
      PROVE  Types'
  BY <1>16 DEF RemoveSource
<1>17. CASE DropObject
  <2>1. NoObject \in Objects
    BY BoundsAssumption DEF NoObject, Objects
  <2>2. object' \in [Slots -> [Sources -> Objects]]
    BY ONLY <1>17, <2>1, object \in [Slots -> [Sources -> Objects]] DEF DropObject
  <2>3. QED
    BY <1>17, <2>2 DEF DropObject
<1>18. CASE SaveSources
  <2>1. savedSources' \in [Sources -> Kinds \cup {"none"}]
    BY <1>18 DEF SaveSources, Written
  <2>2. QED
    BY <1>18, <2>1 DEF SaveSources
<1>19. ASSUME NEW def \in Defs, LoadDashboard(def)
      PROVE  Types'
  <2>1. savedDashboards' \subseteq Dashboards
    BY <1>19, DefsAssumption DEF LoadDashboard, WrittenFiles, Loaded
  <2>2. QED
    BY <1>19, <2>1 DEF LoadDashboard
<1>20. ASSUME NEW d \in Dashboards, RemoveDashboard(d)
      PROVE  Types'
  <2>1. savedDashboards' \subseteq Dashboards
    BY <1>20 DEF RemoveDashboard, WrittenFiles, Loaded
  <2>2. QED
    BY <1>20, <2>1 DEF RemoveDashboard
<1>21. CASE Crash
  <2>1. ASSUME \E src \in Sources : savedSources[src] # "none"
        PROVE  queue' \in Seq([origin : Origins, run : 1..MaxRuns])
    <3>1. [origin |-> "loop", run |-> run + 1] \in [origin : Origins, run : 1..MaxRuns]
      BY <1>21, <2>1 DEF Crash
    <3>2. queue' = <<[origin |-> "loop", run |-> run + 1]>>
      BY <1>21, <2>1 DEF Crash
    <3>3. QED
      BY ONLY <3>1, <3>2, Singleton
  <2>2. ASSUME ~\E src \in Sources : savedSources[src] # "none"
        PROVE  queue' \in Seq([origin : Origins, run : 1..MaxRuns])
    <3>1. queue' = <<>>
      BY <1>21, <2>2 DEF Crash
    <3>2. QED
      BY ONLY <3>1
  <2>3. queue' \in Seq([origin : Origins, run : 1..MaxRuns])
    BY <2>1, <2>2
  <2>4. loop' \in LoopStates /\ revived' \subseteq Sources /\ run' \in 0..MaxRuns
    BY <1>21 DEF Crash, Restart
  <2>5. QED
    BY <1>21, <2>3, <2>4 DEF Crash, Restart
<1>22. CASE CrashUnreadable
  <2>1. sources' \in [Sources -> Kinds \cup {"none"}]
    BY <1>22 DEF CrashUnreadable, Restart
  <2>2. queue' \in Seq([origin : Origins, run : 1..MaxRuns])
    BY <1>22 DEF CrashUnreadable
  <2>3. QED
    BY <1>22, <2>1, <2>2 DEF CrashUnreadable, Restart
<1>23. CASE StartupRefreshed
  BY <1>23 DEF StartupRefreshed
<1>24. ASSUME NEW d \in Dashboards, ReloadDashboard(d)
      PROVE  Types'
  BY <1>24 DEF ReloadDashboard
<1>25. CASE Started
  BY <1>25 DEF Started
<1>26. CASE UNCHANGED vars
  BY <1>26 DEF vars
<1>27. QED
  BY <1>1, <1>2, <1>3, <1>4, <1>5, <1>6, <1>7, <1>8, <1>9, <1>10, <1>11,
     <1>12, <1>13, <1>14, <1>15, <1>16, <1>17, <1>18, <1>19, <1>20, <1>21,
     <1>22, <1>23, <1>24, <1>25, <1>26
     DEF Next, Step, Handlers, Worker, Continue, Startup

\* Definitions and base views keep their types.
LEMMA ViewTypesStep ==
  ASSUME ViewTypes, [Next]_vars
  PROVE  ViewTypes'
<1> USE DefsAssumption, BoundsAssumption
    DEF ViewTypes, Slots, Standby, Loaded, Views, LoadYaml, registryVars,
        savedVars, slotVars
<1>1. ASSUME NEW s \in Sources, NEW kind \in Kinds, Register(s, kind)
      PROVE  ViewTypes'
  BY <1>1 DEF Register, Submit
<1>2. CASE TriggerRefresh
  BY <1>2 DEF TriggerRefresh, Submit
<1>3. CASE ScheduledRefresh
  BY <1>3 DEF ScheduledRefresh, Submit
<1>4. CASE Return
  BY <1>4 DEF Return
<1>5. CASE StartJob
  BY <1>5 DEF StartJob
<1>6. CASE IterationFails
  BY <1>6 DEF IterationFails, Resized, EndJob
<1>7. ASSUME NEW s \in Sources, LoadSource(s)
      PROVE  ViewTypes'
  BY <1>7 DEF LoadSource
<1>8. ASSUME NEW s \in Sources, LoadSourceFails(s)
      PROVE  ViewTypes'
  BY <1>8 DEF LoadSourceFails, EndJob
<1>9. CASE SourcesLoaded
  BY <1>9 DEF SourcesLoaded
<1>10. ASSUME NEW d \in Dashboards, RecreateView(d)
      PROVE  ViewTypes'
  BY <1>10 DEF RecreateView
<1>11. ASSUME NEW d \in Dashboards, RecreateViewFails(d)
      PROVE  ViewTypes'
  BY <1>11 DEF RecreateViewFails, EndJob
<1>12. CASE ViewsRecreated
  BY <1>12 DEF ViewsRecreated
<1>13. CASE PromoteStandby
  BY <1>13 DEF PromoteStandby, Swapped, EndJob
<1>14. CASE PromoteRaises
  BY <1>14 DEF PromoteRaises, Swapped, EndJob
<1>15. CASE PromoteFails
  BY <1>15 DEF PromoteFails, EndJob
<1>16. ASSUME NEW s \in Sources, RemoveSource(s)
      PROVE  ViewTypes'
  BY <1>16 DEF RemoveSource
<1>17. CASE DropObject
  BY <1>17 DEF DropObject
<1>18. CASE SaveSources
  BY <1>18 DEF SaveSources
<1>19. ASSUME NEW def \in Defs, LoadDashboard(def)
      PROVE  ViewTypes'
  BY <1>19 DEF LoadDashboard
<1>20. ASSUME NEW d \in Dashboards, RemoveDashboard(d)
      PROVE  ViewTypes'
  BY <1>20 DEF RemoveDashboard, Loaded
<1>21. CASE Crash
  BY <1>21 DEF Crash, Restart
<1>22. CASE CrashUnreadable
  BY <1>22 DEF CrashUnreadable, Restart
<1>23. CASE StartupRefreshed
  BY <1>23 DEF StartupRefreshed
<1>24. ASSUME NEW d \in Dashboards, ReloadDashboard(d)
      PROVE  ViewTypes'
  BY <1>24 DEF ReloadDashboard
<1>25. CASE Started
  BY <1>25 DEF Started
<1>26. CASE UNCHANGED vars
  BY <1>26 DEF vars
<1>27. QED
  BY <1>1, <1>2, <1>3, <1>4, <1>5, <1>6, <1>7, <1>8, <1>9, <1>10, <1>11,
     <1>12, <1>13, <1>14, <1>15, <1>16, <1>17, <1>18, <1>19, <1>20, <1>21,
     <1>22, <1>23, <1>24, <1>25, <1>26
     DEF Next, Step, Handlers, Worker, Continue, Startup

\* A handler does not ask for a second refresh before its first is over.
LEMMA OneForTheLoopStep ==
  ASSUME Types, OneForTheLoop, [Next]_vars
  PROVE  OneForTheLoop'
<1> USE DEF Types, OneForTheLoop, Waiting, LoopRuns, LoopStates, JobStates,
        Answers, Origins, Free, NoJob, registryVars, savedVars, slotVars
<1>1. ASSUME NEW s \in Sources, NEW kind \in Kinds, Register(s, kind)
      PROVE  OneForTheLoop'
  BY <1>1 DEF Register, Submit
<1>2. CASE TriggerRefresh
  BY <1>2 DEF TriggerRefresh, Submit
<1>3. CASE ScheduledRefresh
  BY <1>3 DEF ScheduledRefresh, Submit
<1>4. CASE Return
  BY <1>4 DEF Return
<1>5. CASE StartJob
  <2>1. /\ 1 \in DOMAIN queue
        /\ Head(queue) = queue[1]
        /\ \A i \in DOMAIN Tail(queue) :
              i + 1 \in DOMAIN queue /\ Tail(queue)[i] = queue[i + 1]
    BY <1>5, HeadTailProperties DEF StartJob
  <2>2. /\ job' # NoJob /\ job'.pc = "loading"
        /\ job'.origin = queue[1].origin
        /\ queue' = Tail(queue)
        /\ loop' = loop
    BY <1>5, <2>1 DEF StartJob
  <2>3. ASSUME NEW i \in DOMAIN queue', queue'[i].origin = "loop"
        PROVE  Waiting' /\ ~LoopRuns'
    <3>1. i + 1 \in DOMAIN queue /\ queue[i + 1].origin = "loop"
      BY <2>1, <2>2, <2>3
    <3>2. i \in Nat /\ i > 0
      BY <2>1, <2>2, <1>5, HeadTailProperties DEF StartJob
    <3>3. Waiting /\ queue[1].origin # "loop"
      BY <2>1, <3>1, <3>2 DEF OneForTheLoop
    <3>4. QED
      BY <2>2, <3>3 DEF Waiting, LoopRuns
  <2>4. ASSUME NEW i \in DOMAIN queue', NEW j \in DOMAIN queue',
               queue'[i].origin = "loop", queue'[j].origin = "loop"
        PROVE  i = j
    <3>1. i + 1 \in DOMAIN queue /\ queue[i + 1].origin = "loop"
      BY <2>1, <2>2, <2>4
    <3>2. j + 1 \in DOMAIN queue /\ queue[j + 1].origin = "loop"
      BY <2>1, <2>2, <2>4
    <3>3. i \in Nat /\ j \in Nat
      BY <2>1, <2>2, <1>5, HeadTailProperties, SMTT(30) DEF StartJob
    <3>4. QED
      BY <3>1, <3>2, <3>3 DEF OneForTheLoop
  <2>5. LoopRuns' => Waiting'
    BY <2>1, <2>2 DEF OneForTheLoop, LoopRuns, Waiting
  <2>6. QED
    BY <2>3, <2>4, <2>5 DEF OneForTheLoop
<1>6. CASE IterationFails
  BY <1>6 DEF IterationFails, Resized, EndJob
<1>7. ASSUME NEW s \in Sources, LoadSource(s)
      PROVE  OneForTheLoop'
  BY <1>7 DEF LoadSource
<1>8. ASSUME NEW s \in Sources, LoadSourceFails(s)
      PROVE  OneForTheLoop'
  BY <1>8 DEF LoadSourceFails, EndJob
<1>9. CASE SourcesLoaded
  BY <1>9 DEF SourcesLoaded
<1>10. ASSUME NEW d \in Dashboards, RecreateView(d)
      PROVE  OneForTheLoop'
  BY <1>10 DEF RecreateView
<1>11. ASSUME NEW d \in Dashboards, RecreateViewFails(d)
      PROVE  OneForTheLoop'
  BY <1>11 DEF RecreateViewFails, EndJob
<1>12. CASE ViewsRecreated
  BY <1>12 DEF ViewsRecreated
<1>13. CASE PromoteStandby
  BY <1>13 DEF PromoteStandby, Swapped, EndJob
<1>14. CASE PromoteRaises
  BY <1>14 DEF PromoteRaises, Swapped, EndJob
<1>15. CASE PromoteFails
  BY <1>15 DEF PromoteFails, EndJob
<1>16. ASSUME NEW s \in Sources, RemoveSource(s)
      PROVE  OneForTheLoop'
  BY <1>16 DEF RemoveSource
<1>17. CASE DropObject
  BY <1>17 DEF DropObject
<1>18. CASE SaveSources
  BY <1>18 DEF SaveSources
<1>19. ASSUME NEW def \in Defs, LoadDashboard(def)
      PROVE  OneForTheLoop'
  BY <1>19 DEF LoadDashboard
<1>20. ASSUME NEW d \in Dashboards, RemoveDashboard(d)
      PROVE  OneForTheLoop'
  BY <1>20 DEF RemoveDashboard, Loaded
<1>21. CASE Crash
  BY <1>21 DEF Crash, Restart
<1>22. CASE CrashUnreadable
  BY <1>22 DEF CrashUnreadable, Restart
<1>23. CASE StartupRefreshed
  BY <1>23 DEF StartupRefreshed
<1>24. ASSUME NEW d \in Dashboards, ReloadDashboard(d)
      PROVE  OneForTheLoop'
  BY <1>24 DEF ReloadDashboard
<1>25. CASE Started
  BY <1>25 DEF Started
<1>26. CASE UNCHANGED vars
  BY <1>26 DEF vars
<1>27. QED
  BY <1>1, <1>2, <1>3, <1>4, <1>5, <1>6, <1>7, <1>8, <1>9, <1>10, <1>11,
     <1>12, <1>13, <1>14, <1>15, <1>16, <1>17, <1>18, <1>19, <1>20, <1>21,
     <1>22, <1>23, <1>24, <1>25, <1>26
     DEF Next, Step, Handlers, Worker, Continue, Startup

\* No other handler changes the entry of a source that is loaded or dropped.
LEMMA LoopsSourceStep ==
  ASSUME Types, LoopsSource, [Next]_vars
  PROVE  LoopsSource'
<1> USE KindsAssumption
    DEF Types, LoopsSource, LoopStates, Registered, Free, registryVars, savedVars, slotVars
<1>1. ASSUME NEW s \in Sources, NEW kind \in Kinds, Register(s, kind)
      PROVE  LoopsSource'
  BY <1>1 DEF Register, Submit
<1>2. CASE TriggerRefresh
  BY <1>2 DEF TriggerRefresh, Submit
<1>3. CASE ScheduledRefresh
  BY <1>3 DEF ScheduledRefresh, Submit
<1>4. CASE Return
  BY <1>4 DEF Return
<1>5. CASE StartJob
  BY <1>5 DEF StartJob
<1>6. CASE IterationFails
  BY <1>6 DEF IterationFails, Resized, EndJob
<1>7. ASSUME NEW s \in Sources, LoadSource(s)
      PROVE  LoopsSource'
  BY <1>7 DEF LoadSource
<1>8. ASSUME NEW s \in Sources, LoadSourceFails(s)
      PROVE  LoopsSource'
  BY <1>8 DEF LoadSourceFails, EndJob
<1>9. CASE SourcesLoaded
  BY <1>9 DEF SourcesLoaded
<1>10. ASSUME NEW d \in Dashboards, RecreateView(d)
      PROVE  LoopsSource'
  BY <1>10 DEF RecreateView
<1>11. ASSUME NEW d \in Dashboards, RecreateViewFails(d)
      PROVE  LoopsSource'
  BY <1>11 DEF RecreateViewFails, EndJob
<1>12. CASE ViewsRecreated
  BY <1>12 DEF ViewsRecreated
<1>13. CASE PromoteStandby
  BY <1>13 DEF PromoteStandby, Swapped, EndJob
<1>14. CASE PromoteRaises
  BY <1>14 DEF PromoteRaises, Swapped, EndJob
<1>15. CASE PromoteFails
  BY <1>15 DEF PromoteFails, EndJob
<1>16. ASSUME NEW s \in Sources, RemoveSource(s)
      PROVE  LoopsSource'
  BY <1>16 DEF RemoveSource
<1>17. CASE DropObject
  BY <1>17 DEF DropObject
<1>18. CASE SaveSources
  BY <1>18 DEF SaveSources
<1>19. ASSUME NEW def \in Defs, LoadDashboard(def)
      PROVE  LoopsSource'
  BY <1>19 DEF LoadDashboard
<1>20. ASSUME NEW d \in Dashboards, RemoveDashboard(d)
      PROVE  LoopsSource'
  BY <1>20 DEF RemoveDashboard, Loaded
<1>21. CASE Crash
  BY <1>21 DEF Crash, Restart
<1>22. CASE CrashUnreadable
  BY <1>22 DEF CrashUnreadable, Restart
<1>23. CASE StartupRefreshed
  BY <1>23 DEF StartupRefreshed
<1>24. ASSUME NEW d \in Dashboards, ReloadDashboard(d)
      PROVE  LoopsSource'
  BY <1>24 DEF ReloadDashboard
<1>25. CASE Started
  BY <1>25 DEF Started
<1>26. CASE UNCHANGED vars
  BY <1>26 DEF vars
<1>27. QED
  BY <1>1, <1>2, <1>3, <1>4, <1>5, <1>6, <1>7, <1>8, <1>9, <1>10, <1>11,
     <1>12, <1>13, <1>14, <1>15, <1>16, <1>17, <1>18, <1>19, <1>20, <1>21,
     <1>22, <1>23, <1>24, <1>25, <1>26
     DEF Next, Step, Handlers, Worker, Continue, Startup
\* Nothing but the refresh itself changes what it has loaded.
LEMMA StandbyStep ==
  ASSUME Types, OneForTheLoop, LoopsSource, StandbyComplete, [Next]_vars
  PROVE  StandbyComplete'
<1> USE KindsAssumption
    DEF Types, OneForTheLoop, LoopsSource, StandbyComplete, LoadedByJob, Kept, New, Waiting, LoopRuns, LoopStates,
        JobStates, Answers, Origins, Slots, Standby, Registered, Free,
        NoJob, NoObject, registryVars, savedVars, slotVars
<1>1. ASSUME NEW s \in Sources, NEW kind \in Kinds, Register(s, kind)
      PROVE  StandbyComplete'
  BY <1>1 DEF Register, Submit
<1>2. CASE TriggerRefresh
  BY <1>2 DEF TriggerRefresh, Submit
<1>3. CASE ScheduledRefresh
  BY <1>3 DEF ScheduledRefresh, Submit
<1>4. CASE Return
  BY <1>4 DEF Return
<1>5. CASE StartJob
  BY <1>5 DEF StartJob
<1>6. CASE IterationFails
  BY <1>6 DEF IterationFails, Resized, EndJob
<1>7. ASSUME NEW s \in Sources, LoadSource(s)
      PROVE  StandbyComplete'
  BY <1>7 DEF LoadSource
<1>8. ASSUME NEW s \in Sources, LoadSourceFails(s)
      PROVE  StandbyComplete'
  BY <1>8 DEF LoadSourceFails, EndJob
<1>9. CASE SourcesLoaded
  BY <1>9 DEF SourcesLoaded
<1>10. ASSUME NEW d \in Dashboards, RecreateView(d)
      PROVE  StandbyComplete'
  BY <1>10 DEF RecreateView
<1>11. ASSUME NEW d \in Dashboards, RecreateViewFails(d)
      PROVE  StandbyComplete'
  BY <1>11 DEF RecreateViewFails, EndJob
<1>12. CASE ViewsRecreated
  BY <1>12 DEF ViewsRecreated
<1>13. CASE PromoteStandby
  BY <1>13 DEF PromoteStandby, Swapped, EndJob
<1>14. CASE PromoteRaises
  BY <1>14 DEF PromoteRaises, Swapped, EndJob
<1>15. CASE PromoteFails
  BY <1>15 DEF PromoteFails, EndJob
<1>16. ASSUME NEW s \in Sources, RemoveSource(s)
      PROVE  StandbyComplete'
  BY <1>16 DEF RemoveSource
<1>17. CASE DropObject
  BY <1>17 DEF DropObject
<1>18. CASE SaveSources
  BY <1>18 DEF SaveSources
<1>19. ASSUME NEW def \in Defs, LoadDashboard(def)
      PROVE  StandbyComplete'
  BY <1>19 DEF LoadDashboard
<1>20. ASSUME NEW d \in Dashboards, RemoveDashboard(d)
      PROVE  StandbyComplete'
  BY <1>20 DEF RemoveDashboard, Loaded
<1>21. CASE Crash
  BY <1>21 DEF Crash, Restart
<1>22. CASE CrashUnreadable
  BY <1>22 DEF CrashUnreadable, Restart
<1>23. CASE StartupRefreshed
  BY <1>23 DEF StartupRefreshed
<1>24. ASSUME NEW d \in Dashboards, ReloadDashboard(d)
      PROVE  StandbyComplete'
  BY <1>24 DEF ReloadDashboard
<1>25. CASE Started
  BY <1>25 DEF Started
<1>26. CASE UNCHANGED vars
  BY <1>26, SMTT(30) DEF vars
<1>27. QED
  BY <1>1, <1>2, <1>3, <1>4, <1>5, <1>6, <1>7, <1>8, <1>9, <1>10, <1>11,
     <1>12, <1>13, <1>14, <1>15, <1>16, <1>17, <1>18, <1>19, <1>20, <1>21,
     <1>22, <1>23, <1>24, <1>25, <1>26
     DEF Next, Step, Handlers, Worker, Continue, Startup

\* A promotion replaces everything readers join, all of it by one refresh.
LEMMA ActiveStep ==
  ASSUME Types, OneForTheLoop, LoopsSource, StandbyComplete, ActiveComplete,
         MarkerFollows, [Next]_vars
  PROVE  ActiveComplete'
<1> USE KindsAssumption
    DEF Types, OneForTheLoop, LoopsSource, StandbyComplete, MarkerFollows,
        ActiveComplete, LoadedTogether, LoadedByJob, Kept, New, Settled, Waiting,
        LoopRuns, LoopStates, JobStates, Answers, Origins, Slots, Standby,
        Registered, Free, NoJob, NoObject, registryVars, savedVars,
        slotVars
<1>1. ASSUME NEW s \in Sources, NEW kind \in Kinds, Register(s, kind)
      PROVE  ActiveComplete'
  BY <1>1 DEF Register, Submit
<1>2. CASE TriggerRefresh
  BY <1>2 DEF TriggerRefresh, Submit
<1>3. CASE ScheduledRefresh
  BY <1>3 DEF ScheduledRefresh, Submit
<1>4. CASE Return
  BY <1>4 DEF Return
<1>5. CASE StartJob
  BY <1>5 DEF StartJob
<1>6. CASE IterationFails
  BY <1>6 DEF IterationFails, Resized, EndJob
<1>7. ASSUME NEW s \in Sources, LoadSource(s)
      PROVE  ActiveComplete'
  BY <1>7 DEF LoadSource
<1>8. ASSUME NEW s \in Sources, LoadSourceFails(s)
      PROVE  ActiveComplete'
  BY <1>8 DEF LoadSourceFails, EndJob
<1>9. CASE SourcesLoaded
  BY <1>9 DEF SourcesLoaded
<1>10. ASSUME NEW d \in Dashboards, RecreateView(d)
      PROVE  ActiveComplete'
  BY <1>10 DEF RecreateView
<1>11. ASSUME NEW d \in Dashboards, RecreateViewFails(d)
      PROVE  ActiveComplete'
  BY <1>11 DEF RecreateViewFails, EndJob
<1>12. CASE ViewsRecreated
  BY <1>12 DEF ViewsRecreated
<1>13. CASE PromoteStandby
  BY <1>13 DEF PromoteStandby, Swapped, EndJob
<1>14. CASE PromoteRaises
  BY <1>14 DEF PromoteRaises, Swapped, EndJob
<1>15. CASE PromoteFails
  BY <1>15 DEF PromoteFails, EndJob
<1>16. ASSUME NEW s \in Sources, RemoveSource(s)
      PROVE  ActiveComplete'
  BY <1>16 DEF RemoveSource
<1>17. CASE DropObject
  BY <1>17 DEF DropObject
<1>18. CASE SaveSources
  BY <1>18 DEF SaveSources
<1>19. ASSUME NEW def \in Defs, LoadDashboard(def)
      PROVE  ActiveComplete'
  BY <1>19 DEF LoadDashboard
<1>20. ASSUME NEW d \in Dashboards, RemoveDashboard(d)
      PROVE  ActiveComplete'
  BY <1>20 DEF RemoveDashboard, Loaded
<1>21. CASE Crash
  BY <1>21 DEF Crash, Restart
<1>22. CASE CrashUnreadable
  BY <1>22 DEF CrashUnreadable, Restart
<1>23. CASE StartupRefreshed
  BY <1>23 DEF StartupRefreshed
<1>24. ASSUME NEW d \in Dashboards, ReloadDashboard(d)
      PROVE  ActiveComplete'
  BY <1>24 DEF ReloadDashboard
<1>25. CASE Started
  BY <1>25 DEF Started
<1>26. CASE UNCHANGED vars
  BY <1>26, SMTT(30) DEF vars
<1>27. QED
  BY <1>1, <1>2, <1>3, <1>4, <1>5, <1>6, <1>7, <1>8, <1>9, <1>10, <1>11,
     <1>12, <1>13, <1>14, <1>15, <1>16, <1>17, <1>18, <1>19, <1>20, <1>21,
     <1>22, <1>23, <1>24, <1>25, <1>26
     DEF Next, Step, Handlers, Worker, Continue, Startup

\* Every write of the marker that succeeds names the slot that serves.
LEMMA MarkerStep ==
  ASSUME ~MarkerMayFail, MarkerFollows, [Next]_vars
  PROVE  MarkerFollows'
<1> USE DEF MarkerFollows, LoadYaml, registryVars, savedVars, slotVars
<1>1. ASSUME NEW s \in Sources, NEW kind \in Kinds, Register(s, kind)
      PROVE  MarkerFollows'
  BY <1>1 DEF Register, Submit
<1>2. CASE TriggerRefresh
  BY <1>2 DEF TriggerRefresh, Submit
<1>3. CASE ScheduledRefresh
  BY <1>3 DEF ScheduledRefresh, Submit
<1>4. CASE Return
  BY <1>4 DEF Return
<1>5. CASE StartJob
  BY <1>5 DEF StartJob
<1>6. CASE IterationFails
  BY <1>6 DEF IterationFails, Resized, EndJob
<1>7. ASSUME NEW s \in Sources, LoadSource(s)
      PROVE  MarkerFollows'
  BY <1>7 DEF LoadSource
<1>8. ASSUME NEW s \in Sources, LoadSourceFails(s)
      PROVE  MarkerFollows'
  BY <1>8 DEF LoadSourceFails, EndJob
<1>9. CASE SourcesLoaded
  BY <1>9 DEF SourcesLoaded
<1>10. ASSUME NEW d \in Dashboards, RecreateView(d)
      PROVE  MarkerFollows'
  BY <1>10 DEF RecreateView
<1>11. ASSUME NEW d \in Dashboards, RecreateViewFails(d)
      PROVE  MarkerFollows'
  BY <1>11 DEF RecreateViewFails, EndJob
<1>12. CASE ViewsRecreated
  BY <1>12 DEF ViewsRecreated
<1>13. CASE PromoteStandby
  BY <1>13 DEF PromoteStandby, Swapped, EndJob
<1>14. CASE PromoteRaises
  BY <1>14 DEF PromoteRaises, Swapped, EndJob
<1>15. CASE PromoteFails
  BY <1>15 DEF PromoteFails, EndJob
<1>16. ASSUME NEW s \in Sources, RemoveSource(s)
      PROVE  MarkerFollows'
  BY <1>16 DEF RemoveSource
<1>17. CASE DropObject
  BY <1>17 DEF DropObject
<1>18. CASE SaveSources
  BY <1>18 DEF SaveSources
<1>19. ASSUME NEW def \in Defs, LoadDashboard(def)
      PROVE  MarkerFollows'
  BY <1>19 DEF LoadDashboard
<1>20. ASSUME NEW d \in Dashboards, RemoveDashboard(d)
      PROVE  MarkerFollows'
  BY <1>20 DEF RemoveDashboard, Loaded
<1>21. CASE Crash
  BY <1>21 DEF Crash, Restart
<1>22. CASE CrashUnreadable
  BY <1>22 DEF CrashUnreadable, Restart
<1>23. CASE StartupRefreshed
  BY <1>23 DEF StartupRefreshed
<1>24. ASSUME NEW d \in Dashboards, ReloadDashboard(d)
      PROVE  MarkerFollows'
  BY <1>24 DEF ReloadDashboard
<1>25. CASE Started
  BY <1>25 DEF Started
<1>26. CASE UNCHANGED vars
  BY <1>26 DEF vars
<1>27. QED
  BY <1>1, <1>2, <1>3, <1>4, <1>5, <1>6, <1>7, <1>8, <1>9, <1>10, <1>11,
     <1>12, <1>13, <1>14, <1>15, <1>16, <1>17, <1>18, <1>19, <1>20, <1>21,
     <1>22, <1>23, <1>24, <1>25, <1>26
     DEF Next, Step, Handlers, Worker, Continue, Startup

\* A fresh process has nothing registered and nothing queued.
LEMMA InvInit == Init => Inv /\ GenerationInv /\ ViewTypes
  BY BoundsAssumption
     DEF Init, Inv, GenerationInv, ViewTypes, Types, OneForTheLoop, Waiting, LoopRuns,
         LoopsSource, Settled, New, Registered, StandbyComplete, ActiveComplete,
         MarkerFollows, LoadedTogether, LoopStates, JobStates, Objects, Slots, NoObject,
         Free, NoJob

\* The invariants are inductive.
LEMMA InvStep == Inv /\ [Next]_vars => Inv'
  BY TypesStep, OneForTheLoopStep DEF Inv

LEMMA GenerationStep ==
  ASSUME ~MarkerMayFail, Inv, GenerationInv, [Next]_vars
  PROVE  GenerationInv'
  BY LoopsSourceStep, StandbyStep, ActiveStep, MarkerStep DEF Inv, GenerationInv

\* The registries, the slots, the loop and the worker are well typed in every
\* reachable state, for any number of refreshes, crashes and definitions.
THEOREM Typing == Spec => []TypeOK
<1>1. Inv /\ ViewTypes => TypeOK
  BY DEF Inv, Types, ViewTypes, TypeOK
<1>2. ViewTypes /\ [Next]_vars => ViewTypes'
  BY ViewTypesStep
<1>3. QED
  BY <1>1, <1>2, InvInit, InvStep, PTL DEF Spec

\* Readers join tables of one refresh: whatever handlers, scheduled refreshes,
\* failed loads, promotions and saves and crashes do, the objects of the sources
\* readers may count on are in the slot that serves and were made by the same
\* run, if the marker can be written.
THEOREM ReadersSeeOneGeneration ==
  ASSUME ~MarkerMayFail PROVE Spec => []OneGeneration
<1>1. GenerationInv => OneGeneration
  BY DEF GenerationInv, ActiveComplete, LoadedTogether, OneGeneration
<1>2. Inv /\ GenerationInv /\ [Next]_vars => GenerationInv'
  BY GenerationStep
<1>3. QED
  BY <1>1, <1>2, InvInit, InvStep, PTL DEF Spec
=============================================================================
