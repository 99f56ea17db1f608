---------------------------- MODULE GlobalRefresh ----------------------------
(***************************************************************************)
(* SystemManager.global_refresh and the registries it reads: three threads *)
(* share the dictionaries of data sources and dashboards and the contents  *)
(* of the two DuckDB slots.                                                *)
(*                                                                         *)
(*   - the event loop runs the API handlers; each is a coroutine without   *)
(*     an await, so no other handler runs before it returns, also when it  *)
(*     waits for a refresh (future.result() blocks the loop);              *)
(*   - the scheduler submits refreshes on its own;                         *)
(*   - the worker of the one-thread task queue runs _do_refresh.           *)
(*                                                                         *)
(* promote_standby is one step here; DbSlots.tla has its inner steps.      *)
(***************************************************************************)
EXTENDS Naturals, FiniteSets, Sequences

CONSTANTS
    Sources,        \* names of data sources
    Kinds,          \* the connectors: "file" (CSV, JSON), "bigquery", "parquet"
    Dashboards,     \* dashboard files
    Defs,           \* what the files may contain: records
                    \* [dash, view, needs, replace, valid, body]
    MaxRuns,        \* bound on the number of refreshes
    Removals,       \* data sources and dashboards are removed
    LoadsMayFail,   \* a source file, a statement or a slot's file may fail
    FilesMayFail,   \* a settings file may fail to be written or read, or be torn
    MarkerMayFail,  \* the file naming the active slot may fail to be written
    MaxCrashes      \* bound on the number of crashes

ASSUME DefsAssumption ==
    \A def \in Defs : def.dash \in Dashboards /\ def.needs \in Sources
ASSUME KindsAssumption == Kinds \subseteq {"file", "bigquery", "parquet"}
ASSUME FiniteAssumption == IsFiniteSet(Sources) /\ IsFiniteSet(Dashboards)
ASSUME BoundsAssumption == MaxRuns \in Nat /\ MaxCrashes \in Nat

Slots == {"a", "b"}
Views == {def.view : def \in Defs}
NoDef == [dash |-> "none"]
NoObject == [kind |-> "none", run |-> 0]

VARIABLES
    sources,    \* data_sources: name -> kind of its connector, or "none"
    dashboards, \* dashboards: file -> its loaded definition, or NoDef
    savedSources,   \* settings/data_sources.yaml
    savedDashboards,\* settings/dashboards.yaml: the set of files
    steady,     \* auto_refresh is off and no dashboard file is refused; rigid
    revived,    \* sources a start took from the file although the process
                \* before it had removed them, and not loaded since; history
    active,     \* the slot that serves
    marker,     \* the slot a new process will serve
    object,     \* object[slot][source]: its table or view, and the run that made it
    view,       \* view[slot][name]: the definition of a base view, or NoDef
    loop,       \* the event loop: what it waits for
    queue,      \* refreshes submitted and not started, by origin
    job,        \* the refresh the worker is running
    run,        \* number of refreshes submitted
    crashes     \* number of crashes

registryVars == <<sources, dashboards, revived>>
savedVars == <<savedSources, savedDashboards>>
slotVars == <<active, marker, object, view>>
vars == <<registryVars, savedVars, slotVars, steady, loop, queue, job, run, crashes>>

Standby == IF active = "a" THEN "b" ELSE "a"
Registered == {s \in Sources : sources[s] # "none"}
Loaded == {d \in Dashboards : dashboards[d] # NoDef}

Free == [op |-> "free"]
NoJob == [pc |-> "none"]

Init ==
    /\ sources = [s \in Sources |-> "none"]
    /\ dashboards = [d \in Dashboards |-> NoDef]
    /\ savedSources = [s \in Sources |-> "none"]
    /\ savedDashboards = {}
    /\ steady \in BOOLEAN
    /\ revived = {}
    /\ active = "a"
    /\ marker = "a"
    /\ object = [slot \in Slots |-> [s \in Sources |-> NoObject]]
    /\ view = [slot \in Slots |-> [v \in Views |-> NoDef]]
    /\ loop = Free
    /\ queue = <<>>
    /\ job = NoJob
    /\ run = 0
    /\ crashes = 0

-----------------------------------------------------------------------------
(* Submitting a refresh *)

Submit(origin) ==
    /\ run < MaxRuns
    /\ run' = run + 1
    /\ queue' = Append(queue, [origin |-> origin, run |-> run + 1])

\* register_data_source: the connector enters the registry before the
\* refresh that has to load it; the loop waits for that refresh.
Register(s, kind) ==
    /\ loop = Free
    /\ sources' = [sources EXCEPT ![s] = kind]
    /\ loop' = [op |-> "register", src |-> s, old |-> sources[s], answer |-> "none"]
    /\ Submit("loop")
    /\ UNCHANGED <<dashboards, revived, savedVars, slotVars, job, crashes>>

\* POST /system/refresh.
TriggerRefresh ==
    /\ loop = Free
    /\ loop' = [op |-> "refresh", answer |-> "none"]
    /\ Submit("loop")
    /\ UNCHANGED <<registryVars, savedVars, slotVars, job, crashes>>

\* Each cron line of the setting is a job of its own, so that refreshes of the
\* scheduler may pile up; it is started after the persisted state is loaded.
ScheduledRefresh ==
    /\ ~steady
    /\ loop.op \notin {"starting", "reloading"}
    /\ Submit("scheduler")
    /\ UNCHANGED <<registryVars, savedVars, slotVars, loop, job, crashes>>

\* A save that fails shows when a process starts from the file; there is none
\* after the last crash of the bound.
SaveFails == FilesMayFail /\ crashes < MaxCrashes

\* What a save leaves in data_sources.yaml: the registry or, when it raises,
\* what the file held or what it had written since it truncated the file.
Written(registry, file) ==
    {registry} \cup
        IF SaveFails
        THEN {file} \cup {[s \in Sources |-> IF s \in kept THEN registry[s] ELSE "none"] :
                              kept \in SUBSET Sources}
        ELSE {}

\* The same for dashboards.yaml, a list of files.
WrittenFiles(files, file) ==
    {files} \cup IF SaveFails THEN {file} \cup SUBSET files ELSE {}

\* The refresh has answered: register_data_source saves the registry, which
\* keeps the new connector if that raises, or restores the one it replaced.
Return ==
    /\ loop.op \in {"register", "refresh"}
    /\ loop.answer # "none"
    /\ IF loop.op = "register"
       THEN IF loop.answer = "ok"
            THEN /\ savedSources' \in Written(sources, savedSources)
                 /\ UNCHANGED sources
            ELSE /\ sources' = [sources EXCEPT ![loop.src] = loop.old]
                 /\ UNCHANGED savedSources
       ELSE UNCHANGED <<sources, savedSources>>
    /\ loop' = Free
    /\ UNCHANGED <<dashboards, revived, savedDashboards, slotVars, queue, job, run, crashes>>

-----------------------------------------------------------------------------
(* _do_refresh, on the task queue's thread *)

\* Iterating a dictionary that another thread resized raises.
StartJob ==
    /\ job = NoJob
    /\ queue # <<>>
    /\ job' = [pc |-> "loading", origin |-> Head(queue).origin, run |-> Head(queue).run,
               done |-> {}, size |-> Cardinality(Registered)]
    /\ queue' = Tail(queue)
    /\ UNCHANGED <<registryVars, savedVars, slotVars, loop, run, crashes>>

\* Slip: the exception of the job does not reach who waits for it.
EndJobInSilence(answer) ==
    /\ job' = NoJob
    /\ loop' = IF job.origin = "loop" /\ answer = "ok" THEN [loop EXCEPT !.answer = answer]
                                                      ELSE loop

EndJob(answer) ==
    /\ job' = NoJob
    /\ loop' = IF job.origin = "loop" THEN [loop EXCEPT !.answer = answer] ELSE loop

Resized ==
    \/ job.pc = "loading" /\ job.size # Cardinality(Registered)
    \/ job.pc = "views" /\ job.size # Cardinality(Loaded)

IterationFails ==
    /\ Resized
    /\ EndJob("failed")
    /\ UNCHANGED <<registryVars, savedVars, slotVars, queue, run, crashes>>

\* What a connector creates.
Made(kind) == IF kind = "parquet" THEN "view" ELSE "table"

\* DROP TABLE raises on a view and DROP VIEW on a table, IF EXISTS or not. CSV
\* and JSON drop a table; BigQuery drops a view and then a table; Parquet does
\* too and ignores the errors.
Droppable(s) ==
    CASE sources[s] = "file"     -> object[Standby][s].kind # "view"
      [] sources[s] = "bigquery" -> object[Standby][s].kind # "table"
      [] OTHER                   -> TRUE

\* Slip: the connector uses get_db() and loads into the active slot.
LoadSourceActive(s) ==
    /\ job.pc = "loading" /\ ~Resized
    /\ s \in Registered \ job.done
    /\ Droppable(s)
    /\ object' = [object EXCEPT ![active][s] = [kind |-> Made(sources[s]), run |-> job.run]]
    /\ job' = [job EXCEPT !.done = @ \cup {s}]
    /\ UNCHANGED <<registryVars, savedVars, active, marker, view, loop, queue, run, crashes>>

\* Slip: an object carries the number of the refresh that comes next.
LoadSourceNext(s) ==
    /\ job.pc = "loading" /\ ~Resized
    /\ s \in Registered \ job.done
    /\ Droppable(s)
    /\ object' = [object EXCEPT ![Standby][s] = [kind |-> Made(sources[s]), run |-> job.run + 1]]
    /\ job' = [job EXCEPT !.done = @ \cup {s}]
    /\ UNCHANGED <<registryVars, savedVars, active, marker, view, loop, queue, run, crashes>>

LoadSource(s) ==
    /\ job.pc = "loading" /\ ~Resized
    /\ s \in Registered \ job.done
    /\ Droppable(s)
    /\ object' = [object EXCEPT ![Standby][s] = [kind |-> Made(sources[s]), run |-> job.run]]
    /\ job' = [job EXCEPT !.done = @ \cup {s}]
    /\ UNCHANGED <<registryVars, savedVars, active, marker, view, loop, queue, run, crashes>>

\* Slip: a source that fails to load is skipped.
SkipSource(s) ==
    /\ job.pc = "loading" /\ ~Resized
    /\ s \in Registered \ job.done
    /\ LoadsMayFail
    /\ object' = [object EXCEPT ![Standby][s] = NoObject]
    /\ job' = [job EXCEPT !.done = @ \cup {s}]
    /\ UNCHANGED <<registryVars, savedVars, active, marker, view, loop, queue, run, crashes>>

\* The connector raises before it drops the old object, or after.
LoadSourceFails(s) ==
    /\ job.pc = "loading" /\ ~Resized
    /\ s \in Registered \ job.done
    /\ \/ ~Droppable(s) /\ UNCHANGED object
       \/ LoadsMayFail /\ UNCHANGED object
       \/ /\ LoadsMayFail /\ Droppable(s)
          /\ object' = [object EXCEPT ![Standby][s] = NoObject]
    /\ EndJob("failed")
    /\ UNCHANGED <<registryVars, savedVars, active, marker, view, queue, run, crashes>>

\* Slip: the base views are not recreated in the standby.
SourcesLoadedNoViews ==
    /\ job.pc = "loading" /\ ~Resized
    /\ Registered \subseteq job.done
    /\ job' = [job EXCEPT !.pc = "promote", !.done = {}]
    /\ UNCHANGED <<registryVars, savedVars, slotVars, loop, queue, run, crashes>>

SourcesLoaded ==
    /\ job.pc = "loading" /\ ~Resized
    /\ Registered \subseteq job.done
    /\ job' = [job EXCEPT !.pc = "views", !.done = {}, !.size = Cardinality(Loaded)]
    /\ UNCHANGED <<registryVars, savedVars, slotVars, loop, queue, run, crashes>>

\* CREATE VIEW needs its source, and an unused name unless it may replace.
Creatable(slot, def) ==
    /\ object[slot][def.needs] # NoObject
    /\ def.replace \/ view[slot][def.view] = NoDef

RecreateView(d) ==
    /\ job.pc = "views" /\ ~Resized
    /\ d \in Loaded \ job.done
    /\ Creatable(Standby, dashboards[d])
    /\ view' = [view EXCEPT ![Standby][dashboards[d].view] = dashboards[d]]
    /\ job' = [job EXCEPT !.done = @ \cup {d}]
    /\ UNCHANGED <<registryVars, savedVars, active, marker, object, loop, queue, run, crashes>>

RecreateViewFails(d) ==
    /\ job.pc = "views" /\ ~Resized
    /\ d \in Loaded \ job.done
    /\ ~Creatable(Standby, dashboards[d])
    /\ EndJob("failed")
    /\ UNCHANGED <<registryVars, savedVars, slotVars, queue, run, crashes>>

ViewsRecreated ==
    /\ job.pc = "views" /\ ~Resized
    /\ Loaded \subseteq job.done
    /\ job' = [job EXCEPT !.pc = "promote"]
    /\ UNCHANGED <<registryVars, savedVars, slotVars, loop, queue, run, crashes>>

\* The swap replaces every object readers join.
Swapped ==
    /\ active' = Standby
    /\ revived' = {}
    /\ UNCHANGED <<sources, dashboards, savedVars, object, view, queue, run, crashes>>

PromoteStandby ==
    /\ job.pc = "promote"
    /\ Swapped
    /\ marker' = Standby
    /\ EndJob("ok")

\* Writing the marker raises after the swap, or closing the old connection and
\* reopening it as the standby does: the new slot serves and the refresh fails.
PromoteRaises ==
    /\ LoadsMayFail
    /\ job.pc = "promote"
    /\ Swapped
    /\ marker' \in {Standby} \cup IF MarkerMayFail THEN {marker} ELSE {}
    /\ EndJob("failed")

\* The standby fails its validation.
PromoteFails ==
    /\ LoadsMayFail
    /\ job.pc = "promote"
    /\ EndJob("failed")
    /\ UNCHANGED <<registryVars, savedVars, slotVars, queue, run, crashes>>

-----------------------------------------------------------------------------
(* Handlers that change the registries and the active slot *)

\* remove_data_source takes the connector from the registry and asks for the
\* active connection, ...
RemoveSource(s) ==
    /\ Removals
    /\ loop = Free
    /\ s \in Registered
    /\ sources' = [sources EXCEPT ![s] = "none"]
    /\ revived' = revived \ {s}
    /\ loop' = [op |-> "remove", src |-> s, slot |-> active]
    /\ UNCHANGED <<dashboards, savedVars, slotVars, queue, job, run, crashes>>

\* ... drops the object there, ignoring errors; a connection that stopped to be
\* the active one is the standby's for its grace period and then closed, ...
DropObject ==
    /\ loop.op = "remove"
    /\ \/ /\ loop.slot = active \/ job = NoJob
          /\ object' = [object EXCEPT ![loop.slot][loop.src] = NoObject]
       \/ /\ loop.slot # active \/ LoadsMayFail
          /\ UNCHANGED object
    /\ loop' = [op |-> "save"]
    /\ UNCHANGED <<registryVars, savedVars, active, marker, view, queue, job, run, crashes>>

\* ... and saves the registry.
SaveSources ==
    /\ loop.op = "save"
    /\ savedSources' \in Written(sources, savedSources)
    /\ loop' = Free
    /\ UNCHANGED <<registryVars, savedDashboards, slotVars, queue, job, run, crashes>>

\* The view name a reload of def leaves behind, if the file renamed it.
Renamed(def) ==
    LET old == dashboards[def.dash]
    IN  IF old # NoDef /\ old.view # def.view THEN {old.view} ELSE {}

\* Dashboard.load_yaml creates the base view before it has validated the rest
\* of the file, and load_dashboard registers the definition only after that.
LoadYaml(def) ==
    /\ Creatable(active, def)
    /\ steady => def.valid
    /\ view' = [view EXCEPT ![active] =
                  [v \in Views |->
                     CASE v = def.view -> def
                       [] def.valid /\ v \in Renamed(def) -> NoDef
                       [] OTHER -> @[v]]]
    /\ dashboards' = IF def.valid THEN [dashboards EXCEPT ![def.dash] = def]
                                  ELSE dashboards

LoadDashboard(def) ==
    /\ loop = Free
    /\ LoadYaml(def)
    /\ savedDashboards' \in
          IF def.valid THEN WrittenFiles(Loaded \cup {def.dash}, savedDashboards)
                       ELSE {savedDashboards}
    /\ UNCHANGED <<sources, revived, savedSources, active, marker, object, loop, queue, job, run, crashes>>

RemoveDashboard(d) ==
    /\ Removals
    /\ loop = Free
    /\ d \in Loaded
    /\ dashboards' = [dashboards EXCEPT ![d] = NoDef]
    /\ view' = [view EXCEPT ![active][dashboards[d].view] = NoDef]
    /\ savedDashboards' \in WrittenFiles(Loaded \ {d}, savedDashboards)
    /\ UNCHANGED <<sources, revived, savedSources, active, marker, object, loop, queue, job, run, crashes>>

-----------------------------------------------------------------------------
(* A crash and load_persisted_state *)

\* A source whose first registration is under way.
New == IF loop.op = "register" /\ loop.old = "none" /\ loop.answer # "ok"
       THEN {loop.src} ELSE {}

\* The sources readers may count on.
Settled == (Registered \ New) \ revived

\* The slots' files and the settings survive.
Restart(registry) ==
    /\ crashes < MaxCrashes
    /\ crashes' = crashes + 1
    /\ sources' = registry
    /\ revived' = {s \in Sources : registry[s] # "none"} \ Settled
    /\ dashboards' = [d \in Dashboards |-> NoDef]
    /\ active' = marker
    /\ job' = NoJob
    /\ UNCHANGED <<savedVars, marker, object, view>>

\* The new process reads the saved sources and refreshes, when there are any.
Crash ==
    /\ Restart(savedSources)
    /\ IF \E s \in Sources : savedSources[s] # "none"
       THEN /\ run < MaxRuns
            /\ run' = run + 1
            /\ queue' = <<[origin |-> "loop", run |-> run + 1]>>
            /\ loop' = [op |-> "starting", answer |-> "none"]
       ELSE /\ queue' = <<>>
            /\ loop' = [op |-> "reloading", todo |-> savedDashboards]
            /\ UNCHANGED run

\* An entry that cannot be read ends the loop over the file, and there is no
\* refresh: what was registered before it stays registered.
CrashUnreadable ==
    /\ FilesMayFail
    /\ \E kept \in SUBSET Sources :
          Restart([s \in Sources |-> IF s \in kept THEN savedSources[s] ELSE "none"])
    /\ queue' = <<>>
    /\ loop' = [op |-> "reloading", todo |-> savedDashboards]
    /\ UNCHANGED run

\* A failure of the first refresh is logged and the startup goes on.
StartupRefreshed ==
    /\ loop.op = "starting"
    /\ loop.answer # "none"
    /\ loop' = [op |-> "reloading", todo |-> savedDashboards]
    /\ UNCHANGED <<registryVars, savedVars, slotVars, queue, job, run, crashes>>

\* A saved dashboard is loaded, or its error is ignored.
ReloadDashboard(d) ==
    /\ loop.op = "reloading"
    /\ d \in loop.todo
    /\ loop' = [loop EXCEPT !.todo = @ \ {d}]
    /\ \E def \in Defs :
          /\ def.dash = d
          /\ \/ LoadYaml(def)
             \/ ~Creatable(active, def) /\ UNCHANGED <<view, dashboards>>
    /\ UNCHANGED <<sources, revived, savedVars, active, marker, object, queue, job, run, crashes>>

\* An exception ends the loop over dashboards.yaml too.
Started ==
    /\ loop.op = "reloading"
    /\ loop.todo = {} \/ FilesMayFail
    /\ loop' = Free
    /\ UNCHANGED <<registryVars, savedVars, slotVars, queue, job, run, crashes>>

-----------------------------------------------------------------------------

Worker ==
    \/ StartJob \/ IterationFails
    \/ \E s \in Sources : LoadSource(s) \/ LoadSourceFails(s)
    \/ SourcesLoaded
    \/ \E d \in Dashboards : RecreateView(d) \/ RecreateViewFails(d)
    \/ ViewsRecreated \/ PromoteStandby \/ PromoteRaises \/ PromoteFails

Startup == StartupRefreshed \/ Started \/ \E d \in Dashboards : ReloadDashboard(d)

Handlers ==
    \/ \E s \in Sources : RemoveSource(s) \/ \E kind \in Kinds : Register(s, kind)
    \/ TriggerRefresh
    \/ \E def \in Defs : LoadDashboard(def)
    \/ \E d \in Dashboards : RemoveDashboard(d)

\* What a handler that has begun does next.
Continue == Return \/ DropObject \/ SaveSources

Step == Handlers \/ ScheduledRefresh \/ Worker \/ Continue \/ Startup
        \/ Crash \/ CrashUnreadable

Next == Step /\ UNCHANGED steady

Spec == Init /\ [][Next]_vars

FairSpec ==
    /\ Spec
    /\ WF_vars(Worker /\ UNCHANGED steady)
    /\ WF_vars(Continue /\ UNCHANGED steady)
    /\ WF_vars(Startup /\ UNCHANGED steady)

-----------------------------------------------------------------------------
(* Properties *)

Answers == {"none", "ok", "failed"}
Origins == {"loop", "scheduler"}
Objects == [kind : {"table", "view", "none"}, run : 0..MaxRuns]

LoopStates ==
    [op : {"free"}]
    \cup [op : {"register"}, src : Sources, old : Kinds \cup {"none"}, answer : Answers]
    \cup [op : {"refresh", "starting"}, answer : Answers]
    \cup [op : {"remove"}, src : Sources, slot : Slots]
    \cup [op : {"save"}]
    \cup [op : {"reloading"}, todo : SUBSET Dashboards]

JobStates ==
    [pc : {"none"}]
    \cup [pc : {"loading"}, origin : Origins, run : 1..MaxRuns, done : SUBSET Sources, size : Nat]
    \cup [pc : {"views", "promote"}, origin : Origins, run : 1..MaxRuns,
          done : SUBSET Dashboards, size : Nat]

TypeOK ==
    /\ sources \in [Sources -> Kinds \cup {"none"}]
    /\ dashboards \in [Dashboards -> Defs \cup {NoDef}]
    /\ savedSources \in [Sources -> Kinds \cup {"none"}]
    /\ savedDashboards \subseteq Dashboards
    /\ revived \subseteq Sources
    /\ active \in Slots
    /\ marker \in Slots
    /\ object \in [Slots -> [Sources -> Objects]]
    /\ view \in [Slots -> [Views -> Defs \cup {NoDef}]]
    /\ loop \in LoopStates
    /\ queue \in Seq([origin : Origins, run : 1..MaxRuns])
    /\ job \in JobStates
    /\ run \in 0..MaxRuns
    /\ crashes \in 0..MaxCrashes

\* Readers join tables of one refresh: every source that is registered has its
\* object in the active slot and the same run made them all ("readers never see
\* a half-reloaded, inconsistent state", docs/backend_architecture.md:732). Not
\* meant are a source whose first registration is not over, and one that was
\* removed and whose removal did not reach the file before a crash.
OneGeneration ==
    \A s, t \in Settled :
        /\ object[active][s] # NoObject
        /\ object[active][s].run = object[active][t].run

\* The base view of every loaded dashboard, in the definition that is loaded,
\* is in the active slot: "so the new active slot is immediately consistent"
\* (system_manager.py:224-226). In a steady process only: a scheduled refresh
\* that is past its views loses a dashboard that is loaded then, and a file
\* that is refused for its queries or layout has replaced its view already.
ViewsServed ==
    steady => \A d \in Loaded : view[active][dashboards[d].view] = dashboards[d]

\* A data source that was removed has no table or view readers could query:
\* removing "drops the DuckDB table/view for the named connector and removes
\* it from the registry" (api/system.py:654).
RemovedStaysRemoved ==
    loop = Free => \A s \in Sources \ Registered : object[active][s] = NoObject

\* A handler that waits for a refresh gets its answer, and a process that
\* starts gets to serve, also when refreshes are scheduled meanwhile.
EveryoneAnswered == loop.op # "free" ~> loop.op = "free"

\* Until it is promoted a refresh changes nothing readers see, and if it fails
\* before that it never does.
RefreshIsInvisible ==
    [][job # job' /\ active = active'
          => UNCHANGED <<object[active], view[active]>>]_vars
=============================================================================
