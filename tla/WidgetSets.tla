------------------------------ MODULE WidgetSets ------------------------------
(***************************************************************************)
(* The registry of widget sets (system_manager.py, models/widget_set.py,   *)
(* api/widgets.py): which folders are registered, saved to                 *)
(* settings/widget_sets.yaml, and which of them is active, saved with the  *)
(* general settings. A start reads both files again.                       *)
(*                                                                         *)
(* The registries of data sources and dashboards are saved and read back   *)
(* by the same statements (_save_data_sources, _save_dashboards).          *)
(***************************************************************************)
EXTENDS GeneralSettings

VARIABLES
    sets,       \* widget_sets: the ids in the order they were registered
    setsFile,   \* the ids a start will read from widget_sets.yaml
    saving,     \* _save_widget_sets is at work
    queue,      \* at a start: the entries of the file not yet loaded
    op,         \* the request in progress
    adoption,   \* a load raised before it looked at the active set
    told,       \* what a client was last told of each set
    chosen      \* the set a client last activated since the start, or None

setVars == <<sets, setsFile, saving, queue>>
askVars == <<op, adoption, told, chosen>>
vars == <<settingsVars, setVars, askVars>>

NoOp == [kind |-> "none", id |-> None]
Ops == [kind : {"boot", "seed", "load", "remove", "activate"}, id : SetIds \cup {None}] \cup {NoOp}

TypeOK ==
    /\ SettingsTypeOK
    /\ Range(sets) \subseteq SetIds
    /\ IsInjective(sets)
    /\ Range(setsFile) \subseteq SetIds
    /\ Range(queue) \subseteq SetIds
    /\ saving \in BOOLEAN
    /\ adoption \in BOOLEAN
    /\ op \in Ops
    /\ told \in [SetIds -> {"nothing", "registered", "removed"}]
    /\ chosen \in SetIds \cup {None}

Init ==
    /\ SettingsInit
    /\ sets = << >>
    /\ setsFile = << >>
    /\ saving = FALSE
    /\ queue = << >>
    /\ op = NoOp
    /\ adoption = FALSE
    /\ told = [w \in SetIds |-> "nothing"]
    /\ chosen = None

\* Slip: a folder that is loaded again is listed again.
AppendAgain(w) == Append(sets, w)

Registered(w) == IF Contains(sets, w) THEN sets ELSE Append(sets, w)
Unregister(w) == \E i \in DOMAIN sets : sets[i] = w /\ sets' = RemoveAt(sets, i)
Active == data.active_widget_set

\* What was told of a set no longer holds where the file says otherwise.
Retract(s) ==
    [w \in SetIds |-> IF told[w] = IF Contains(s, w) THEN "registered" ELSE "removed"
                      THEN told[w] ELSE "nothing"]

-----------------------------------------------------------------------------
(* Saving the registry *)

\* _save_widget_sets truncates the file: until it is done the file is as it
\* was or cut short.
BeginSave ==
    /\ saving' = TRUE
    /\ setsFile' \in {setsFile} \cup Prefixes(sets')

\* Slip: the set that was loaded last is the active one.
AdoptLoaded(w) ==
    IF Active # w
    THEN todo' = <<<<"active_widget_set", w>>>>
    ELSE UNCHANGED todo

\* load_widget_set ends with a look at the active set, which a setter may
\* have to replace.
Adopt(w) ==
    IF Active \notin Range(sets')
    THEN todo' = <<<<"active_widget_set", w>>>>
    ELSE UNCHANGED todo

SaveSetsEnds ==
    /\ saving
    /\ saving' = FALSE
    /\ setsFile' = sets
    /\ UNCHANGED <<sets, queue, askVars>>
    /\ IF op.kind = "remove"
       THEN UNCHANGED settingsVars
       ELSE /\ Adopt(op.id)
            /\ UNCHANGED <<data, fileVars, up, writing, followers, requests, stops>>

\* The error reaches the client, and a load skips the rest. When the set was
\* to be seeded the start itself fails.
SaveSetsFails ==
    /\ saving
    /\ op.kind # "seed"
    /\ saving' = FALSE
    /\ op' = NoOp
    /\ adoption' = IF op.kind = "load" THEN Active \notin Range(sets) ELSE adoption
    /\ told' = Retract(setsFile)
    /\ UNCHANGED <<sets, setsFile, queue, chosen, settingsVars>>

-----------------------------------------------------------------------------
(* Requests *)

Free == AtRest /\ op = NoOp

\* POST /widgets/load of a folder that is in order; another one is refused
\* and changes nothing.
Load(w) ==
    /\ Free
    /\ Request
    /\ sets' = Registered(w)
    /\ BeginSave
    /\ op' = [kind |-> "load", id |-> w]
    /\ adoption' = FALSE
    /\ told' = [told EXCEPT ![w] = "nothing"]
    /\ UNCHANGED <<queue, chosen, settingsRest>>

\* DELETE /widgets/{id}: 404 when unknown, 400 when active.
\* Slip: the active set may go too.
RemoveAny(w) ==
    /\ Free
    /\ Request
    /\ Unregister(w)
    /\ BeginSave
    /\ op' = [kind |-> "remove", id |-> w]
    /\ told' = [told EXCEPT ![w] = "nothing"]
    /\ UNCHANGED <<queue, adoption, chosen, settingsRest>>

\* Slip: the removal is not saved.
RemoveUnsaved(w) ==
    /\ Free
    /\ Request
    /\ Active # w
    /\ Unregister(w)
    /\ op' = [kind |-> "remove", id |-> w]
    /\ told' = [told EXCEPT ![w] = "nothing"]
    /\ UNCHANGED <<setsFile, saving, queue, adoption, chosen, settingsRest>>

RemoveSet(w) ==
    /\ Free
    /\ Request
    /\ Active # w
    /\ Unregister(w)
    /\ BeginSave
    /\ op' = [kind |-> "remove", id |-> w]
    /\ told' = [told EXCEPT ![w] = "nothing"]
    /\ UNCHANGED <<queue, adoption, chosen, settingsRest>>

\* POST /widgets/{id}/activate: 404 when unknown.
Activate(w) ==
    /\ Free
    /\ Request
    /\ Contains(sets, w)
    /\ todo' = <<<<"active_widget_set", w>>>>
    /\ op' = [kind |-> "activate", id |-> w]
    /\ adoption' = FALSE
    /\ chosen' = None
    /\ UNCHANGED <<setVars, told, data, fileVars, up, writing, followers, stops>>

Answer ==
    /\ AtRest /\ ~saving
    /\ op.kind \in {"seed", "load", "remove", "activate"}
    /\ told' = [told EXCEPT ![op.id] = CASE op.kind = "remove" -> "removed"
                                         [] op.kind = "activate" -> @
                                         [] OTHER -> "registered"]
    /\ chosen' = IF op.kind = "activate" THEN op.id ELSE chosen
    /\ op' = NoOp
    /\ UNCHANGED <<adoption, setVars, settingsVars>>

-----------------------------------------------------------------------------
(* Start and stop *)

Start ==
    /\ StartSettings
    /\ queue' = setsFile
    /\ op' = [kind |-> "boot", id |-> None]
    /\ UNCHANGED <<sets, setsFile, saving, adoption, told, chosen>>

Booting == AtRest /\ op.kind = "boot"

\* load_persisted_state loads the entries one by one without saving ...
LoadEntry ==
    /\ Booting
    /\ queue # << >>
    /\ sets' = Registered(Head(queue))
    /\ queue' = Tail(queue)
    /\ Adopt(Head(queue))
    /\ UNCHANGED <<setsFile, saving, askVars, data, fileVars, up, writing, followers,
                   requests, stops>>

\* ... drops one whose folder is refused, without a word ...
EntryRefused ==
    /\ Booting
    /\ queue # << >>
    /\ queue' = Tail(queue)
    /\ told' = [told EXCEPT ![Head(queue)] = "nothing"]
    /\ UNCHANGED <<sets, setsFile, saving, op, adoption, chosen, settingsVars>>

\* ... and all that are left once one raises (an index.js that is not UTF-8).
EntryRaises ==
    /\ Booting
    /\ queue # << >>
    /\ queue' = << >>
    /\ told' = [w \in SetIds |-> IF Contains(queue, w) THEN "nothing" ELSE told[w]]
    /\ UNCHANGED <<sets, setsFile, saving, op, adoption, chosen, settingsVars>>

BootEnds ==
    /\ Booting
    /\ queue = << >>
    /\ op' = NoOp
    /\ UNCHANGED <<setVars, adoption, told, chosen, settingsVars>>

\* Nothing could be loaded: the bundled set is registered, and saved.
Seed ==
    /\ Booting
    /\ queue = << >>
    /\ sets = << >>
    /\ sets' = <<"default">>
    /\ BeginSave
    /\ op' = [kind |-> "seed", id |-> "default"]
    /\ told' = [told EXCEPT !["default"] = "nothing"]
    /\ UNCHANGED <<queue, adoption, chosen, settingsVars>>

Stop ==
    /\ StopSettings
    /\ sets' = << >>
    /\ saving' = FALSE
    /\ queue' = << >>
    /\ op' = NoOp
    /\ adoption' = FALSE
    /\ told' = IF saving THEN Retract(setsFile) ELSE told
    /\ chosen' = None
    /\ UNCHANGED setsFile

Next ==
    \/ SettingsStep /\ UNCHANGED <<setVars, askVars>>
    \/ op = NoOp /\ (\E body \in Bodies : Put(body)) /\ UNCHANGED <<setVars, askVars>>
    \/ SaveSetsEnds
    \/ SaveSetsFails
    \/ \E w \in SetIds : Load(w) \/ RemoveSet(w) \/ Activate(w)
    \/ Answer
    \/ Start
    \/ LoadEntry
    \/ EntryRefused
    \/ EntryRaises
    \/ BootEnds
    \/ Seed
    \/ Stop

Spec == Init /\ [][Next]_vars

\* The refresh loop never dies: it catches every exception and wakes up once a
\* minute.
FairSpec == Spec /\ WF_vars(SyncScheduler /\ UNCHANGED <<setVars, askVars>>)

-----------------------------------------------------------------------------
(* While any set is registered one of them is active, whatever was removed,
   refused or lost, unless a load raised before it looked: 'Exactly one set
   is active at any time' (api/widgets.py:75).                             *)
ActiveRegistered == Free /\ sets # << >> /\ ~adoption => Active \in Range(sets)

(* Through restarts, failed saves and torn files the registry is what clients
   were told it is: a set they registered is there and one they removed is
   not, except where an entry failed to load or the file was cut short
   (system_manager.py:80-85, 122-139).                                     *)
RegistryAsTold ==
    up /\ op.kind # "boot" =>
        \A w \in SetIds :
            /\ told[w] = "registered" => Contains(sets, w)
            /\ told[w] = "removed" => ~Contains(sets, w)

(* While the process runs an activated set stays active until another is
   activated, whatever is loaded, loaded again, removed or not saved
   meanwhile: only the 'First widget set ever registered (or the active one
   having been removed) automatically becomes active'
   (system_manager.py:406-408).                                            *)
ActivationSurvives == Free /\ chosen # None => Active = chosen
=============================================================================
