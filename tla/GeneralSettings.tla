--------------------------- MODULE GeneralSettings ---------------------------
(***************************************************************************)
(* The runtime settings of core/general_settings.py: one dictionary, saved *)
(* as a whole to settings/general.yaml after every single assignment, and  *)
(* what follows it: the Redis client, the syslog handler that one-off      *)
(* threads replace, and the jobs of the refresh scheduler.                 *)
(*                                                                         *)
(* Requests run one at a time on the event loop; the threads and the       *)
(* refresh loop run beside them, and the process may stop anywhere.        *)
(* WidgetSets.tla adds the registry whose active set is kept here.         *)
(***************************************************************************)
EXTENDS Naturals, SequencesExt

CONSTANTS
    SetIds,     \* the widget sets active_widget_set may name
    Autos,      \* the values of auto_refresh, "disabled" among them
    Wanted,     \* Wanted[v]: the jobs v asks for, in order
    Refused,    \* the jobs whose cron line APScheduler does not take
    Servers,    \* the Redis servers that may be set
    EnvServer,  \* the one of REDIS_HOST, used when none is set
    Targets,    \* the syslog servers
    Bodies,     \* the bodies of PUT /system/settings and /system/access: the
                \* <<key, value>> assignments they make, in the handler's order
    Cuts,       \* how many keys of a file that was cut short may be left
    MaxRequests,\* bound on the number of requests
    MaxStops    \* bound on the number of stops and crashes

ASSUME AutosAssumption == "disabled" \in Autos /\ Wanted["disabled"] = << >>
ASSUME DefaultsAssumption == "default" \in SetIds /\ EnvServer \in Servers
ASSUME BoundsAssumption == Cuts \subseteq Nat /\ MaxRequests \in Nat /\ MaxStops \in Nat

Off == "off"
None == "none"

\* The keys in the order yaml.dump writes them.
KeyOrder == <<"active_widget_set", "anonymous_access", "auto_refresh",
              "redis_host", "row_limit", "syslog">>

_DEFAULTS ==
    [active_widget_set |-> "default", anonymous_access |-> TRUE,
     auto_refresh |-> "disabled", redis_host |-> EnvServer,
     row_limit |-> 1000, syslog |-> Off]

Settings ==
    [active_widget_set : SetIds, anonymous_access : BOOLEAN,
     auto_refresh : Autos, redis_host : Servers, row_limit : Nat \ {0},
     syslog : Targets \cup {Off}]

\* What a body may assign: row_limit refuses 0, and active_widget_set has no
\* field in a body.
Assignments ==
    ({"anonymous_access"} \X BOOLEAN) \cup ({"auto_refresh"} \X Autos)
    \cup ({"redis_host"} \X Servers) \cup ({"row_limit"} \X Nat)
    \cup ({"syslog"} \X (Targets \cup {Off}))

ASSUME BodiesAssumption == Bodies \subseteq Seq(Assignments)

VARIABLES
    data,       \* _data; while the process is down, what it was
    file,       \* what _load makes of general.yaml
    exists,     \* general.yaml is there
    up,         \* the process runs
    todo,       \* the assignments the handler in progress has still to make
    writing,    \* _save is at work
    unsaved,    \* the last save failed or the process died in it, or the start
                \* could not read the file
    client,     \* the server the Redis client was made for, or None
    stale,      \* redis_changed: the handler in progress will reconnect
    broken,     \* a handler raised before its reconnect
    threads,    \* the targets the syslog threads that wait were given
    raced,      \* several of them waited at once
    handler,    \* the target of the attached syslog handler, or None
    last,       \* _last_auto_refresh
    jobs,       \* the jobs of the scheduler
    requests,   \* begun so far
    stops       \* stops and crashes so far

fileVars == <<file, exists, unsaved>>
redisVars == <<client, stale, broken>>
syslogVars == <<threads, raced, handler>>
jobVars == <<last, jobs>>
followers == <<redisVars, syslogVars, jobVars>>
settingsRest == <<data, fileVars, up, todo, writing, followers, stops>>
settingsVars == <<data, fileVars, up, todo, writing, followers, requests, stops>>

SettingsTypeOK ==
    /\ data \in Settings
    /\ file \in Settings
    /\ client \in Servers \cup {None}
    /\ {exists, up, writing, unsaved, stale, broken, raced} \subseteq BOOLEAN
    /\ Range(threads) \subseteq Targets \cup {Off}
    /\ handler \in Targets \cup {None}
    /\ last \in Autos
    /\ requests \in 0..MaxRequests
    /\ stops \in 0..MaxStops

SettingsInit ==
    /\ data = _DEFAULTS
    /\ file = _DEFAULTS
    /\ exists = FALSE
    /\ up = FALSE
    /\ todo = << >>
    /\ writing = FALSE
    /\ unsaved = FALSE
    /\ client = None
    /\ stale = FALSE
    /\ broken = FALSE
    /\ threads = << >>
    /\ raced = FALSE
    /\ handler = None
    /\ last = "disabled"
    /\ jobs = {}
    /\ requests = 0
    /\ stops = 0

\* The event loop is free for the next request.
AtRest == up /\ todo = << >> /\ ~writing /\ ~stale

-----------------------------------------------------------------------------
(* The process starts and stops *)

\* A file that was cut short: the keys before the cut, defaults for the rest.
CutAt(n) ==
    [key \in DOMAIN _DEFAULTS |->
        IF \E i \in 1..n : KeyOrder[i] = key THEN data[key] ELSE _DEFAULTS[key]]

\* Slip: a key that _DEFAULTS does not list is not read back.
LoadedWithoutLimit(allow) ==
    IF exists THEN [file EXCEPT !.row_limit = _DEFAULTS.row_limit]
              ELSE [_DEFAULTS EXCEPT !.anonymous_access = allow]

\* What _load reads: the file, or without one the defaults, with
\* anonymous_access taken from ANONYMOUS_USER and not saved.
Loaded(allow) ==
    IF exists THEN file ELSE [_DEFAULTS EXCEPT !.anonymous_access = allow]

\* create_redis_connection: a client of the server that is set, if it answers.
Connect(settings) == {settings.redis_host, None}

Loads ==
    /\ \E allow \in BOOLEAN : data' = Loaded(allow)
    /\ unsaved' = FALSE
    /\ threads' = IF exists THEN <<data'.syslog>> ELSE << >>

\* A file that cannot be read or parsed is logged: the defaults stay in force,
\* over a file that says otherwise, and no syslog thread starts.
LoadFails ==
    /\ exists
    /\ data' = _DEFAULTS
    /\ unsaved' = TRUE
    /\ threads' = << >>

StartSettings ==
    /\ ~up
    /\ up' = TRUE
    /\ Loads \/ LoadFails
    /\ client' \in Connect(data')
    /\ UNCHANGED <<file, exists, todo, writing, stale, broken, raced, handler, jobVars,
                   requests, stops>>

StopSettings ==
    /\ up
    /\ stops < MaxStops
    /\ stops' = stops + 1
    /\ up' = FALSE
    /\ todo' = << >>
    /\ writing' = FALSE
    /\ unsaved' = (unsaved \/ writing)
    /\ client' = None
    /\ stale' = FALSE
    /\ broken' = FALSE
    /\ threads' = << >>
    /\ raced' = FALSE
    /\ handler' = None
    /\ last' = "disabled"
    /\ jobs' = {}
    /\ UNCHANGED <<data, file, exists, requests>>

-----------------------------------------------------------------------------
(* A request: its assignments, each followed by a save of everything *)

Request == requests < MaxRequests /\ requests' = requests + 1

Put(body) ==
    /\ AtRest
    /\ Request
    /\ todo' = body
    /\ UNCHANGED <<data, fileVars, up, writing, followers, stops>>

Key == todo[1][1]
Value == todo[1][2]
Valid == Key = "row_limit" => Value >= 1

\* A setter changes the dictionary, and _save truncates the file: until it is
\* done the file is as it was or cut short.
Assign ==
    /\ up /\ todo # << >> /\ ~writing
    /\ Valid
    /\ data' = [data EXCEPT ![Key] = Value]
    /\ writing' = TRUE
    /\ \/ UNCHANGED <<file, exists>>
       \/ exists' = TRUE /\ \E n \in Cuts : file' = CutAt(n)'
    /\ stale' = (stale \/ Key = "redis_host")
    /\ UNCHANGED <<unsaved, up, todo, client, broken, syslogVars, jobVars, requests, stops>>

\* The setter of row_limit raises: the rest of the body is dropped, what was
\* assigned before stays, and no reconnect follows.
AssignRaises ==
    /\ up /\ todo # << >> /\ ~writing
    /\ ~Valid
    /\ todo' = << >>
    /\ stale' = FALSE
    /\ broken' = (broken \/ stale)
    /\ UNCHANGED <<data, fileVars, up, writing, client, syslogVars, jobVars, requests, stops>>

\* After its save the syslog setter starts a thread with a copy of the value.
Applied ==
    /\ writing
    /\ writing' = FALSE
    /\ todo' = Tail(todo)
    /\ IF Key = "syslog"
       THEN /\ threads' = Append(threads, data.syslog)
            /\ raced' = (threads # << >>)
       ELSE UNCHANGED <<threads, raced>>
    /\ UNCHANGED <<data, up, redisVars, handler, jobVars, requests, stops>>

SaveEnds ==
    /\ Applied
    /\ file' = data
    /\ exists' = TRUE
    /\ unsaved' = FALSE

\* An error of the save is logged and goes no further.
SaveFails ==
    /\ Applied
    /\ unsaved' = TRUE
    /\ UNCHANGED <<file, exists>>

\* Slip: the client is closed and made anew only if there was one.
ReconnectIfConnected ==
    /\ up /\ todo = << >> /\ ~writing /\ stale
    /\ client' \in IF client = None THEN {None} ELSE {client}
    /\ stale' = FALSE
    /\ broken' = FALSE
    /\ UNCHANGED <<data, fileVars, up, todo, writing, syslogVars, jobVars, requests, stops>>

Reconnect ==
    /\ up /\ todo = << >> /\ ~writing /\ stale
    /\ client' \in Connect(data)
    /\ stale' = FALSE
    /\ broken' = FALSE
    /\ UNCHANGED <<data, fileVars, up, todo, writing, syslogVars, jobVars, requests, stops>>

-----------------------------------------------------------------------------
(* The threads beside the event loop *)

\* configure_syslog, under its lock: the old handler goes, a new one comes if
\* a target is enabled and its server answers. The threads wait for the lock
\* in no particular order.
\* Slip: a thread that is to disable it returns before the old handler goes.
ConfigureKeeping(i) ==
    /\ handler' \in IF threads[i] = Off THEN {handler} ELSE {threads[i], None}
    /\ threads' = RemoveAt(threads, i)
    /\ UNCHANGED <<data, fileVars, up, todo, writing, redisVars, raced, jobVars, requests, stops>>

ConfigureSyslog(i) ==
    /\ handler' \in IF threads[i] = Off THEN {None} ELSE {threads[i], None}
    /\ threads' = RemoveAt(threads, i)
    /\ UNCHANGED <<data, fileVars, up, todo, writing, redisVars, raced, jobVars, requests, stops>>

\* The jobs added before the first line that raises.
Added(auto) ==
    {Wanted[auto][i] : i \in {i \in DOMAIN Wanted[auto] :
                                 \A j \in 1..i : Wanted[auto][j] \notin Refused}}

\* _refresh_loop, once a minute: a changed value replaces all jobs; it counts
\* as seen before the first of them is added.
\* Slip: turning the refresh off counts as seen and leaves the jobs.
SyncUnlessDisabled ==
    /\ up
    /\ last # data.auto_refresh
    /\ last' = data.auto_refresh
    /\ jobs' = IF data.auto_refresh = "disabled" THEN jobs ELSE Added(data.auto_refresh)
    /\ UNCHANGED <<data, fileVars, up, todo, writing, redisVars, syslogVars, requests, stops>>

SyncScheduler ==
    /\ up
    /\ last # data.auto_refresh
    /\ last' = data.auto_refresh
    /\ jobs' = Added(data.auto_refresh)
    /\ UNCHANGED <<data, fileVars, up, todo, writing, redisVars, syslogVars, requests, stops>>

\* What goes on after a request has begun.
SettingsStep ==
    \/ Assign
    \/ AssignRaises
    \/ SaveEnds
    \/ SaveFails
    \/ Reconnect
    \/ \E i \in DOMAIN threads : ConfigureSyslog(i)
    \/ SyncScheduler

-----------------------------------------------------------------------------
(* What a restart would bring back is what is in force, unless the last save
   failed or the process died in it, or the file could not be read at the
   start and nothing was saved since: 'survive application restarts'
   (general_settings.py:4-6). Before the first save there is no file.      *)
SavedAsServed == AtRest /\ exists /\ ~unsaved => file = data

(* Once no syslog thread waits, no handler of an earlier setting is left, if
   the threads never waited together (general_settings.py:220-248).        *)
NoStaleSyslog ==
    threads = << >> /\ ~raced /\ ~(writing /\ Key = "syslog")
        => handler \in {data.syslog, None}

(* Between requests the Redis client is of the server that is set, or none
   if that did not answer, unless a handler raised half-way
   (api/system.py:247-249).                                                *)
RedisFollows == AtRest /\ ~broken => client \in {data.redis_host, None}

(* When auto_refresh no longer changes, the scheduler comes to have exactly
   the jobs it could add for it (system_manager.py:537-571).               *)
SchedulerFollows ==
    \A auto \in Autos :
        <>[](up /\ data.auto_refresh = auto) => <>[](jobs = Added(auto))
=============================================================================
