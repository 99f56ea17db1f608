---------------------------- MODULE ResponseCache ----------------------------
(***************************************************************************)
(* The Redis cache of POST /dashboards/{id}/data (redis_client.py): what a *)
(* response is cached under, the reverse index "ds:<name>:keys" that finds *)
(* it again when data sources are reloaded, and who deletes what.          *)
(*                                                                         *)
(* Handlers run one at a time on the event loop, but the refresh worker    *)
(* promotes and invalidates beside them unless the loop waits for it.      *)
(* Redis outlives the process.                                             *)
(***************************************************************************)
EXTENDS Naturals

CONSTANTS
    Dashboards,
    Filters,    \* filter hashes
    Sources,    \* the registered data sources
    Tables,     \* Tables[d]: the names d's responses are indexed under, its
                \* base view and the tables its widgets show without a query
    Ttls,       \* the values redis_ttl_seconds takes; 0 is no expiry
    MaxTtl,
    Buffer,     \* what an index lives longer than its entries (60 s)
    MaxGen,     \* bound on the number of promotions
    Versions,   \* the contents a dashboard file takes
    Raises,     \* a promotion may raise after the swap
    SavesFail,  \* dashboards.yaml may fail to be written
    Crashes     \* the process may crash

ASSUME TtlAssumption == MaxTtl \in Nat /\ Ttls \subseteq 0..MaxTtl /\ Ttls # {}
ASSUME BufferAssumption == Buffer \in Nat
ASSUME GenAssumption == MaxGen \in Nat \ {0}
ASSUME VersionsAssumption == Versions \subseteq Nat \ {0}

Names == Sources \cup UNION {Tables[d] : d \in Dashboards}
Keys == Dashboards \X Filters
DashOf(k) == k[1]

Forever == MaxTtl + Buffer + 1
NoEntry == [gen |-> 0, def |-> 0, left |-> 0]
NoIndex == [keys |-> {}, left |-> 0]

VARIABLES
    gen,    \* the generation of the data that is served
    def,    \* def[d]: the version of d that is loaded, 0 when d is not
    store,  \* store[key]: the generation and the version a cached response
            \* was made from and its time to live; NoEntry when there is none
    index,  \* index[name]: the set of keys and its time to live
    skipped,\* a promotion went without its invalidation, and none has been
            \* completed since; history
    missed, \* the responses a load that could not be saved should have deleted;
            \* history
    ttl,    \* general_settings.redis_ttl_seconds
    steady, \* nobody changes the settings and auto_refresh is off
    loop,   \* what the event loop is in the middle of
    job     \* the refresh the worker runs

redisVars == <<store, index>>
historyVars == <<skipped, missed>>
vars == <<gen, def, redisVars, historyVars, ttl, steady, loop, job>>

Free == [op |-> "free"]
NoJob == [pc |-> "none"]

Cached(k) == store[k].left > 0

\* A request would get the response.
Servable(k) == Cached(k) /\ def[DashOf(k)] # 0

Init ==
    /\ gen = 1
    /\ def = [d \in Dashboards |-> 0]
    /\ store = [k \in Keys |-> NoEntry]
    /\ index = [n \in Names |-> NoIndex]
    /\ skipped = FALSE
    /\ missed = {}
    /\ ttl \in Ttls
    /\ steady \in BOOLEAN
    /\ loop = Free
    /\ job = NoJob

-----------------------------------------------------------------------------
(* POST /dashboards/{id}/data *)

\* The response is not cached; get_data_for_filters takes the connection that
\* is active now. A hit changes nothing.
Miss(k) ==
    /\ loop = Free
    /\ def[DashOf(k)] # 0
    /\ ~Cached(k)
    /\ loop' = [op |-> "query", key |-> k, gen |-> gen]
    /\ UNCHANGED <<gen, def, redisVars, historyVars, ttl, job>>

\* The connection is closed when the grace period of a promotion has passed, if
\* the promotion has not raised before.
CutOff == gen # loop.gen /\ ~(gen = loop.gen + 1 /\ job.pc = "draining")

\* The generations a response may come from.
Answers ==
    IF CutOff THEN {0} \cup (IF skipped THEN {loop.gen} ELSE {}) ELSE {loop.gen}

\* The queries run. One that fails, on a closed connection too, leaves an
\* empty result in the response (generation 0), and it is cached all the same.
Query ==
    /\ loop.op = "query"
    /\ \E made \in Answers : loop' = [loop EXCEPT !.op = "store", !.gen = made]
    /\ UNCHANGED <<gen, def, redisVars, historyVars, ttl, job>>

\* RedisCache.set: SETEX or SET, then the index of one name after the other.
SetEntry ==
    /\ loop.op = "store"
    /\ LET k == loop.key
       IN  /\ store' = [store EXCEPT ![k] =
                          [gen |-> loop.gen, def |-> def[DashOf(k)],
                           left |-> IF ttl > 0 THEN ttl ELSE Forever]]
           /\ loop' = [op |-> "index", key |-> k, todo |-> Tables[DashOf(k)]]
    /\ missed' = missed \ {loop.key}
    /\ UNCHANGED <<gen, def, index, skipped, ttl, job>>

\* Slip: EXPIRE with NX does not renew the life of a set.
FirstIndexLife(n) ==
    CASE index[n].left > 0 -> index[n].left
      [] index[n].left = 0 /\ ttl > 0 -> ttl + Buffer
      [] OTHER -> Forever

\* Slip: the lives add up.
SumIndexLife(n) == index[n].left + ttl + Buffer

\* SADD creates a set that does not expire; EXPIRE renews its life for every
\* key, unless the setting is 0.
IndexLife(n) ==
    CASE ttl > 0 -> ttl + Buffer
      [] ttl = 0 /\ index[n].left > 0 -> index[n].left
      [] OTHER -> Forever

AddToIndex(n) ==
    /\ loop.op = "index"
    /\ n \in loop.todo
    /\ index' = [index EXCEPT ![n] =
                   [keys |-> @.keys \cup {loop.key}, left |-> IndexLife(n)]]
    /\ loop' = IF loop.todo = {n} THEN Free ELSE [loop EXCEPT !.todo = @ \ {n}]
    /\ UNCHANGED <<gen, def, store, historyVars, ttl, job>>

-----------------------------------------------------------------------------
(* A refresh: promotion, the grace period, invalidate_datasource *)

TriggerRefresh ==
    /\ loop = Free
    /\ gen < MaxGen
    /\ loop' = [op |-> "refresh"]
    /\ UNCHANGED <<gen, def, redisVars, historyVars, ttl, job>>

StartJob ==
    /\ job = NoJob
    /\ gen < MaxGen
    /\ \/ loop.op \in {"refresh", "starting"} /\ job' = [pc |-> "loading", origin |-> "loop"]
       \/ ~steady /\ loop.op \notin {"starting", "reloading"}
          /\ job' = [pc |-> "loading", origin |-> "scheduler"]
    /\ UNCHANGED <<gen, def, redisVars, historyVars, ttl, loop>>

\* What the loop does when its refresh is over: the startup goes on to load
\* the dashboards, also when the refresh failed.
Answered == IF loop.op = "starting" THEN [op |-> "reloading", todo |-> Dashboards] ELSE Free

EndJob ==
    /\ job' = NoJob
    /\ loop' = IF job.origin = "loop" THEN Answered ELSE loop

RefreshFails ==
    /\ job.pc = "loading"
    /\ EndJob
    /\ UNCHANGED <<gen, def, redisVars, historyVars, ttl>>

Swap ==
    /\ job.pc = "loading"
    /\ gen' = gen + 1
    /\ job' = [job EXCEPT !.pc = "draining"]
    /\ UNCHANGED <<def, redisVars, historyVars, ttl, loop>>

Demote ==
    /\ job.pc = "draining"
    /\ job' = [pc |-> "invalidating", origin |-> job.origin, todo |-> Sources]
    /\ UNCHANGED <<gen, def, redisVars, historyVars, ttl, loop>>

\* promote_standby raises after the swap, at the marker or at the demotion, or
\* the registry is resized under the loop over it: nothing is invalidated.
PromotionRaises ==
    /\ \/ Raises /\ job.pc = "draining"
       \/ ~steady /\ job.pc = "invalidating"
    /\ skipped' = TRUE
    /\ EndJob
    /\ UNCHANGED <<gen, def, redisVars, missed, ttl>>

\* SMEMBERS of a registered source's index; the thread that answers requests
\* may write to Redis before the DEL that follows.
ReadIndex(s) ==
    /\ job.pc = "invalidating"
    /\ s \in job.todo
    /\ job' = IF index[s].keys = {}
              THEN [job EXCEPT !.todo = @ \ {s}]
              ELSE [pc |-> "deleting", origin |-> job.origin, todo |-> job.todo \ {s},
                    name |-> s, keys |-> index[s].keys]
    /\ UNCHANGED <<gen, def, redisVars, historyVars, ttl, loop>>

\* Slip: only the index is deleted.
DeleteIndex ==
    /\ job.pc = "deleting"
    /\ index' = [index EXCEPT ![job.name] = NoIndex]
    /\ job' = [pc |-> "invalidating", origin |-> job.origin, todo |-> job.todo]
    /\ UNCHANGED <<gen, def, store, historyVars, ttl, loop>>

DeleteKeys ==
    /\ job.pc = "deleting"
    /\ store' = [k \in Keys |-> IF k \in job.keys THEN NoEntry ELSE store[k]]
    /\ index' = [index EXCEPT ![job.name] = NoIndex]
    /\ job' = [pc |-> "invalidating", origin |-> job.origin, todo |-> job.todo]
    /\ UNCHANGED <<gen, def, historyVars, ttl, loop>>

RefreshDone ==
    /\ job.pc = "invalidating"
    /\ job.todo = {}
    /\ skipped' = FALSE
    /\ EndJob
    /\ UNCHANGED <<gen, def, redisVars, missed, ttl>>

-----------------------------------------------------------------------------
(* The other handlers, time and restarts *)

\* Slip: nothing is deleted.
WithDashboard(d) == store

\* invalidate_dashboard: SCAN "db:<id>:*" and DEL; the index keeps the keys.
WithoutDashboard(d) == [k \in Keys |-> IF DashOf(k) = d THEN NoEntry ELSE store[k]]

LoadDashboard(d, version) ==
    /\ loop = Free
    /\ def' = [def EXCEPT ![d] = version]
    /\ store' = WithoutDashboard(d)
    /\ UNCHANGED <<gen, index, historyVars, ttl, loop, job>>

\* Saving the registry raises before anything is invalidated; the definition
\* stays loaded.
LoadDashboardUnsaved(d, version) ==
    /\ SavesFail
    /\ loop = Free
    /\ def' = [def EXCEPT ![d] = version]
    /\ missed' = missed \cup {k \in Keys : DashOf(k) = d /\ Cached(k)}
    /\ UNCHANGED <<gen, redisVars, skipped, ttl, loop, job>>

\* The cached responses of a removed dashboard stay where they are.
RemoveDashboard(d) ==
    /\ loop = Free
    /\ def[d] # 0
    /\ def' = [def EXCEPT ![d] = 0]
    /\ UNCHANGED <<gen, redisVars, historyVars, ttl, loop, job>>

\* FLUSHDB.
ResetCache ==
    /\ loop = Free
    /\ store' = [k \in Keys |-> NoEntry]
    /\ index' = [n \in Names |-> NoIndex]
    /\ skipped' = FALSE
    /\ UNCHANGED <<gen, def, missed, ttl, loop, job>>

ChangeTtl ==
    /\ ~steady
    /\ loop = Free
    /\ ttl' \in Ttls \ {ttl}
    /\ UNCHANGED <<gen, def, redisVars, historyVars, loop, job>>

Older(n) == IF n = Forever THEN n ELSE n - 1

\* Redis forgets what has lived its time.
Tick ==
    /\ store' = [k \in Keys |->
                   IF store[k].left <= 1 THEN NoEntry
                   ELSE [store[k] EXCEPT !.left = Older(@)]]
    /\ index' = [n \in Names |->
                   IF index[n].left <= 1 THEN NoIndex
                   ELSE [index[n] EXCEPT !.left = Older(@)]]
    /\ UNCHANGED <<gen, def, historyVars, ttl, loop, job>>

\* The process dies and starts again: a refresh, then the dashboards, each of
\* which deletes its responses when it is loaded.
Crash ==
    /\ Crashes
    /\ gen < MaxGen
    /\ def' = [d \in Dashboards |-> 0]
    /\ loop' = [op |-> "starting"]
    /\ job' = NoJob
    /\ skipped' = FALSE
    /\ UNCHANGED <<gen, redisVars, missed, ttl>>

\* load_persisted_state loads a dashboard, or skips one it cannot load.
ReloadDashboard(d) ==
    /\ loop.op = "reloading"
    /\ d \in loop.todo
    /\ loop' = IF loop.todo = {d} THEN Free ELSE [loop EXCEPT !.todo = @ \ {d}]
    /\ \/ /\ def' \in {[def EXCEPT ![d] = version] : version \in Versions}
          /\ store' = WithoutDashboard(d)
       \/ UNCHANGED <<def, store>>
    /\ UNCHANGED <<gen, index, historyVars, ttl, job>>

-----------------------------------------------------------------------------

Request == (\E k \in Keys : Miss(k)) \/ Query \/ SetEntry \/ \E n \in Names : AddToIndex(n)

Refresh ==
    \/ StartJob \/ RefreshFails \/ Swap \/ Demote \/ PromotionRaises
    \/ (\E s \in Sources : ReadIndex(s)) \/ DeleteKeys \/ RefreshDone

Handlers ==
    \/ TriggerRefresh
    \/ \E d \in Dashboards :
          \/ RemoveDashboard(d)
          \/ \E version \in Versions :
                LoadDashboard(d, version) \/ LoadDashboardUnsaved(d, version)
    \/ ResetCache \/ ChangeTtl

Step ==
    \/ Request \/ Refresh \/ Handlers
    \/ Tick
    \/ Crash \/ \E d \in Dashboards : ReloadDashboard(d)

Next == Step /\ UNCHANGED steady

Spec == Init /\ [][Next]_vars

-----------------------------------------------------------------------------
(* Properties *)

Lives == 0..Forever

LoopStates ==
    [op : {"free", "refresh", "starting"}]
    \cup [op : {"query", "store"}, key : Keys, gen : 0..MaxGen]
    \cup [op : {"index"}, key : Keys, todo : SUBSET Names]
    \cup [op : {"reloading"}, todo : SUBSET Dashboards]

JobStates ==
    [pc : {"none"}]
    \cup [pc : {"loading", "draining"}, origin : {"loop", "scheduler"}]
    \cup [pc : {"invalidating"}, origin : {"loop", "scheduler"}, todo : SUBSET Sources]
    \cup [pc : {"deleting"}, origin : {"loop", "scheduler"}, todo : SUBSET Sources,
          name : Sources, keys : SUBSET Keys]

TypeOK ==
    /\ gen \in 1..MaxGen
    /\ def \in [Dashboards -> Versions \cup {0}]
    /\ store \in [Keys -> [gen : 0..MaxGen, def : Versions \cup {0}, left : Lives]]
    /\ index \in [Names -> [keys : SUBSET Keys, left : Lives]]
    /\ skipped \in BOOLEAN
    /\ missed \subseteq Keys
    /\ ttl \in Ttls
    /\ loop \in LoopStates
    /\ job \in JobStates

\* A response that can be served was made from the data that is served, as
\* soon as the refresh that replaced the data is over, if the loop waits for
\* every refresh: "When a data source is reloaded, all related cache entries are
\* invalidated" (api/dashboards.py:330).
ReloadInvalidates ==
    steady /\ job.pc \in {"none", "loading"} =>
        \A k \in Keys : Servable(k) => store[k].gen = gen

\* The same, unless a promotion raised after its swap, whose responses the next
\* refresh finds that comes to its end, and but for what an earlier process left
\* behind of a dashboard whose load could not be saved.
FreshAfterRefresh ==
    steady /\ ~skipped /\ job.pc \in {"none", "loading"} =>
        \A k \in Keys \ missed : Servable(k) => store[k].gen = gen

\* A response that can be served was made from the loaded definition of its
\* dashboard, but for those a load left behind that could not save the
\* registry: a load deletes the responses, so that "cached results computed
\* from the previous definition [...] aren't served after the definition
\* changes" (redis_client.py:232-234).
FreshDefinition ==
    \A k \in Keys \ missed : Servable(k) => store[k].def = def[DashOf(k)]

\* Between requests the index of every name a response depends on has its key,
\* for as long as the response lives, if the times to live stay what they are:
\* the index holds "all cache keys that depend on this data source"
\* (docs/backend_architecture.md:316).
CoveredByIndex ==
    steady /\ loop.op # "index" =>
        \A k \in Keys \ missed : Servable(k) =>
            \A n \in Tables[DashOf(k)] : k \in index[n].keys
=============================================================================
