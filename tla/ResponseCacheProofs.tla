------------------------- MODULE ResponseCacheProofs -------------------------
(***************************************************************************)
(* Theorems about ResponseCache for any dashboards, filters, sources and   *)
(* times to live: no response of an older definition is served, the index  *)
(* has the key of every response that can be served, and a refresh leaves  *)
(* none of the data it replaced.                                           *)
(***************************************************************************)
EXTENDS ResponseCache, TLAPS

\* The constants are numbers where the code has numbers.
LEMMA Numbers ==
  /\ Forever \in Nat /\ MaxGen \in Nat /\ MaxTtl \in Nat /\ Buffer \in Nat
  /\ Forever = MaxTtl + Buffer + 1
  /\ \A t \in Ttls : t \in Nat /\ t <= MaxTtl
  BY TtlAssumption, BufferAssumption, GenAssumption DEF Forever

\* The handler of a key that may be in Redis belongs to a dashboard.
LEMMA KeysOfDashboards == \A k \in Keys : DashOf(k) \in Dashboards
  BY DEF Keys, DashOf

\* A refresh is not started when the bound on generations is reached.
TypeInv == TypeOK /\ (job.pc = "loading" => gen < MaxGen)

\* Every step keeps the types.
LEMMA TypeStep ==
  ASSUME TypeInv, [Next]_vars
  PROVE  TypeInv'
<1> USE Numbers, KeysOfDashboards, GenAssumption, VersionsAssumption
    DEF TypeInv, TypeOK, LoopStates, JobStates, Lives, Cached, NoEntry,
        NoIndex, Free, NoJob, redisVars, historyVars
<1>1. ASSUME NEW k \in Keys, Miss(k)
      PROVE  TypeInv'
  BY <1>1 DEF Miss
<1>2. CASE Query
  <2>1. loop \in [op : {"query", "store"}, key : Keys, gen : 0..MaxGen]
    BY <1>2 DEF Query
  <2>2. Answers \subseteq 0..MaxGen
    BY <2>1 DEF Answers
  <2>3. \E made \in Answers : loop' = [loop EXCEPT !.op = "store", !.gen = made]
    BY ONLY <1>2 DEF Query
  <2>4. loop' \in [op : {"query", "store"}, key : Keys, gen : 0..MaxGen]
    BY ONLY <2>1, <2>2, <2>3
  <2>5. QED
    BY <1>2, <2>4 DEF Query
<1>3. CASE SetEntry
  <2>1. loop \in [op : {"query", "store"}, key : Keys, gen : 0..MaxGen]
    BY <1>3 DEF SetEntry
  <2>2. /\ loop.key \in Keys /\ loop.gen \in 0..MaxGen
        /\ def[DashOf(loop.key)] \in Versions \cup {0}
        /\ (IF ttl > 0 THEN ttl ELSE Forever) \in Lives
    BY <2>1
  <2>3. store' \in [Keys -> [gen : 0..MaxGen, def : Versions \cup {0}, left : Lives]]
    BY <1>3, <2>2 DEF SetEntry
  <2>4. loop' \in [op : {"index"}, key : Keys, todo : SUBSET Names]
    BY <1>3, <2>2 DEF SetEntry, Names
  <2>5. QED
    BY <1>3, <2>3, <2>4 DEF SetEntry
<1>4. ASSUME NEW n \in Names, AddToIndex(n)
      PROVE  TypeInv'
  <2>1. loop \in [op : {"index"}, key : Keys, todo : SUBSET Names]
    BY <1>4 DEF AddToIndex
  <2>2. IndexLife(n) \in Lives
    BY DEF IndexLife
  <2>3. index' \in [Names -> [keys : SUBSET Keys, left : Lives]]
    BY <1>4, <2>1, <2>2 DEF AddToIndex
  <2>4. loop' \in LoopStates
    BY <1>4, <2>1 DEF AddToIndex
  <2>5. QED
    BY <1>4, <2>3, <2>4 DEF AddToIndex
<1>5. CASE TriggerRefresh
  BY <1>5 DEF TriggerRefresh
<1>6. CASE StartJob
  BY <1>6 DEF StartJob
<1>7. CASE RefreshFails
  BY <1>7 DEF RefreshFails, EndJob, Answered
<1>8. CASE Swap
  BY <1>8 DEF Swap
<1>9. CASE Demote
  BY <1>9 DEF Demote
<1>10. ASSUME NEW s \in Sources, ReadIndex(s)
      PROVE  TypeInv'
  <2>1. job \in [pc : {"invalidating"}, origin : {"loop", "scheduler"}, todo : SUBSET Sources]
    BY <1>10 DEF ReadIndex
  <2>2. index[s].keys \in SUBSET Keys
    BY DEF Names
  <2>3. job' \in JobStates /\ job'.pc # "loading"
    BY <1>10, <2>1, <2>2 DEF ReadIndex
  <2>4. QED
    BY <1>10, <2>3 DEF ReadIndex
<1>11. CASE DeleteKeys
  <2>1. job \in [pc : {"deleting"}, origin : {"loop", "scheduler"}, todo : SUBSET Sources,
                name : Sources, keys : SUBSET Keys]
    BY <1>11 DEF DeleteKeys
  <2>2. /\ job' \in JobStates /\ job'.pc # "loading"
        /\ store' \in [Keys -> [gen : 0..MaxGen, def : Versions \cup {0}, left : Lives]]
    BY <1>11, <2>1 DEF DeleteKeys
  <2>3. NoIndex \in [keys : SUBSET Keys, left : Lives]
    OBVIOUS
  <2>4. index' = [index EXCEPT ![job.name] = NoIndex]
    BY ONLY <1>11 DEF DeleteKeys
  <2>5. index' \in [Names -> [keys : SUBSET Keys, left : Lives]]
    BY ONLY <2>3, <2>4, index \in [Names -> [keys : SUBSET Keys, left : Lives]]
  <2>6. QED
    BY <1>11, <2>2, <2>5 DEF DeleteKeys
<1>12. CASE RefreshDone
  BY <1>12 DEF RefreshDone, EndJob, Answered
<1>13. ASSUME NEW d \in Dashboards, NEW version \in Versions, LoadDashboard(d, version)
      PROVE  TypeInv'
  BY <1>13 DEF LoadDashboard, WithoutDashboard
<1>14. ASSUME NEW d \in Dashboards, RemoveDashboard(d)
      PROVE  TypeInv'
  BY <1>14 DEF RemoveDashboard
<1>15. CASE ResetCache
  <2>1. /\ NoEntry \in [gen : 0..MaxGen, def : Versions \cup {0}, left : Lives]
        /\ NoIndex \in [keys : SUBSET Keys, left : Lives]
    OBVIOUS
  <2>2. /\ store' = [k \in Keys |-> NoEntry] /\ index' = [n \in Names |-> NoIndex]
        /\ UNCHANGED <<gen, def, missed, ttl, loop, job>> /\ skipped' \in BOOLEAN
    BY ONLY <1>15 DEF ResetCache
  <2>3. /\ store' \in [Keys -> [gen : 0..MaxGen, def : Versions \cup {0}, left : Lives]]
        /\ index' \in [Names -> [keys : SUBSET Keys, left : Lives]]
    BY ONLY <2>1, <2>2
  <2>4. QED
    BY <2>2, <2>3
<1>16. CASE ChangeTtl
  BY <1>16 DEF ChangeTtl
<1>17. CASE Tick
  <2>1. NoEntry \in [gen : 0..MaxGen, def : Versions \cup {0}, left : Lives]
    OBVIOUS
  <2>2. NoIndex \in [keys : SUBSET Keys, left : Lives]
    OBVIOUS
  <2>3. \A left \in Lives : left > 1 => Older(left) \in Lives
    BY DEF Older
  <2>4. store' \in [Keys -> [gen : 0..MaxGen, def : Versions \cup {0}, left : Lives]]
    <3>1. ASSUME NEW k \in Keys
          PROVE  store'[k] \in [gen : 0..MaxGen, def : Versions \cup {0}, left : Lives]
      <4>1. store[k] \in [gen : 0..MaxGen, def : Versions \cup {0}, left : Lives]
        OBVIOUS
      <4>2. store'[k] = IF store[k].left <= 1 THEN NoEntry
                        ELSE [store[k] EXCEPT !.left = Older(store[k].left)]
        BY ONLY <1>17 DEF Tick
      <4>3. store[k].left > 1 => Older(store[k].left) \in Lives
        BY ONLY <4>1, <2>3
      <4>4. store[k].left \in Nat
        BY <4>1
      <4>5. QED
        BY ONLY <4>1, <4>2, <4>3, <4>4, <2>1
    <3>2. QED
      BY ONLY <1>17, <3>1 DEF Tick
  <2>5. index' \in [Names -> [keys : SUBSET Keys, left : Lives]]
    <3>1. ASSUME NEW n \in Names
          PROVE  index'[n] \in [keys : SUBSET Keys, left : Lives]
      <4>1. index[n] \in [keys : SUBSET Keys, left : Lives]
        OBVIOUS
      <4>2. index'[n] = IF index[n].left <= 1 THEN NoIndex
                        ELSE [index[n] EXCEPT !.left = Older(index[n].left)]
        BY ONLY <1>17 DEF Tick
      <4>3. index[n].left > 1 => Older(index[n].left) \in Lives
        BY ONLY <4>1, <2>3
      <4>4. index[n].left \in Nat
        BY <4>1
      <4>5. QED
        BY ONLY <4>1, <4>2, <4>3, <4>4, <2>2
    <3>2. QED
      BY ONLY <1>17, <3>1 DEF Tick
  <2>6. QED
    BY <1>17, <2>4, <2>5 DEF Tick
<1>18. CASE Crash
  BY <1>18 DEF Crash
<1>19. ASSUME NEW d \in Dashboards, ReloadDashboard(d)
      PROVE  TypeInv'
  BY <1>19 DEF ReloadDashboard, WithoutDashboard
<1>19a. CASE PromotionRaises
  BY <1>19a DEF PromotionRaises, EndJob, Answered
<1>19b. ASSUME NEW d \in Dashboards, NEW version \in Versions,
              LoadDashboardUnsaved(d, version)
       PROVE  TypeInv'
  BY <1>19b DEF LoadDashboardUnsaved
<1>20. CASE UNCHANGED vars
  BY <1>20 DEF vars
<1>21. QED
  BY <1>1, <1>2, <1>3, <1>4, <1>5, <1>6, <1>7, <1>8, <1>9, <1>10, <1>11,
     <1>12, <1>13, <1>14, <1>15, <1>16, <1>17, <1>18, <1>19, <1>19a, <1>19b, <1>20
     DEF Next, Step, Request, Refresh, Handlers

\* A response enters Redis with the definition that is loaded, and whoever
\* changes a definition deletes what was made from the older one.
LEMMA FreshStep ==
  ASSUME TypeOK, FreshDefinition, [Next]_vars
  PROVE  FreshDefinition'
<1> USE Numbers, KeysOfDashboards, VersionsAssumption
    DEF TypeOK, FreshDefinition, LoopStates, JobStates, Lives, Cached,
        NoEntry, NoIndex, Free, NoJob, redisVars, historyVars, Servable
<1>1. ASSUME NEW k \in Keys, Miss(k)
      PROVE  FreshDefinition'
  BY <1>1 DEF Miss
<1>2. CASE Query
  BY <1>2 DEF Query
<1>3. CASE SetEntry
  BY <1>3 DEF SetEntry
<1>4. ASSUME NEW n \in Names, AddToIndex(n)
      PROVE  FreshDefinition'
  BY <1>4 DEF AddToIndex
<1>5. CASE TriggerRefresh
  BY <1>5 DEF TriggerRefresh
<1>6. CASE StartJob
  BY <1>6 DEF StartJob
<1>7. CASE RefreshFails
  BY <1>7 DEF RefreshFails, EndJob, Answered
<1>8. CASE Swap
  BY <1>8 DEF Swap
<1>9. CASE Demote
  BY <1>9 DEF Demote
<1>10. ASSUME NEW s \in Sources, ReadIndex(s)
      PROVE  FreshDefinition'
  BY <1>10 DEF ReadIndex
<1>11. CASE DeleteKeys
  BY <1>11 DEF DeleteKeys
<1>12. CASE RefreshDone
  BY <1>12 DEF RefreshDone, EndJob, Answered
<1>13. ASSUME NEW d \in Dashboards, NEW version \in Versions, LoadDashboard(d, version)
      PROVE  FreshDefinition'
  BY <1>13 DEF LoadDashboard, WithoutDashboard
<1>14. ASSUME NEW d \in Dashboards, RemoveDashboard(d)
      PROVE  FreshDefinition'
  BY <1>14 DEF RemoveDashboard
<1>15. CASE ResetCache
  BY <1>15 DEF ResetCache
<1>16. CASE ChangeTtl
  BY <1>16 DEF ChangeTtl
<1>17. CASE Tick
  BY <1>17 DEF Tick, Older
<1>18. CASE Crash
  BY <1>18 DEF Crash
<1>19. ASSUME NEW d \in Dashboards, ReloadDashboard(d)
      PROVE  FreshDefinition'
  BY <1>19 DEF ReloadDashboard, WithoutDashboard
<1>19a. CASE PromotionRaises
  BY <1>19a DEF PromotionRaises, EndJob, Answered
<1>19b. ASSUME NEW d \in Dashboards, NEW version \in Versions,
              LoadDashboardUnsaved(d, version)
       PROVE  FreshDefinition'
  BY <1>19b DEF LoadDashboardUnsaved
<1>20. CASE UNCHANGED vars
  BY <1>20 DEF vars
<1>21. QED
  BY <1>1, <1>2, <1>3, <1>4, <1>5, <1>6, <1>7, <1>8, <1>9, <1>10, <1>11,
     <1>12, <1>13, <1>14, <1>15, <1>16, <1>17, <1>18, <1>19, <1>19a, <1>19b, <1>20
     DEF Next, Step, Request, Refresh, Handlers

\* A fresh process with an empty Redis.
LEMMA TypeInit == Init => TypeInv /\ FreshDefinition
<1> USE Numbers DEF NoEntry, NoIndex
<1>1. SUFFICES ASSUME Init
               PROVE  TypeInv /\ FreshDefinition
  OBVIOUS
<1>2. gen \in 1..MaxGen /\ ttl \in Ttls /\ missed \subseteq Keys
  BY <1>1, GenAssumption DEF Init
<1>2b. skipped \in BOOLEAN
  BY ONLY <1>1 DEF Init
<1>2a. def \in [Dashboards -> Versions \cup {0}]
  BY ONLY <1>1 DEF Init
<1>3. /\ NoEntry \in [gen : 0..MaxGen, def : Versions \cup {0}, left : Lives]
      /\ NoIndex \in [keys : SUBSET Keys, left : Lives]
  BY DEF Lives
<1>4. /\ store \in [Keys -> [gen : 0..MaxGen, def : Versions \cup {0}, left : Lives]]
      /\ index \in [Names -> [keys : SUBSET Keys, left : Lives]]
  BY ONLY <1>1, <1>3 DEF Init
<1>5. loop \in LoopStates /\ job \in JobStates /\ job.pc # "loading"
  BY <1>1 DEF Init, LoopStates, JobStates, Free, NoJob
<1>6. FreshDefinition
  BY <1>1 DEF Init, FreshDefinition, Servable, Cached
<1>7. QED
  BY ONLY <1>2, <1>2a, <1>2b, <1>4, <1>5, <1>6 DEF TypeInv, TypeOK

\* Redis, the loop and the worker are well typed in every reachable state.
THEOREM Typing == Spec => []TypeOK
  BY TypeInit, TypeStep, PTL DEF Spec, TypeInv

\* No response made from an older definition of its dashboard is ever served,
\* through reloads, removals, flushes, expiry, failed promotions, crashes and
\* restarts, with or without scheduled refreshes, but for the responses a load
\* left behind whose registry could not be saved, until each is replaced.
THEOREM NoOlderDefinition == Spec => []FreshDefinition
  BY TypeInit, TypeStep, FreshStep, PTL DEF Spec, TypeInv

-----------------------------------------------------------------------------
(***************************************************************************)
(* A steady process. The loop waits for every refresh, so no request runs  *)
(* beside one; a response and the sets that list its key expire together,  *)
(* the response first; and a refresh has yet to read the index of every    *)
(* source that can find a response of the data it replaced.                *)
(***************************************************************************)

\* A response that can be served, but for what a load missed that could not be
\* saved.
Served(k) == Cached(k) /\ def[DashOf(k)] # 0 /\ k \notin missed

\* The loop waits for the refresh, and a request runs on the data served now.
NoRequestBesideJob ==
    /\ job.pc # "none" => job.origin = "loop" /\ loop.op \in {"refresh", "starting"}
    /\ loop.op \in {"query", "store"} => loop.gen = gen

\* Nothing outlives what its setting gives it, and without a setting nothing
\* expires.
LivesOfSetting ==
    /\ \A k \in Keys : ttl > 0 => store[k].left <= ttl
    /\ \A n \in Names : ttl = 0 => index[n].left \in {0, Forever}

\* RedisCache.set has still to add k to the index of n.
Adding(k, n) == loop.op = "index" /\ loop.key = k /\ n \in loop.todo

Listed(k, n) == k \in index[n].keys /\ store[k].left <= index[n].left

ServedAreListed ==
    \A k \in Keys : Served(k) => \A n \in Tables[DashOf(k)] : Adding(k, n) \/ Listed(k, n)

\* The members a refresh has read are all there are.
ReadIsCurrent == job.pc = "deleting" => index[job.name].keys \subseteq job.keys

\* The sources whose responses the refresh has not deleted yet.
NotInvalidated ==
    CASE job.pc = "draining" -> Sources
      [] job.pc = "invalidating" -> job.todo
      [] job.pc = "deleting" -> job.todo \cup {job.name}
      [] OTHER -> {}

\* A response of replaced data is listed only where the refresh will look.
StaleWillBeFound ==
    \A k \in Keys : Served(k) /\ store[k].gen # gen =>
        Tables[DashOf(k)] \cap Sources \subseteq NotInvalidated

SteadyInv ==
    steady => /\ NoRequestBesideJob /\ LivesOfSetting /\ ServedAreListed
              /\ ReadIsCurrent

\* Every dashboard shows the table of a data source without a query: without
\* it the index of its responses has only the name of the base view, which
\* no refresh looks up.
EveryDashboardShowsASource == \A d \in Dashboards : Tables[d] \cap Sources # {}

\* The names a response is indexed under are names of indexes.
LEMMA NamesOfKeys ==
  \A k \in Keys : DashOf(k) \in Dashboards /\ Tables[DashOf(k)] \subseteq Names
  BY KeysOfDashboards DEF Names

\* The loop does not leave a refresh, nor a refresh the loop.
LEMMA NoRequestBesideJobStep ==
  ASSUME TypeInv, steady, NoRequestBesideJob, [Next]_vars
  PROVE  NoRequestBesideJob'
<1> USE DEF TypeInv, TypeOK, LoopStates, JobStates, NoRequestBesideJob, Free, NoJob,
        redisVars, historyVars
<1>1. CASE Request
  <2>1. CASE \E k \in Keys : Miss(k)
    BY <2>1 DEF Miss
  <2>2. CASE Query
    <3>1. job.pc = "none" /\ loop.gen = gen /\ ~CutOff
      BY <2>2 DEF Query, CutOff
    <3>1a. Answers = {loop.gen}
      BY <3>1 DEF Answers
    <3>2. QED
      BY <2>2, <3>1, <3>1a DEF Query
  <2>3. CASE SetEntry
    BY <2>3 DEF SetEntry
  <2>4. CASE \E n \in Names : AddToIndex(n)
    BY <2>4 DEF AddToIndex
  <2>5. QED
    BY <1>1, <2>1, <2>2, <2>3, <2>4 DEF Request
<1>2. CASE StartJob
  BY <1>2 DEF StartJob
<1>3. CASE RefreshFails \/ RefreshDone \/ PromotionRaises
  BY <1>3 DEF RefreshFails, RefreshDone, PromotionRaises, EndJob, Answered
<1>4. CASE Swap \/ Demote
  BY <1>4 DEF Swap, Demote
<1>5. ASSUME NEW s \in Sources, ReadIndex(s) PROVE NoRequestBesideJob'
  BY <1>5 DEF ReadIndex
<1>6. CASE DeleteKeys
  BY <1>6 DEF DeleteKeys
<1>7. CASE Handlers
  BY <1>7 DEF Handlers, TriggerRefresh, RemoveDashboard, LoadDashboard,
     LoadDashboardUnsaved, ResetCache, ChangeTtl
<1>8. CASE Tick
  BY <1>8 DEF Tick
<1>9. CASE Crash
  BY <1>9 DEF Crash
<1>10. ASSUME NEW d \in Dashboards, ReloadDashboard(d) PROVE NoRequestBesideJob'
  BY <1>10 DEF ReloadDashboard
<1>11. CASE UNCHANGED vars
  BY <1>11 DEF vars
<1>12. QED
  BY <1>1, <1>2, <1>3, <1>4, <1>5, <1>6, <1>7, <1>8, <1>9, <1>10, <1>11
     DEF Next, Step, Refresh

\* The time to live is set once in a steady process.
LEMMA LivesStep ==
  ASSUME TypeInv, steady, LivesOfSetting, [Next]_vars
  PROVE  LivesOfSetting'
<1> USE Numbers DEF TypeInv, TypeOK, Lives, LivesOfSetting, NoEntry, NoIndex, redisVars,
        historyVars
<1>1. CASE Request
  <2>1. CASE (\E k \in Keys : Miss(k)) \/ Query
    BY <2>1 DEF Miss, Query
  <2>2. CASE SetEntry
    BY <2>2 DEF SetEntry
  <2>3. ASSUME NEW n \in Names, AddToIndex(n) PROVE LivesOfSetting'
    BY <2>3 DEF AddToIndex, IndexLife
  <2>4. QED
    BY <1>1, <2>1, <2>2, <2>3 DEF Request
<1>2. CASE Refresh
  BY <1>2 DEF Refresh, StartJob, RefreshFails, RefreshDone, Swap, Demote, PromotionRaises,
     ReadIndex, DeleteKeys
<1>3. CASE Handlers
  BY <1>3 DEF Handlers, TriggerRefresh, RemoveDashboard, LoadDashboard,
     LoadDashboardUnsaved, ResetCache, ChangeTtl, WithoutDashboard
<1>4. CASE Tick
  <2>1. ASSUME NEW k \in Keys, ttl > 0 PROVE store'[k].left <= ttl
    BY <1>4, <2>1 DEF Tick, Older
  <2>2. ASSUME NEW n \in Names, ttl = 0 PROVE index'[n].left \in {0, Forever}
    BY <1>4, <2>2 DEF Tick, Older
  <2>3. QED
    BY <1>4, <2>1, <2>2 DEF Tick
<1>5. CASE Crash
  BY <1>5 DEF Crash
<1>6. ASSUME NEW d \in Dashboards, ReloadDashboard(d) PROVE LivesOfSetting'
  BY <1>6 DEF ReloadDashboard, WithoutDashboard
<1>7. CASE UNCHANGED vars
  BY <1>7 DEF vars
<1>8. QED
  BY <1>1, <1>2, <1>3, <1>4, <1>5, <1>6, <1>7 DEF Next, Step

\* A response keeps its place in every index as long as nothing touches the
\* two, and a handler that deletes responses takes them out of what is served.
LEMMA ListedFrame ==
  ASSUME ServedAreListed, index' = index,
         \A k \in Keys, n \in Names : Adding(k, n) => Adding(k, n)',
         \A k \in Keys : Served(k)' => Served(k) /\ store'[k] = store[k]
  PROVE  ServedAreListed'
  BY NamesOfKeys DEF ServedAreListed, Listed

\* A response is in Redis before its key is in the indexes, and leaves it
\* before the indexes do.
LEMMA ListedStep ==
  ASSUME TypeInv, steady, NoRequestBesideJob, LivesOfSetting, ServedAreListed,
         ReadIsCurrent, [Next]_vars
  PROVE  ServedAreListed'
<1> USE Numbers, NamesOfKeys DEF historyVars
<1>1. ASSUME NEW k \in Keys, Miss(k) PROVE ServedAreListed'
  BY <1>1, ListedFrame DEF Miss, Adding, Free, Served, Cached, redisVars
<1>2. CASE Query
  BY <1>2, ListedFrame DEF Query, Adding, Served, Cached, redisVars
<1>3. CASE SetEntry
  <2>1. /\ loop.op = "store" /\ loop.key \in Keys
        /\ loop' = [op |-> "index", key |-> loop.key, todo |-> Tables[DashOf(loop.key)]]
        /\ UNCHANGED <<def, index>> /\ missed' = missed \ {loop.key}
        /\ \A k \in Keys : k # loop.key => store'[k] = store[k]
    BY <1>3 DEF SetEntry, TypeInv, TypeOK, LoopStates
  <2>2. \A k \in Keys : k # loop.key /\ Served(k)' => Served(k)
    BY <2>1 DEF Served, Cached
  <2>3. \A k \in Keys, n \in Names : ~Adding(k, n)
    BY <2>1 DEF Adding
  <2>4. \A k \in Keys : k = loop.key => \A n \in Tables[DashOf(k)] : Adding(k, n)'
    BY <2>1 DEF Adding
  <2>5. ASSUME NEW k \in Keys, Served(k)', NEW n \in Tables[DashOf(k)]
        PROVE  Adding(k, n)' \/ Listed(k, n)'
    <3>1. CASE k = loop.key
      BY <2>4, <3>1
    <3>2. CASE k # loop.key
      BY <2>1, <2>2, <2>3, <2>5, <3>2 DEF ServedAreListed, Listed
    <3>3. QED
      BY <3>1, <3>2
  <2>6. QED
    BY <2>5 DEF ServedAreListed
<1>4. ASSUME NEW m \in Names, AddToIndex(m) PROVE ServedAreListed'
  <2>1. /\ loop.op = "index" /\ m \in loop.todo /\ loop.key \in Keys
        /\ UNCHANGED <<def, store, missed>>
        /\ \A n \in Names : n # m => index'[n] = index[n]
        /\ index'[m].keys = index[m].keys \cup {loop.key}
        /\ index'[m].left = IndexLife(m)
    BY <1>4 DEF AddToIndex, TypeInv, TypeOK, LoopStates
  <2>2. \A k \in Keys : store[k].left <= index'[m].left
    <3>1. \A k \in Keys : store[k].left <= Forever /\ store[k].left \in Nat
      BY DEF TypeInv, TypeOK, Lives
    <3>2. index[m].left \in Nat /\ ttl \in Nat
      BY DEF TypeInv, TypeOK, Lives
    <3>3. CASE ttl > 0
      <4>1. IndexLife(m) = ttl + Buffer
        BY ONLY <3>3 DEF IndexLife
      <4>2. QED
        BY <2>1, <3>1, <3>2, <3>3, <4>1 DEF LivesOfSetting
    <3>4. CASE ttl = 0
      BY <2>1, <3>1, <3>2, <3>4 DEF IndexLife, LivesOfSetting
    <3>5. QED
      BY <3>2, <3>3, <3>4
  <2>3. \A k \in Keys : Served(k)' => Served(k)
    BY <2>1 DEF Served, Cached
  <2>4. \A k \in Keys, n \in Names : n # m /\ Adding(k, n) => Adding(k, n)'
    BY <1>4 DEF AddToIndex, Adding, TypeInv, TypeOK, LoopStates
  <2>5. ASSUME NEW k \in Keys, Served(k)', NEW n \in Tables[DashOf(k)]
        PROVE  Adding(k, n)' \/ Listed(k, n)'
    <3>0. n \in Names /\ (Adding(k, n) \/ Listed(k, n))
      BY <2>3, <2>5 DEF ServedAreListed
    <3>1. CASE n = m
      BY <2>1, <2>2, <3>0, <3>1 DEF Adding, Listed
    <3>2. CASE n # m
      BY <2>1, <2>4, <3>0, <3>2 DEF Listed
    <3>3. QED
      BY <3>1, <3>2
  <2>6. QED
    BY <2>5 DEF ServedAreListed
<1>5. CASE DeleteKeys
  <2>1. /\ job.pc = "deleting" /\ job.name \in Names
        /\ index[job.name].keys \subseteq job.keys
        /\ UNCHANGED <<def, loop, missed>>
        /\ \A k \in Keys : store'[k] = IF k \in job.keys THEN NoEntry ELSE store[k]
        /\ \A n \in Names : n # job.name => index'[n] = index[n]
    BY <1>5 DEF DeleteKeys, TypeInv, TypeOK, JobStates, Names, ReadIsCurrent
  <2>2. \A k \in Keys : Served(k)' => Served(k) /\ k \notin job.keys /\ store'[k] = store[k]
    BY <2>1 DEF Served, Cached, NoEntry
  <2>3. \A k \in Keys, n \in Names : ~Adding(k, n)
    BY <2>1 DEF Adding, NoRequestBesideJob
  <2>4. QED
    BY <2>1, <2>2, <2>3 DEF ServedAreListed, Listed
<1>6. CASE StartJob \/ Swap \/ Demote \/ \E s \in Sources : ReadIndex(s)
  BY <1>6, ListedFrame DEF StartJob, Swap, Demote, ReadIndex, Adding, Served, Cached, redisVars
<1>7. CASE RefreshFails \/ RefreshDone \/ PromotionRaises
  <2>1. loop.op \in {"refresh", "starting"} /\ UNCHANGED <<def, store, index, missed>>
    BY <1>7 DEF RefreshFails, RefreshDone, PromotionRaises, NoRequestBesideJob, redisVars
  <2>2. QED
    BY <2>1, ListedFrame DEF Adding, Served, Cached
<1>8. CASE TriggerRefresh \/ \E d \in Dashboards : RemoveDashboard(d)
  BY <1>8, ListedFrame
     DEF TriggerRefresh, RemoveDashboard, Adding, Free, Served, Cached, redisVars, TypeInv, TypeOK
<1>9. ASSUME NEW d \in Dashboards, NEW version \in Versions, LoadDashboard(d, version)
      PROVE  ServedAreListed'
  BY <1>9, ListedFrame
     DEF LoadDashboard, WithoutDashboard, Adding, Served, Cached, NoEntry, TypeInv, TypeOK
<1>10. CASE ResetCache
  BY <1>10 DEF ResetCache, ServedAreListed, Served, Cached, NoEntry
<1>11. CASE ChangeTtl
  BY <1>11 DEF ChangeTtl
<1>12. CASE Tick
  <2>1. ASSUME NEW k \in Keys, Served(k)'
        PROVE  /\ Served(k) /\ store[k].left > 1
               /\ store'[k].left = Older(store[k].left)
    <3>1. store'[k] = IF store[k].left <= 1 THEN NoEntry
                      ELSE [store[k] EXCEPT !.left = Older(store[k].left)]
      BY ONLY <1>12 DEF Tick
    <3>2. store[k] \in [gen : 0..MaxGen, def : Versions \cup {0}, left : Lives]
      BY DEF TypeInv, TypeOK
    <3>3. store[k].left \in Nat /\ store'[k].left > 0 /\ def'[DashOf(k)] # 0 /\ def' = def
          /\ missed' = missed /\ k \notin missed
      BY <1>12, <2>1, <3>2 DEF Served, Cached, Lives, Tick
    <3>4. ~(store[k].left <= 1)
      BY <3>1, <3>3 DEF NoEntry
    <3>5. QED
      BY <3>1, <3>2, <3>3, <3>4 DEF Served, Cached
  <2>2. ASSUME NEW k \in Keys, NEW n \in Names, store[k].left > 1,
               store'[k].left = Older(store[k].left), Listed(k, n)
        PROVE  Listed(k, n)'
    <3>1. /\ store[k].left \in 0..Forever /\ index[n].left \in 0..Forever
          /\ index[n] \in [keys : SUBSET Keys, left : Lives]
      BY DEF TypeInv, TypeOK, Lives
    <3>2. index'[n] = IF index[n].left <= 1 THEN NoIndex
                      ELSE [index[n] EXCEPT !.left = Older(index[n].left)]
      BY ONLY <1>12 DEF Tick
    <3>3. ~(index[n].left <= 1) /\ store[k].left <= index[n].left
      BY <2>2, <3>1 DEF Listed
    <3>4. index'[n].keys = index[n].keys /\ index'[n].left = Older(index[n].left)
      BY ONLY <3>1, <3>2, <3>3
    <3>5. Older(store[k].left) <= Older(index[n].left)
      BY <3>1, <3>3 DEF Older
    <3>6. QED
      BY <2>2, <3>4, <3>5 DEF Listed
  <2>3. \A k \in Keys, n \in Names : Adding(k, n) => Adding(k, n)'
    BY <1>12 DEF Tick, Adding
  <2>4. QED
    BY <2>1, <2>2, <2>3 DEF ServedAreListed
<1>13. CASE Crash
  BY <1>13 DEF Crash, ServedAreListed, Served
<1>14. ASSUME NEW d \in Dashboards, ReloadDashboard(d) PROVE ServedAreListed'
  BY <1>14, ListedFrame
     DEF ReloadDashboard, WithoutDashboard, Adding, Served, Cached, NoEntry, TypeInv, TypeOK
<1>15. CASE UNCHANGED vars
  BY <1>15, ListedFrame DEF vars, Adding, Served, Cached, redisVars
<1>15a. ASSUME NEW d \in Dashboards, NEW version \in Versions,
               LoadDashboardUnsaved(d, version)
        PROVE  ServedAreListed'
  BY <1>15a, ListedFrame
     DEF LoadDashboardUnsaved, Adding, Free, Served, Cached, redisVars, TypeInv, TypeOK
<1>16. QED
  BY <1>1, <1>2, <1>3, <1>4, <1>5, <1>6, <1>7, <1>8, <1>9, <1>10, <1>11, <1>12, <1>13,
     <1>14, <1>15, <1>15a DEF Next, Step, Request, Refresh, Handlers

\* Nobody adds to an index between a refresh's SMEMBERS and its DEL.
LEMMA ReadStep ==
  ASSUME TypeInv, steady, NoRequestBesideJob, ReadIsCurrent, [Next]_vars
  PROVE  ReadIsCurrent'
<1>1. SUFFICES ASSUME job'.pc = "deleting"
               PROVE  index'[job'.name].keys \subseteq job'.keys
  BY DEF ReadIsCurrent
<1>2. ASSUME NEW s \in Sources, ReadIndex(s)
      PROVE  index'[job'.name].keys \subseteq job'.keys
  BY <1>1, <1>2 DEF ReadIndex, redisVars, TypeInv, TypeOK, JobStates
<1>3. CASE job' = job
  <2>1. /\ job.pc = "deleting" /\ job.name \in Names
        /\ loop.op \in {"refresh", "starting"}
        /\ index[job.name].keys \subseteq job.keys
    BY <1>1, <1>3 DEF NoRequestBesideJob, ReadIsCurrent, TypeInv, TypeOK, JobStates, Names
  <2>2. CASE Tick
    BY <1>3, <2>1, <2>2 DEF Tick, NoIndex, TypeInv, TypeOK
  <2>3. CASE index' = index
    BY <1>3, <2>1, <2>3
  <2>4. CASE DeleteKeys
    BY <1>1, <2>4 DEF DeleteKeys
  <2>5. CASE Request
    BY <2>1, <2>3, <2>5
       DEF Request, Miss, Query, SetEntry, AddToIndex, redisVars, Free
  <2>6. CASE Refresh /\ ~DeleteKeys
    BY <2>3, <2>6
       DEF Refresh, StartJob, RefreshFails, RefreshDone, Swap, Demote, PromotionRaises,
           ReadIndex, redisVars
  <2>7. CASE Handlers
    BY <2>1, <2>3, <2>7
       DEF Handlers, TriggerRefresh, RemoveDashboard, LoadDashboard, LoadDashboardUnsaved,
           ResetCache, ChangeTtl, redisVars, Free
  <2>8. CASE Crash \/ (\E d \in Dashboards : ReloadDashboard(d)) \/ UNCHANGED vars
    BY <2>3, <2>8 DEF Crash, ReloadDashboard, redisVars, vars
  <2>9. QED
    BY <2>2, <2>4, <2>5, <2>6, <2>7, <2>8 DEF Next, Step
<1>4. CASE \/ StartJob \/ RefreshFails \/ RefreshDone \/ PromotionRaises
           \/ Swap \/ Demote \/ DeleteKeys \/ Crash
  BY <1>1, <1>4 DEF StartJob, RefreshFails, RefreshDone, PromotionRaises, EndJob, Swap, Demote, DeleteKeys,
     Crash, NoJob, TypeInv, TypeOK, JobStates
<1>5. QED
  BY <1>2, <1>3, <1>4
     DEF Next, Step, Request, Miss, Query, SetEntry, AddToIndex, Refresh, Handlers,
         TriggerRefresh, RemoveDashboard, LoadDashboard, LoadDashboardUnsaved,
         ResetCache, ChangeTtl, Tick, ReloadDashboard, vars

\* What is served stays or leaves; what is stale stays where it can be found.
LEMMA StaleFrame ==
  ASSUME StaleWillBeFound, gen' = gen, NotInvalidated \subseteq NotInvalidated',
         \A k \in Keys : Served(k)' => Served(k) /\ store'[k].gen = store[k].gen
  PROVE  StaleWillBeFound'
  BY DEF StaleWillBeFound

\* A refresh crosses out a source when no response of older data is listed
\* under it any more.
LEMMA StaleStep ==
  ASSUME TypeInv, steady, NoRequestBesideJob, ServedAreListed, ReadIsCurrent,
         StaleWillBeFound, ~PromotionRaises, [Next]_vars
  PROVE  StaleWillBeFound'
<1> USE NamesOfKeys DEF historyVars
<1>1. CASE Request /\ ~SetEntry
  BY <1>1, StaleFrame DEF Request, Miss, Query, AddToIndex, NotInvalidated, Served, Cached,
     redisVars
<1>2. CASE SetEntry
  <2>1. /\ job' = job /\ gen' = gen /\ def' = def /\ loop.key \in Keys /\ loop.gen = gen
        /\ missed' = missed \ {loop.key}
        /\ store'[loop.key].gen = loop.gen
        /\ \A k \in Keys : k # loop.key => store'[k] = store[k]
    BY <1>2 DEF SetEntry, NoRequestBesideJob, TypeInv, TypeOK, LoopStates
  <2>2. \A k \in Keys : Served(k)' /\ store'[k].gen # gen' => Served(k) /\ store'[k] = store[k]
    BY <2>1 DEF Served, Cached
  <2>3. NotInvalidated' = NotInvalidated
    BY <2>1 DEF NotInvalidated
  <2>4. QED
    BY <2>1, <2>2, <2>3 DEF StaleWillBeFound
<1>3. CASE StartJob \/ RefreshFails
  BY <1>3, StaleFrame DEF StartJob, RefreshFails, EndJob, NoJob, NotInvalidated, Served,
     Cached, redisVars
<1>4. CASE Swap
  BY <1>4 DEF Swap, NotInvalidated, StaleWillBeFound, TypeInv, TypeOK, JobStates
<1>5. CASE Demote
  BY <1>5, StaleFrame DEF Demote, NotInvalidated, Served, Cached, redisVars
<1>6. ASSUME NEW s \in Sources, ReadIndex(s) PROVE StaleWillBeFound'
  <2>1. /\ job.pc = "invalidating" /\ loop.op \in {"refresh", "starting"}
        /\ UNCHANGED <<gen, def, store, index, loop, missed>>
    BY <1>6 DEF ReadIndex, NoRequestBesideJob, redisVars
  <2>2. CASE index[s].keys = {}
    <3>1. NotInvalidated = job.todo /\ NotInvalidated' = job.todo \ {s}
      BY <1>6, <2>1, <2>2 DEF ReadIndex, NotInvalidated, TypeInv, TypeOK, JobStates
    <3>2. \A k \in Keys : Served(k) => s \notin Tables[DashOf(k)]
      BY <2>1, <2>2 DEF ServedAreListed, Adding, Listed
    <3>3. QED
      BY <2>1, <3>1, <3>2 DEF StaleWillBeFound, Served, Cached
  <2>3. CASE index[s].keys # {}
    <3>1. NotInvalidated = job.todo /\ NotInvalidated' = (job.todo \ {s}) \cup {s}
      BY <1>6, <2>1, <2>3 DEF ReadIndex, NotInvalidated
    <3>2. QED
      BY <2>1, <3>1, StaleFrame DEF Served, Cached
  <2>4. QED
    BY <2>2, <2>3
<1>7. CASE DeleteKeys
  <2>1. /\ job.pc = "deleting" /\ loop.op \in {"refresh", "starting"}
        /\ index[job.name].keys \subseteq job.keys
        /\ UNCHANGED <<gen, def, loop, missed>>
        /\ \A k \in Keys : store'[k] = IF k \in job.keys THEN NoEntry ELSE store[k]
    BY <1>7 DEF DeleteKeys, NoRequestBesideJob, ReadIsCurrent
  <2>2. \A k \in Keys : Served(k)' => Served(k) /\ k \notin job.keys /\ store'[k] = store[k]
    BY <2>1 DEF Served, Cached, NoEntry
  <2>3. NotInvalidated = job.todo \cup {job.name} /\ NotInvalidated' = job.todo
    BY <1>7 DEF DeleteKeys, NotInvalidated
  <2>4. \A k \in Keys : Served(k)' => job.name \notin Tables[DashOf(k)]
    BY <2>1, <2>2 DEF ServedAreListed, Adding, Listed
  <2>5. QED
    BY <2>1, <2>2, <2>3, <2>4 DEF StaleWillBeFound
<1>8. CASE RefreshDone
  BY <1>8, StaleFrame DEF RefreshDone, EndJob, NoJob, NotInvalidated, Served, Cached, redisVars
<1>9. CASE TriggerRefresh \/ \E d \in Dashboards : RemoveDashboard(d)
  BY <1>9, StaleFrame DEF TriggerRefresh, RemoveDashboard, NotInvalidated, Served, Cached,
     redisVars, TypeInv, TypeOK
<1>10. ASSUME NEW d \in Dashboards, NEW version \in Versions, LoadDashboard(d, version)
       PROVE  StaleWillBeFound'
  BY <1>10, StaleFrame DEF LoadDashboard, WithoutDashboard, NotInvalidated, Served, Cached,
     NoEntry, TypeInv, TypeOK
<1>11. CASE ResetCache
  BY <1>11 DEF ResetCache, StaleWillBeFound, Served, Cached, NoEntry
<1>12. CASE ChangeTtl
  BY <1>12 DEF ChangeTtl
<1>13. CASE Tick
  <2>1. ASSUME NEW k \in Keys, Served(k)'
        PROVE  Served(k) /\ store'[k].gen = store[k].gen
    <3>1. store'[k] = IF store[k].left <= 1 THEN NoEntry
                      ELSE [store[k] EXCEPT !.left = Older(store[k].left)]
      BY ONLY <1>13 DEF Tick
    <3>2. store[k] \in [gen : 0..MaxGen, def : Versions \cup {0}, left : Lives]
      BY DEF TypeInv, TypeOK
    <3>3. store[k].left \in Nat /\ store'[k].left > 0 /\ def'[DashOf(k)] # 0 /\ def' = def
          /\ missed' = missed /\ k \notin missed
      BY <1>13, <2>1, <3>2, Numbers DEF Served, Cached, Lives, Tick
    <3>4. ~(store[k].left <= 1)
      BY <3>1, <3>3 DEF NoEntry
    <3>5. QED
      BY <3>1, <3>2, <3>3, <3>4 DEF Served, Cached
  <2>2. QED
    BY <1>13, <2>1, StaleFrame DEF Tick, NotInvalidated
<1>14. CASE Crash
  BY <1>14 DEF Crash, StaleWillBeFound, Served
<1>15. ASSUME NEW d \in Dashboards, ReloadDashboard(d) PROVE StaleWillBeFound'
  BY <1>15, StaleFrame DEF ReloadDashboard, WithoutDashboard, NotInvalidated, Served, Cached,
     NoEntry, TypeInv, TypeOK
<1>16. CASE UNCHANGED vars
  BY <1>16, StaleFrame DEF vars, NotInvalidated, Served, Cached, redisVars
<1>16a. ASSUME NEW d \in Dashboards, NEW version \in Versions,
               LoadDashboardUnsaved(d, version)
        PROVE  StaleWillBeFound'
  BY <1>16a, StaleFrame DEF LoadDashboardUnsaved, NotInvalidated, Served, Cached, redisVars,
     TypeInv, TypeOK
<1>17. QED
  BY <1>1, <1>2, <1>3, <1>4, <1>5, <1>6, <1>7, <1>8, <1>9, <1>10, <1>11, <1>12, <1>13,
     <1>14, <1>15, <1>16, <1>16a DEF Next, Step, Request, Refresh, Handlers

\* Nothing has been skipped, or the refresh that runs makes up for it.
Tracked == skipped => job.pc \in {"draining", "invalidating", "deleting"}

\* A promotion that raises leaves responses behind that nobody looks for; the
\* next swap has every source invalidated again.
LEMMA TrackedStep ==
  ASSUME TypeInv, steady, NoRequestBesideJob, ServedAreListed, ReadIsCurrent,
         Tracked => StaleWillBeFound, [Next]_vars, Tracked'
  PROVE  StaleWillBeFound'
<1>1. CASE PromotionRaises
  BY <1>1 DEF PromotionRaises, EndJob, NoJob, Tracked
<1>2. CASE Swap
  BY <1>2, NamesOfKeys DEF Swap, NotInvalidated, StaleWillBeFound, TypeInv, TypeOK, JobStates
<1>3. CASE Crash \/ ResetCache
  <2>1. CASE Crash
    BY <2>1, NamesOfKeys DEF Crash, StaleWillBeFound, Served
  <2>2. CASE ResetCache
    BY <2>2 DEF ResetCache, StaleWillBeFound, Served, Cached, NoEntry
  <2>3. QED
    BY <1>3, <2>1, <2>2
<1>4. CASE ~PromotionRaises /\ ~Swap /\ ~Crash /\ ~ResetCache
  <2>1. CASE skipped' = skipped /\ job' = job
    BY <1>4, <2>1, StaleStep DEF Tracked
  <2>2. CASE StartJob \/ RefreshFails
    BY <1>4, <2>2, StaleStep
       DEF StartJob, RefreshFails, EndJob, NoJob, Tracked, historyVars
  <2>3. CASE Demote \/ DeleteKeys \/ RefreshDone \/ \E s \in Sources : ReadIndex(s)
    BY <1>4, <2>3, StaleStep DEF Demote, DeleteKeys, RefreshDone, ReadIndex, Tracked
  <2>4. QED
    BY <1>4, <2>1, <2>2, <2>3
       DEF Next, Step, Request, Miss, Query, SetEntry, AddToIndex, Refresh, Handlers,
           TriggerRefresh, RemoveDashboard, LoadDashboard, LoadDashboardUnsaved,
           ChangeTtl, Tick, ReloadDashboard, vars, historyVars
<1>5. QED
  BY <1>1, <1>2, <1>3, <1>4

\* An empty Redis lists everything it has.
LEMMA SteadyInit == Init => SteadyInv /\ (steady /\ Tracked => StaleWillBeFound)
  BY Numbers
     DEF Init, SteadyInv, NoRequestBesideJob, LivesOfSetting, ServedAreListed, ReadIsCurrent,
         StaleWillBeFound, Served, Cached, NoEntry, NoIndex, Free, NoJob

\* The four parts are inductive together.
LEMMA SteadyStep ==
  ASSUME TypeInv, SteadyInv, [Next]_vars
  PROVE  SteadyInv'
<1>1. steady' = steady
  BY DEF Next, vars
<1>2. QED
  BY <1>1, NoRequestBesideJobStep, LivesStep, ListedStep, ReadStep DEF SteadyInv

\* The index finds every response that can be served: between requests the key
\* is in the set of each name the response depends on, through expiry of the
\* response and of the sets, flushes, reloads, crashes and refreshes, for any
\* times to live, if nobody changes them and the loop waits for refreshes.
THEOREM IndexFindsEveryResponse == Spec => []CoveredByIndex
<1>1. TypeInv /\ SteadyInv => CoveredByIndex
  BY DEF SteadyInv, ServedAreListed, Served, Servable, Adding, Listed, CoveredByIndex
<1>2. QED
  BY <1>1, TypeInit, TypeStep, SteadyInit, SteadyStep, PTL DEF Spec

\* When a refresh is over no response of the data it replaced can be served,
\* nor of earlier data a failed promotion left behind, if every dashboard shows
\* the table of a data source without a query.
THEOREM RefreshLeavesNothingStale ==
  ASSUME EveryDashboardShowsASource PROVE Spec => []FreshAfterRefresh
<1>1. (steady /\ Tracked => StaleWillBeFound) => FreshAfterRefresh
  <2>1. SUFFICES ASSUME StaleWillBeFound, job.pc \in {"none", "loading"},
                        NEW k \in Keys, Served(k)
                 PROVE  store[k].gen = gen
    BY DEF FreshAfterRefresh, Tracked, Served, Servable
  <2>2. NotInvalidated = {}
    BY <2>1 DEF NotInvalidated
  <2>3. Tables[DashOf(k)] \cap Sources # {}
    BY NamesOfKeys DEF EveryDashboardShowsASource
  <2>4. QED
    BY <2>1, <2>2, <2>3 DEF StaleWillBeFound
<1>2. TypeInv /\ SteadyInv /\ (steady /\ Tracked => StaleWillBeFound) /\ [Next]_vars
         => (steady /\ Tracked => StaleWillBeFound)'
  <2>1. [Next]_vars => steady' = steady
    BY DEF Next, vars
  <2>2. QED
    BY <2>1, TrackedStep DEF SteadyInv
<1>3. QED
  BY <1>1, <1>2, TypeInit, TypeStep, SteadyInit, SteadyStep, PTL DEF Spec
=============================================================================
