--------------------------- MODULE WidgetSetsProofs ---------------------------
(***************************************************************************)
(* Theorems about GeneralSettings and WidgetSets for any widget sets,      *)
(* servers, bodies, number of requests, failures and restarts: what is     *)
(* saved is what is in force, what follows the settings follows them, and  *)
(* the registry is what clients were told.                                 *)
(***************************************************************************)
EXTENDS WidgetSets, SequenceTheorems, TLAPS

-----------------------------------------------------------------------------
(* Sequences that name each thing once *)

\* del of a dictionary entry, as a sequence.
LEMMA RemoveAtProperties ==
  ASSUME NEW S, NEW s \in Seq(S), NEW i \in DOMAIN s
  PROVE  /\ RemoveAt(s, i) \in Seq(S)
         /\ Len(RemoveAt(s, i)) = Len(s) - 1
         /\ \A j \in 1..Len(s) - 1 : RemoveAt(s, i)[j] = IF j < i THEN s[j] ELSE s[j + 1]
<1>. DEFINE l == SubSeq(s, 1, i - 1)
            r == SubSeq(s, i + 1, Len(s))
<1>0. i \in 1..Len(s) /\ Len(s) \in Nat
  OBVIOUS
<1>1. l \in Seq(S) /\ Len(l) = i - 1 /\ \A j \in 1..i - 1 : l[j] = s[j]
  BY <1>0
<1>2. r \in Seq(S) /\ Len(r) = Len(s) - i /\ \A j \in 1..Len(s) - i : r[j] = s[i + j]
  BY <1>0
<1>4. RemoveAt(s, i) = l \o r
  BY DEF RemoveAt
<1>. HIDE DEF l, r
<1>3. /\ l \o r \in Seq(S)
      /\ Len(l \o r) = Len(l) + Len(r)
      /\ \A j \in 1..Len(l) + Len(r) : (l \o r)[j] = IF j <= Len(l) THEN l[j] ELSE r[j - Len(l)]
  BY <1>1, <1>2, ConcatProperties
<1>5. Len(l) + Len(r) = Len(s) - 1
  BY <1>0, <1>1, <1>2
<1>6. ASSUME NEW j \in 1..Len(s) - 1
      PROVE  (l \o r)[j] = IF j < i THEN s[j] ELSE s[j + 1]
  <2>1. CASE j < i
    BY <1>0, <1>1, <1>3, <1>5, <2>1
  <2>2. CASE ~(j < i)
    <3>1. j - (i - 1) \in 1..Len(s) - i /\ i + (j - (i - 1)) = j + 1
      BY <1>0, <2>2
    <3>2. (l \o r)[j] = r[j - (i - 1)]
      BY <1>0, <1>1, <1>3, <1>5, <2>2, SMTT(30)
    <3>3. QED
      BY <1>2, <2>2, <3>1, <3>2
  <2>3. QED
    BY <2>1, <2>2
<1>7. QED
  BY <1>3, <1>4, <1>5, <1>6

\* The elements after a removal from, and an addition to, such a sequence.
LEMMA RangeRemoveAt ==
  ASSUME NEW S, NEW s \in Seq(S), IsInjective(s), NEW i \in DOMAIN s
  PROVE  /\ Range(RemoveAt(s, i)) = Range(s) \ {s[i]}
         /\ IsInjective(RemoveAt(s, i))
<1>. DEFINE t == RemoveAt(s, i)
<1>a. t \in Seq(S) /\ Len(t) = Len(s) - 1
  BY RemoveAtProperties
<1>b. \A j \in 1..Len(s) - 1 : t[j] = IF j < i THEN s[j] ELSE s[j + 1]
  BY RemoveAtProperties
<1>. HIDE DEF t
<1>1. /\ DOMAIN s = 1..Len(s) /\ Len(s) \in Nat
      /\ DOMAIN t = 1..Len(s) - 1
      /\ \A j \in 1..Len(s) - 1 : t[j] = IF j < i THEN s[j] ELSE s[j + 1]
  BY <1>a, <1>b
<1>2. ASSUME NEW x \in Range(t) PROVE x \in Range(s) \ {s[i]}
  BY <1>1, <1>2 DEF Range, IsInjective
<1>3. ASSUME NEW x \in Range(s) \ {s[i]} PROVE x \in Range(t)
  <2>1. PICK j \in DOMAIN s : x = s[j] /\ j # i
    BY DEF Range
  <2>2. CASE j < i
    <3>1. j \in DOMAIN t /\ t[j] = x
      BY <1>1, <2>1, <2>2
    <3>2. QED
      BY <3>1 DEF Range
  <2>3. CASE j > i
    <3>1. j - 1 \in DOMAIN t /\ t[j - 1] = x
      BY <1>1, <2>1, <2>3
    <3>2. QED
      BY <3>1 DEF Range
  <2>4. QED
    BY <1>1, <2>1, <2>2, <2>3
<1>4. ASSUME NEW j \in DOMAIN t, NEW k \in DOMAIN t, t[j] = t[k]
      PROVE  j = k
  <2>1. PICK m : m = (IF j < i THEN j ELSE j + 1)
    OBVIOUS
  <2>2. PICK n : n = (IF k < i THEN k ELSE k + 1)
    OBVIOUS
  <2>3. m \in DOMAIN s /\ n \in DOMAIN s /\ t[j] = s[m] /\ t[k] = s[n]
    BY ONLY <1>1, <1>4, <2>1, <2>2, i \in DOMAIN s
  <2>4. m = n
    BY <1>4, <2>3 DEF IsInjective
  <2>5. QED
    BY ONLY <1>1, <1>4, <2>1, <2>2, <2>4, i \in DOMAIN s
<1>5. QED
  BY <1>2, <1>3, <1>4 DEF IsInjective, t

LEMMA RangeAppend ==
  ASSUME NEW S, NEW s \in Seq(S), NEW x \in S
  PROVE  /\ Append(s, x) \in Seq(S)
         /\ Range(Append(s, x)) = Range(s) \cup {x}
         /\ IsInjective(s) /\ x \notin Range(s) => IsInjective(Append(s, x))
<1>1. /\ DOMAIN s = 1..Len(s) /\ Len(s) \in Nat
      /\ DOMAIN Append(s, x) = 1..Len(s) + 1
      /\ Append(s, x)[Len(s) + 1] = x
      /\ \A j \in 1..Len(s) : Append(s, x)[j] = s[j]
      /\ Append(s, x) \in Seq(S)
  BY AppendProperties
<1>2. Range(Append(s, x)) = Range(s) \cup {x}
  BY <1>1 DEF Range
<1>3. ASSUME IsInjective(s), x \notin Range(s) PROVE IsInjective(Append(s, x))
  BY <1>1, <1>3 DEF IsInjective, Range
<1>4. QED
  BY <1>1, <1>2, <1>3

LEMMA RangeHeadTail ==
  ASSUME NEW S, NEW s \in Seq(S), s # << >>
  PROVE  /\ Head(s) \in S /\ Tail(s) \in Seq(S)
         /\ Range(s) = Range(Tail(s)) \cup {Head(s)}
<1>1. /\ DOMAIN s = 1..Len(s) /\ Len(s) \in Nat \ {0} /\ Head(s) = s[1]
      /\ Tail(s) \in Seq(S) /\ DOMAIN Tail(s) = 1..Len(s) - 1
      /\ \A j \in 1..Len(s) - 1 : Tail(s)[j] = s[j + 1]
  BY HeadTailProperties
<1>2. ASSUME NEW x \in Range(s) PROVE x \in Range(Tail(s)) \cup {Head(s)}
  <2>1. PICK j \in 1..Len(s) : x = s[j]
    BY <1>1 DEF Range
  <2>2. CASE j = 1
    BY <1>1, <2>1, <2>2
  <2>3. CASE j # 1
    <3>1. j - 1 \in 1..Len(s) - 1 /\ x = Tail(s)[j - 1]
      BY <1>1, <2>1, <2>3
    <3>2. QED
      BY <1>1, <3>1 DEF Range
  <2>4. QED
    BY <2>2, <2>3
<1>3. \A x \in Range(Tail(s)) \cup {Head(s)} : x \in Range(s)
  BY <1>1 DEF Range
<1>4. QED
  BY <1>1, <1>2, <1>3

LEMMA ContainsRange ==
  ASSUME NEW S, NEW s \in Seq(S), NEW x
  PROVE  Contains(s, x) <=> x \in Range(s)
  BY DEF Contains, Range

LEMMA RangeOfEmpty == Range(<< >>) = {}
  BY DEF Range

LEMMA RangeIn == ASSUME NEW S, NEW s \in Seq(S) PROVE Range(s) \subseteq S
  BY DEF Range

LEMMA Singleton == ASSUME NEW S, NEW x \in S PROVE <<x>> \in Seq(S)
  OBVIOUS

LEMMA PrefixesAreSequences ==
  ASSUME NEW S, NEW s \in Seq(S), NEW p \in Prefixes(s)
  PROVE  p \in Seq(S)
  BY SubSeqProperties DEF Prefixes

-----------------------------------------------------------------------------
(* Types, and what goes on when *)

Pending == Assignments \cup ({"active_widget_set"} \X SetIds)

SettingsTypes ==
    /\ data \in Settings
    /\ file \in Settings
    /\ client \in Servers \cup {None}
    /\ exists \in BOOLEAN /\ up \in BOOLEAN /\ writing \in BOOLEAN
    /\ unsaved \in BOOLEAN /\ stale \in BOOLEAN
    /\ broken \in BOOLEAN /\ raced \in BOOLEAN
    /\ todo \in Seq(Pending)
    /\ threads \in Seq(Targets \cup {Off})
    /\ handler \in Targets \cup {None}
    /\ last \in Autos
    /\ requests \in 0..MaxRequests
    /\ stops \in 0..MaxStops

RegistryTypes ==
    /\ sets \in Seq(SetIds) /\ IsInjective(sets)
    /\ setsFile \in Seq(SetIds)
    /\ queue \in Seq(SetIds)
    /\ saving \in BOOLEAN
    /\ adoption \in BOOLEAN
    /\ op \in Ops
    /\ told \in [SetIds -> {"nothing", "registered", "removed"}]
    /\ chosen \in SetIds \cup {None}

Down ==
    /\ todo = << >> /\ threads = << >> /\ handler = None
    /\ sets = << >> /\ op = NoOp /\ chosen = None

\* The registry is saved between the assignments of settings, never beside
\* them; a setting is written while its request waits; nothing runs while the
\* process is down.
Phases ==
    /\ saving => AtRest /\ op.kind \in {"seed", "load", "remove"}
    /\ writing => up /\ todo # << >>
    /\ op.kind \notin {"none", "boot"} => op.id \in SetIds
    /\ ~up => Down

\* What a pending assignment assigns.
LEMMA AssignmentCases ==
  ASSUME todo \in Seq(Pending), todo # << >>
  PROVE  \/ Key = "active_widget_set" /\ Value \in SetIds
         \/ Key = "anonymous_access" /\ Value \in BOOLEAN
         \/ Key = "auto_refresh" /\ Value \in Autos
         \/ Key = "redis_host" /\ Value \in Servers
         \/ Key = "row_limit" /\ Value \in Nat
         \/ Key = "syslog" /\ Value \in Targets \cup {Off}
<1>1. todo[1] \in Pending
  OBVIOUS
<1>2. QED
  BY <1>1 DEF Pending, Assignments, Key, Value

\* The dictionary after an assignment: one key is new, the others are kept.
LEMMA AssignedData ==
  ASSUME data \in Settings, todo \in Seq(Pending), todo # << >>, Valid
  PROVE  /\ [data EXCEPT ![Key] = Value] \in Settings
         /\ \A key \in DOMAIN _DEFAULTS :
               [data EXCEPT ![Key] = Value][key] = IF key = Key THEN Value ELSE data[key]
<1>1. CASE Key = "active_widget_set" /\ Value \in SetIds
  BY <1>1 DEF Settings, _DEFAULTS
<1>2. CASE Key = "anonymous_access" /\ Value \in BOOLEAN
  BY <1>2 DEF Settings, _DEFAULTS
<1>3. CASE Key = "auto_refresh" /\ Value \in Autos
  BY <1>3 DEF Settings, _DEFAULTS
<1>4. CASE Key = "redis_host" /\ Value \in Servers
  BY <1>4 DEF Settings, _DEFAULTS
<1>5. CASE Key = "row_limit" /\ Value \in Nat
  <2>1. Value \in Nat \ {0}
    BY <1>5 DEF Valid
  <2>2. QED
    BY <1>5, <2>1 DEF Settings, _DEFAULTS
<1>6. CASE Key = "syslog" /\ Value \in Targets \cup {Off}
  BY <1>6 DEF Settings, _DEFAULTS
<1>7. QED
  BY <1>1, <1>2, <1>3, <1>4, <1>5, <1>6, AssignmentCases

LEMMA DefaultsAreSettings ==
  _DEFAULTS \in Settings /\ \A allow \in BOOLEAN : [_DEFAULTS EXCEPT !.anonymous_access = allow] \in Settings
  BY AutosAssumption, DefaultsAssumption DEF _DEFAULTS, Settings

\* A torn file is a file of settings.
LEMMA CutIsSettings ==
  ASSUME data \in Settings, NEW n \in Nat
  PROVE  CutAt(n) \in Settings
<1>1. DOMAIN _DEFAULTS = {"active_widget_set", "anonymous_access", "auto_refresh",
                          "redis_host", "row_limit", "syslog"}
  BY DEF _DEFAULTS
<1>2. \A key \in DOMAIN _DEFAULTS : CutAt(n)[key] \in {data[key], _DEFAULTS[key]}
  BY DEF CutAt
<1>3. CutAt(n) = [key \in DOMAIN _DEFAULTS |-> CutAt(n)[key]]
  BY DEF CutAt
<1>4. PICK c : c = CutAt(n)
  OBVIOUS
<1>5. c = [active_widget_set |-> c.active_widget_set, anonymous_access |-> c.anonymous_access,
           auto_refresh |-> c.auto_refresh, redis_host |-> c.redis_host,
           row_limit |-> c.row_limit, syslog |-> c.syslog]
  BY <1>1, <1>3, <1>4
<1>6. /\ c.active_widget_set \in SetIds /\ c.anonymous_access \in BOOLEAN
      /\ c.auto_refresh \in Autos /\ c.redis_host \in Servers
      /\ c.row_limit \in Nat \ {0} /\ c.syslog \in Targets \cup {Off}
  BY <1>1, <1>2, <1>4, DefaultsAreSettings DEF Settings
<1>7. QED
  BY <1>4, <1>5, <1>6 DEF Settings

\* The dictionary, its file and what follows them keep their types.
LEMMA SettingsTypesStep ==
  ASSUME SettingsTypes, RegistryTypes, Phases, [Next]_vars
  PROVE  SettingsTypes'
<1> USE BoundsAssumption
    DEF SettingsTypes, fileVars, redisVars, syslogVars, jobVars, followers, settingsRest,
        settingsVars, setVars, askVars, vars
<1>1. CASE Assign
  <2>1. data' \in Settings
    BY <1>1, AssignedData DEF Assign
  <2>2. file' \in Settings
    <3>1. \A n \in Nat : CutAt(n)' \in Settings
      BY <2>1, CutIsSettings DEF CutAt, Settings
    <3>2. QED
      BY <1>1, <3>1 DEF Assign
  <2>3. stale' \in BOOLEAN
    BY <1>1 DEF Assign
  <2>4. QED
    BY <1>1, <2>1, <2>2, <2>3 DEF Assign
<1>2. CASE AssignRaises
  <2>1. todo' \in Seq(Pending)
    BY <1>2 DEF AssignRaises
  <2>2. stale' \in BOOLEAN /\ broken' \in BOOLEAN
    BY <1>2 DEF AssignRaises
  <2>3. UNCHANGED <<data, fileVars, up, writing, client, syslogVars, jobVars, requests, stops>>
    BY <1>2 DEF AssignRaises
  <2>4. QED
    BY <2>1, <2>2, <2>3
<1>3. CASE SaveEnds \/ SaveFails
  <2>1. threads' \in Seq(Targets \cup {Off})
    <3>1. data.syslog \in Targets \cup {Off}
      BY DEF Settings
    <3>2. Append(threads, data.syslog) \in Seq(Targets \cup {Off})
      BY <3>1
    <3>3. QED
      BY <1>3, <3>2 DEF SaveEnds, SaveFails, Applied
  <2>2. todo' \in Seq(Pending)
    <3>1. todo # << >> /\ todo' = Tail(todo)
      BY <1>3 DEF SaveEnds, SaveFails, Applied, Phases
    <3>2. QED
      BY <3>1, RangeHeadTail
  <2>3. raced' \in BOOLEAN /\ unsaved' \in BOOLEAN /\ exists' \in BOOLEAN
    BY <1>3 DEF SaveEnds, SaveFails, Applied
  <2>4. file' \in Settings
    BY <1>3 DEF SaveEnds, SaveFails
  <2>5. UNCHANGED <<data, up, redisVars, handler, jobVars, requests, stops>> /\ writing' = FALSE
    BY <1>3 DEF SaveEnds, SaveFails, Applied
  <2>6. QED
    BY <2>1, <2>2, <2>3, <2>4, <2>5
<1>4. CASE Reconnect
  <2>1. data.redis_host \in Servers
    BY DEF Settings
  <2>2. QED
    BY <1>4, <2>1 DEF Reconnect, Connect
<1>5. ASSUME NEW i \in DOMAIN threads, ConfigureSyslog(i) PROVE SettingsTypes'
  <2>1. threads' \in Seq(Targets \cup {Off})
    BY <1>5, RemoveAtProperties DEF ConfigureSyslog
  <2>2. threads[i] \in Targets \cup {Off}
    OBVIOUS
  <2>3. handler' \in Targets \cup {None}
    BY <1>5, <2>2 DEF ConfigureSyslog
  <2>4. QED
    BY <1>5, <2>1, <2>3 DEF ConfigureSyslog
<1>6. CASE SyncScheduler
  BY <1>6 DEF SyncScheduler, Settings
<1>7. ASSUME NEW body \in Bodies, Put(body) PROVE SettingsTypes'
  <2>1. body \in Seq(Pending)
    BY BodiesAssumption DEF Pending
  <2>2. QED
    BY <1>7, <2>1 DEF Put, Request
<1>8. CASE SaveSetsEnds
  <2>1. op.kind = "remove" \/ <<<<"active_widget_set", op.id>>>> \in Seq(Pending)
    BY <1>8 DEF SaveSetsEnds, Phases, Pending
  <2>2. QED
    BY <1>8, <2>1 DEF SaveSetsEnds, Adopt
<1>9. CASE SaveSetsFails
  BY <1>9 DEF SaveSetsFails
<1>10. ASSUME NEW w \in SetIds, Load(w) \/ RemoveSet(w) PROVE SettingsTypes'
  BY <1>10 DEF Load, RemoveSet, Request
<1>11. ASSUME NEW w \in SetIds, Activate(w) PROVE SettingsTypes'
  <2>1. <<<<"active_widget_set", w>>>> \in Seq(Pending)
    BY DEF Pending
  <2>2. QED
    BY <1>11, <2>1 DEF Activate, Request
<1>12. CASE Answer \/ EntryRefused \/ EntryRaises \/ BootEnds \/ Seed
  BY <1>12 DEF Answer, EntryRefused, EntryRaises, BootEnds, Seed
<1>13. CASE Start
  <2>1. data' \in Settings
    BY <1>13, DefaultsAreSettings DEF Start, StartSettings, Loads, LoadFails, Loaded
  <2>2. data'.redis_host \in Servers /\ data'.syslog \in Targets \cup {Off}
    BY <2>1 DEF Settings
  <2>3. threads' \in Seq(Targets \cup {Off})
    <3>1. PICK t : t = data'.syslog
      OBVIOUS
    <3>2. <<t>> \in Seq(Targets \cup {Off}) /\ << >> \in Seq(Targets \cup {Off})
      BY <2>2, <3>1, Singleton
    <3>3. threads' \in {<<t>>, << >>}
      BY <1>13, <3>1 DEF Start, StartSettings, Loads, LoadFails
    <3>4. QED
      BY <3>2, <3>3
  <2>4. QED
    BY <1>13, <2>1, <2>2, <2>3 DEF Start, StartSettings, Loads, LoadFails, Connect
<1>14. CASE LoadEntry
  <2>1. Head(queue) \in SetIds
    BY <1>14, RangeHeadTail DEF LoadEntry, RegistryTypes
  <2>2. <<<<"active_widget_set", Head(queue)>>>> \in Seq(Pending)
    BY <2>1 DEF Pending
  <2>3. QED
    BY <1>14, <2>2 DEF LoadEntry, Adopt
<1>15. CASE Stop
  <2>1. todo' \in Seq(Pending) /\ threads' \in Seq(Targets \cup {Off})
    BY <1>15 DEF Stop, StopSettings
  <2>2. unsaved' \in BOOLEAN /\ stops' \in 0..MaxStops
    BY <1>15 DEF Stop, StopSettings
  <2>3. QED
    BY <1>15, <2>1, <2>2, AutosAssumption DEF Stop, StopSettings
<1>16. CASE UNCHANGED vars
  BY <1>16
<1>17. QED
  BY <1>1, <1>2, <1>3, <1>4, <1>5, <1>6, <1>7, <1>8, <1>9, <1>10, <1>11, <1>12, <1>13,
     <1>14, <1>15, <1>16 DEF Next, SettingsStep

\* Registering keeps a sequence that names each set once.
LEMMA RegisteredSets ==
  ASSUME RegistryTypes, NEW w \in SetIds
  PROVE  /\ Registered(w) \in Seq(SetIds) /\ IsInjective(Registered(w))
         /\ Range(Registered(w)) = Range(sets) \cup {w}
<1>1. Contains(sets, w) <=> w \in Range(sets)
  BY ContainsRange DEF RegistryTypes
<1>2. CASE w \in Range(sets)
  BY <1>1, <1>2 DEF Registered, RegistryTypes
<1>3. CASE w \notin Range(sets)
  BY <1>1, <1>3, RangeAppend DEF Registered, RegistryTypes
<1>4. QED
  BY <1>2, <1>3

\* So does removing one.
LEMMA UnregisteredSets ==
  ASSUME RegistryTypes, NEW w \in SetIds, Unregister(w)
  PROVE  /\ sets' \in Seq(SetIds) /\ IsInjective(sets')
         /\ Range(sets') = Range(sets) \ {w} /\ w \in Range(sets)
<1>1. PICK i \in DOMAIN sets : sets[i] = w /\ sets' = RemoveAt(sets, i)
  BY DEF Unregister
<1>2. QED
  BY <1>1, RangeRemoveAt, RemoveAtProperties, ZenonT(30) DEF RegistryTypes, Range

\* What a save of the registry may leave in its file.
LEMMA BegunSave ==
  ASSUME sets' \in Seq(SetIds), setsFile \in Seq(SetIds), BeginSave
  PROVE  saving' = TRUE /\ setsFile' \in Seq(SetIds)
<1>1. PICK s : s = sets'
  OBVIOUS
<1>2. Prefixes(sets') = Prefixes(s)
  BY <1>1
<1>3. Prefixes(s) \subseteq Seq(SetIds)
  BY <1>1, PrefixesAreSequences
<1>4. QED
  BY <1>2, <1>3 DEF BeginSave

\* The registry keeps its types.
LEMMA RegistryTypesStep ==
  ASSUME RegistryTypes, Phases, [Next]_vars
  PROVE  RegistryTypes'
<1> USE DEF setVars, askVars, vars
<1>1. CASE UNCHANGED <<setVars, askVars>>
  BY <1>1 DEF RegistryTypes
<1>2. CASE SaveSetsEnds
  BY <1>2 DEF SaveSetsEnds, RegistryTypes
<1>3. CASE SaveSetsFails
  <2>1. told' \in [SetIds -> {"nothing", "registered", "removed"}]
    BY <1>3 DEF SaveSetsFails, Retract, RegistryTypes
  <2>2. QED
    BY <1>3, <2>1 DEF SaveSetsFails, RegistryTypes, Ops
<1>4. ASSUME NEW w \in SetIds, Load(w) PROVE RegistryTypes'
  <2>1. sets' \in Seq(SetIds) /\ IsInjective(sets')
    BY <1>4, RegisteredSets DEF Load
  <2>2. saving' = TRUE /\ setsFile' \in Seq(SetIds)
    BY <1>4, <2>1, BegunSave DEF Load, RegistryTypes
  <2>3. QED
    BY <1>4, <2>1, <2>2 DEF Load, RegistryTypes, Ops
<1>5. ASSUME NEW w \in SetIds, RemoveSet(w) PROVE RegistryTypes'
  <2>1. sets' \in Seq(SetIds) /\ IsInjective(sets')
    BY <1>5, UnregisteredSets DEF RemoveSet
  <2>2. saving' = TRUE /\ setsFile' \in Seq(SetIds)
    BY <1>5, <2>1, BegunSave DEF RemoveSet, RegistryTypes
  <2>3. QED
    BY <1>5, <2>1, <2>2 DEF RemoveSet, RegistryTypes, Ops
<1>6. ASSUME NEW w \in SetIds, Activate(w) PROVE RegistryTypes'
  BY <1>6 DEF Activate, RegistryTypes, Ops
<1>7. CASE Answer
  <2>1. op.id \in SetIds
    BY <1>7 DEF Answer, Phases
  <2>2. QED
    BY <1>7, <2>1 DEF Answer, RegistryTypes, Ops
<1>8. CASE Start
  BY <1>8 DEF Start, RegistryTypes, Ops
<1>9. CASE LoadEntry
  <2>1. Head(queue) \in SetIds /\ Tail(queue) \in Seq(SetIds)
    BY <1>9, RangeHeadTail DEF LoadEntry, RegistryTypes
  <2>2. sets' \in Seq(SetIds) /\ IsInjective(sets')
    BY <1>9, <2>1, RegisteredSets DEF LoadEntry
  <2>3. QED
    BY <1>9, <2>1, <2>2 DEF LoadEntry, RegistryTypes
<1>10. CASE EntryRefused
  <2>1. Head(queue) \in SetIds /\ Tail(queue) \in Seq(SetIds)
    BY <1>10, RangeHeadTail DEF EntryRefused, RegistryTypes
  <2>2. QED
    BY <1>10, <2>1 DEF EntryRefused, RegistryTypes
<1>11. CASE EntryRaises \/ BootEnds
  <2>1. told' \in [SetIds -> {"nothing", "registered", "removed"}]
    BY <1>11 DEF EntryRaises, BootEnds, RegistryTypes
  <2>2. queue' \in Seq(SetIds)
    BY <1>11, EmptySeq DEF EntryRaises, BootEnds, RegistryTypes
  <2>3. QED
    BY <1>11, <2>1, <2>2 DEF EntryRaises, BootEnds, RegistryTypes, Ops
<1>12. CASE Seed
  <2>1. sets' \in Seq(SetIds) /\ IsInjective(sets')
    BY <1>12, DefaultsAssumption DEF Seed, IsInjective
  <2>2. saving' = TRUE /\ setsFile' \in Seq(SetIds)
    BY <1>12, <2>1, BegunSave DEF Seed, RegistryTypes
  <2>3. QED
    BY <1>12, <2>1, <2>2, DefaultsAssumption DEF Seed, RegistryTypes, Ops
<1>13. CASE Stop
  <2>1. told' \in [SetIds -> {"nothing", "registered", "removed"}]
    BY <1>13 DEF Stop, Retract, RegistryTypes
  <2>2. IsInjective(sets') /\ sets' \in Seq(SetIds) /\ queue' \in Seq(SetIds)
    BY <1>13 DEF Stop, IsInjective
  <2>3. QED
    BY <1>13, <2>1, <2>2 DEF Stop, RegistryTypes, Ops
<1>14. QED
  BY <1>1, <1>2, <1>3, <1>4, <1>5, <1>6, <1>7, <1>8, <1>9, <1>10, <1>11, <1>12, <1>13
     DEF Next

\* A step of the settings belongs to the request in progress.
LEMMA PhasesStep ==
  ASSUME SettingsTypes, RegistryTypes, Phases, [Next]_vars
  PROVE  Phases'
<1> USE DEF AtRest, Down, fileVars, redisVars, syslogVars, jobVars, followers, settingsRest,
        settingsVars, setVars, askVars, vars
<1>0. /\ up \in BOOLEAN /\ writing \in BOOLEAN /\ saving \in BOOLEAN /\ stale \in BOOLEAN
  BY DEF SettingsTypes, RegistryTypes
<1> USE <1>0
<1>1. CASE Assign /\ UNCHANGED <<setVars, askVars>>
  BY <1>1 DEF Assign, Phases
<1>2. CASE AssignRaises /\ UNCHANGED <<setVars, askVars>>
  BY <1>2 DEF AssignRaises, Phases
<1>3. CASE (SaveEnds \/ SaveFails) /\ UNCHANGED <<setVars, askVars>>
  BY <1>3 DEF SaveEnds, SaveFails, Applied, Phases
<1>4. CASE Reconnect /\ UNCHANGED <<setVars, askVars>>
  BY <1>4 DEF Reconnect, Phases
<1>5. ASSUME NEW i \in DOMAIN threads, ConfigureSyslog(i), UNCHANGED <<setVars, askVars>>
      PROVE  Phases'
  BY <1>5 DEF ConfigureSyslog, Phases
<1>6. CASE SyncScheduler /\ UNCHANGED <<setVars, askVars>>
  BY <1>6 DEF SyncScheduler, Phases
<1>7. ASSUME NEW body \in Bodies, op = NoOp, Put(body), UNCHANGED <<setVars, askVars>>
      PROVE  Phases'
  BY <1>7 DEF Put, Phases, NoOp
<1>8. CASE SaveSetsEnds
  BY <1>8 DEF SaveSetsEnds, Adopt, Phases
<1>9. CASE SaveSetsFails
  BY <1>9 DEF SaveSetsFails, Phases, NoOp
<1>10. ASSUME NEW w \in SetIds, Load(w) \/ RemoveSet(w) \/ Activate(w) PROVE Phases'
  BY <1>10 DEF Load, RemoveSet, Activate, Free, BeginSave, Phases, NoOp
<1>11. CASE Answer
  BY <1>11 DEF Answer, Phases, NoOp
<1>12. CASE Start
  BY <1>12 DEF Start, StartSettings, Phases, NoOp
<1>13. CASE LoadEntry
  BY <1>13 DEF LoadEntry, Booting, Adopt, Phases
<1>14. CASE EntryRefused \/ EntryRaises \/ BootEnds
  BY <1>14 DEF EntryRefused, EntryRaises, BootEnds, Booting, Phases, NoOp
<1>15. CASE Seed
  BY <1>15, DefaultsAssumption DEF Seed, Booting, BeginSave, Phases
<1>16. CASE Stop
  BY <1>16 DEF Stop, StopSettings, Phases, NoOp
<1>17. CASE UNCHANGED vars
  BY <1>17 DEF Phases
<1>18. QED
  BY <1>1, <1>2, <1>3, <1>4, <1>5, <1>6, <1>7, <1>8, <1>9, <1>10, <1>11, <1>12, <1>13,
     <1>14, <1>15, <1>16, <1>17 DEF Next, SettingsStep

Shape == SettingsTypes /\ RegistryTypes /\ Phases

\* A fresh installation.
LEMMA ShapeInit == Init => Shape
<1>1. SUFFICES ASSUME Init PROVE SettingsTypes /\ RegistryTypes /\ Phases
  BY DEF Shape
<1>2. SettingsTypes
  <2>1. todo \in Seq(Pending) /\ threads \in Seq(Targets \cup {Off})
    BY <1>1, EmptySeq DEF Init, SettingsInit
  <2>2. data \in Settings /\ file \in Settings
    BY <1>1, DefaultsAreSettings DEF Init, SettingsInit
  <2>3. requests \in 0..MaxRequests /\ stops \in 0..MaxStops
    BY <1>1, BoundsAssumption DEF Init, SettingsInit
  <2>4. QED
    BY <1>1, <2>1, <2>2, <2>3, AutosAssumption DEF Init, SettingsInit, SettingsTypes
<1>3. RegistryTypes
  <2>1. sets \in Seq(SetIds) /\ setsFile \in Seq(SetIds) /\ queue \in Seq(SetIds)
    BY <1>1, EmptySeq DEF Init
  <2>2. IsInjective(sets)
    BY <1>1 DEF Init, IsInjective
  <2>3. told \in [SetIds -> {"nothing", "registered", "removed"}]
    BY <1>1 DEF Init
  <2>4. QED
    BY <1>1, <2>1, <2>2, <2>3 DEF Init, RegistryTypes, Ops
<1>4. Phases
  BY <1>1 DEF Init, SettingsInit, Phases, Down, NoOp
<1>5. QED
  BY <1>2, <1>3, <1>4

LEMMA ShapeStep == Shape /\ [Next]_vars => Shape'
  BY SettingsTypesStep, RegistryTypesStep, PhasesStep DEF Shape

\* The settings, the registry and the requests are well typed in every
\* reachable state, whatever is assigned, torn, refused and restarted.
THEOREM Typing == Spec => []TypeOK
<1>1. Shape => TypeOK
  <2>1. SUFFICES ASSUME Shape PROVE SettingsTypeOK /\ TypeOK
    OBVIOUS
  <2>2. Range(threads) \subseteq Targets \cup {Off}
    BY <2>1, RangeIn DEF Shape, SettingsTypes
  <2>3. SettingsTypeOK
    BY <2>1, <2>2 DEF Shape, SettingsTypes, SettingsTypeOK
  <2>4. Range(sets) \subseteq SetIds /\ Range(setsFile) \subseteq SetIds /\ Range(queue) \subseteq SetIds
    BY <2>1, RangeIn DEF Shape, RegistryTypes
  <2>5. QED
    BY <2>1, <2>3, <2>4 DEF Shape, RegistryTypes, TypeOK
<1>2. QED
  BY <1>1, ShapeInit, ShapeStep, PTL DEF Spec

-----------------------------------------------------------------------------
(* What follows the settings *)

\* What a step of the registry may do to the settings: ask for an assignment,
\* and only when nothing is being assigned.
Asks ==
    /\ AtRest
    /\ UNCHANGED <<data, fileVars, up, writing, followers, stops>>

\* A process comes up with what it reads, or goes down.
LEMMA StepsOfSettings ==
  ASSUME Shape, [Next]_vars
  PROVE  \/ SettingsStep \/ Asks \/ UNCHANGED settingsVars
         \/ StartSettings \/ StopSettings
<1> USE DEF AtRest, settingsRest, settingsVars, setVars, askVars, vars
<1>1. ASSUME NEW body \in Bodies, Put(body) PROVE Asks
  BY <1>1 DEF Put, Asks
<1>2. CASE SaveSetsEnds
  BY <1>2 DEF SaveSetsEnds, Asks, Shape, Phases
<1>3. ASSUME NEW w \in SetIds, Load(w) \/ RemoveSet(w) \/ Activate(w) PROVE Asks
  BY <1>3 DEF Load, RemoveSet, Activate, Free, Asks
<1>4. CASE LoadEntry
  BY <1>4 DEF LoadEntry, Booting, Asks
<1>5. QED
  BY <1>1, <1>2, <1>3, <1>4 DEF Next, SaveSetsFails, Answer, Start, EntryRefused, EntryRaises,
     BootEnds, Seed, Stop

\* Whenever no save is at work the file is what is in force, or a save failed.
FileFollows == up /\ ~writing /\ exists /\ ~unsaved => file = data

LEMMA FileStep ==
  ASSUME Shape, FileFollows, [Next]_vars
  PROVE  FileFollows'
<1>0. up \in BOOLEAN /\ writing \in BOOLEAN /\ exists \in BOOLEAN /\ unsaved \in BOOLEAN
  BY DEF Shape, SettingsTypes
<1> USE <1>0 DEF FileFollows, fileVars, settingsVars
<1>1. CASE Assign
  BY <1>1 DEF Assign
<1>2. CASE AssignRaises \/ Reconnect \/ SyncScheduler \/ \E i \in DOMAIN threads : ConfigureSyslog(i)
  BY <1>2 DEF AssignRaises, Reconnect, SyncScheduler, ConfigureSyslog
<1>3. CASE SaveEnds \/ SaveFails
  BY <1>3 DEF SaveEnds, SaveFails, Applied
<1>4. CASE Asks \/ UNCHANGED settingsVars
  BY <1>4 DEF Asks
<1>5. CASE StartSettings
  BY <1>5 DEF StartSettings, Loads, LoadFails, Loaded
<1>6. CASE StopSettings
  BY <1>6 DEF StopSettings
<1>7. QED
  BY <1>1, <1>2, <1>3, <1>4, <1>5, <1>6, StepsOfSettings DEF SettingsStep

\* A restart brings back what is in force: between requests the file of the
\* settings is the dictionary, through refused values, torn files, failed saves
\* and crashes, unless the last save failed.
THEOREM RestartBringsBackTheSettings == Spec => []SavedAsServed
<1>1. Init => FileFollows
  BY DEF Init, SettingsInit, FileFollows
<1>2. FileFollows => SavedAsServed
  BY DEF FileFollows, SavedAsServed, AtRest
<1>3. Shape /\ FileFollows /\ [Next]_vars => FileFollows'
  BY FileStep
<1>4. QED
  BY <1>1, <1>2, <1>3, ShapeInit, ShapeStep, PTL DEF Spec

\* The client is of the server that is set, unless a reconnect is due.
ClientFollows == ~stale /\ ~broken => client \in {data.redis_host, None}

LEMMA ClientStep ==
  ASSUME Shape, ClientFollows, [Next]_vars
  PROVE  ClientFollows'
<1>0. stale \in BOOLEAN /\ broken \in BOOLEAN /\ data \in Settings /\ todo \in Seq(Pending)
  BY DEF Shape, SettingsTypes
<1> USE <1>0 DEF ClientFollows, redisVars, followers, settingsVars
<1>1. CASE Assign
  <2>1. data'.redis_host = IF Key = "redis_host" THEN Value ELSE data.redis_host
    BY <1>1, AssignedData DEF Assign, _DEFAULTS
  <2>2. QED
    BY <1>1, <2>1 DEF Assign
<1>2. CASE AssignRaises
  BY <1>2 DEF AssignRaises
<1>3. CASE SaveEnds \/ SaveFails
  BY <1>3 DEF SaveEnds, SaveFails, Applied
<1>4. CASE Reconnect
  BY <1>4 DEF Reconnect, Connect
<1>5. CASE SyncScheduler \/ \E i \in DOMAIN threads : ConfigureSyslog(i)
  BY <1>5 DEF SyncScheduler, ConfigureSyslog
<1>6. CASE Asks \/ UNCHANGED settingsVars
  BY <1>6 DEF Asks
<1>7. CASE StartSettings
  BY <1>7 DEF StartSettings, Connect
<1>8. CASE StopSettings
  BY <1>8 DEF StopSettings
<1>9. QED
  BY <1>1, <1>2, <1>3, <1>4, <1>5, <1>6, <1>7, <1>8, StepsOfSettings DEF SettingsStep

\* Between requests the Redis client is of the server that is set, or none,
\* unless a body was refused half-way.
THEOREM ClientFollowsTheServer == Spec => []RedisFollows
<1>1. Init => ClientFollows
  BY DEF Init, SettingsInit, ClientFollows
<1>2. ClientFollows => RedisFollows
  BY DEF ClientFollows, RedisFollows, AtRest
<1>3. Shape /\ ClientFollows /\ [Next]_vars => ClientFollows'
  BY ClientStep
<1>4. QED
  BY <1>1, <1>2, <1>3, ShapeInit, ShapeStep, PTL DEF Spec

\* A lone thread that waits was given the target that is set, and once it is
\* through the handler is of that target, until the next target is assigned.
SyslogFollows ==
    ~raced => /\ Len(threads) <= 1
              /\ ~(writing /\ Key = "syslog") =>
                    /\ threads # << >> => threads[1] = data.syslog
                    /\ threads = << >> => handler \in {data.syslog, None}

LEMMA SyslogStep ==
  ASSUME Shape, SyslogFollows, [Next]_vars
  PROVE  SyslogFollows'
<1>0. /\ raced \in BOOLEAN /\ writing \in BOOLEAN /\ data \in Settings
      /\ todo \in Seq(Pending) /\ threads \in Seq(Targets \cup {Off})
  BY DEF Shape, SettingsTypes
<1> USE <1>0 DEF syslogVars, followers, settingsVars
<1>1. CASE Assign
  <2>1. data'.syslog = IF Key = "syslog" THEN Value ELSE data.syslog
    BY <1>1, AssignedData DEF Assign, _DEFAULTS
  <2>2. writing = FALSE /\ writing' = TRUE /\ Key' = Key /\ UNCHANGED syslogVars
    BY <1>1 DEF Assign, Key
  <2>3. QED
    BY <2>1, <2>2 DEF SyslogFollows
<1>2. CASE AssignRaises
  BY <1>2 DEF AssignRaises, SyslogFollows
<1>3. CASE SaveEnds \/ SaveFails
  <2>1. /\ writing = TRUE /\ writing' = FALSE /\ UNCHANGED <<data, handler>>
        /\ IF Key = "syslog"
           THEN threads' = Append(threads, data.syslog) /\ raced' = (threads # << >>)
           ELSE UNCHANGED <<threads, raced>>
    BY <1>3 DEF SaveEnds, SaveFails, Applied
  <2>2. CASE Key # "syslog"
    BY <2>1, <2>2 DEF SyslogFollows
  <2>3. CASE Key = "syslog" /\ threads = << >>
    <3>1. Append(threads, data.syslog) = <<data.syslog>>
      BY <2>3
    <3>2. threads' = <<data.syslog>> /\ data' = data
      BY <2>1, <2>3, <3>1
    <3>3. Len(threads') = 1 /\ threads'[1] = data'.syslog /\ threads' # << >>
      BY <3>2
    <3>4. QED
      BY <3>3 DEF SyslogFollows
  <2>4. CASE Key = "syslog" /\ threads # << >>
    BY <2>1, <2>4 DEF SyslogFollows
  <2>5. QED
    BY <2>2, <2>3, <2>4
<1>4. CASE Reconnect \/ SyncScheduler
  BY <1>4 DEF Reconnect, SyncScheduler, SyslogFollows, Key
<1>5. ASSUME NEW i \in DOMAIN threads, ConfigureSyslog(i) PROVE SyslogFollows'
  <2>1. /\ UNCHANGED <<data, writing, todo, raced>> /\ Key' = Key
        /\ threads' = RemoveAt(threads, i)
        /\ handler' \in {threads[i], None}
    BY <1>5 DEF ConfigureSyslog, Key
  <2>2. CASE raced
    BY <2>1, <2>2 DEF SyslogFollows
  <2>3. CASE ~raced
    <3>1. Len(threads) = 1 /\ i = 1 /\ threads # << >>
      <4>1. PICK n \in Nat : n = Len(threads) /\ DOMAIN threads = 1..n
        OBVIOUS
      <4>2. n <= 1
        BY <2>3, <4>1 DEF SyslogFollows
      <4>3. i = 1 /\ n = 1
        BY <4>1, <4>2
      <4>4. DOMAIN << >> = {}
        OBVIOUS
      <4>5. threads # << >>
        BY ONLY <4>1, <4>3, <4>4
      <4>6. QED
        BY ONLY <4>1, <4>3, <4>5
    <3>2. threads' \in Seq(Targets \cup {Off}) /\ Len(threads') = 0
      BY <2>1, <3>1, RemoveAtProperties
    <3>3. threads' = << >>
      BY <3>2, EmptySeq
    <3>4. ~(writing /\ Key = "syslog") => handler' \in {data.syslog, None}
      BY <2>1, <2>3, <3>1 DEF SyslogFollows
    <3>5. QED
      BY <2>1, <3>2, <3>3, <3>4 DEF SyslogFollows
  <2>4. QED
    BY <2>2, <2>3
<1>6. CASE Asks
  BY <1>6 DEF Asks, AtRest, SyslogFollows
<1>7. CASE UNCHANGED settingsVars
  BY <1>7 DEF SyslogFollows, Key
<1>8. CASE StartSettings
  <2>1. handler' = None /\ threads' \in {<<data'.syslog>>, << >>}
    BY <1>8 DEF StartSettings, Loads, LoadFails, Shape, Phases, Down
  <2>2. PICK t : t = data'.syslog
    OBVIOUS
  <2>3. threads' = <<t>> \/ threads' = << >>
    BY <2>1, <2>2
  <2>4. Len(threads') <= 1 /\ (threads' # << >> => threads'[1] = t)
    <3>1. Len(<<t>>) = 1 /\ <<t>>[1] = t /\ Len(<< >>) = 0
      BY ONLY EmptySeq
    <3>2. QED
      BY ONLY <2>3, <3>1
  <2>5. QED
    BY <2>1, <2>2, <2>4 DEF SyslogFollows
<1>9. CASE StopSettings
  BY <1>9, EmptySeq DEF StopSettings, SyslogFollows
<1>10. QED
  BY <1>1, <1>2, <1>3, <1>4, <1>5, <1>6, <1>7, <1>8, <1>9, StepsOfSettings DEF SettingsStep

\* Once no syslog thread waits no handler of an earlier target is left, if the
\* threads never waited together.
THEOREM NoHandlerOfAnEarlierTarget == Spec => []NoStaleSyslog
<1>1. Init => SyslogFollows
  BY EmptySeq DEF Init, SettingsInit, SyslogFollows
<1>2. SyslogFollows => NoStaleSyslog
  BY DEF SyslogFollows, NoStaleSyslog
<1>3. Shape /\ SyslogFollows /\ [Next]_vars => SyslogFollows'
  BY SyslogStep
<1>4. QED
  BY <1>1, <1>2, <1>3, ShapeInit, ShapeStep, PTL DEF Spec

-----------------------------------------------------------------------------
(* The active set *)

\* The setter of the active set is about to be called, with a registered set.
Adopting == todo # << >> /\ ~writing /\ Key = "active_widget_set"
Names(S) == \A i \in DOMAIN todo : todo[i][1] = "active_widget_set" => todo[i][2] \in S

\* A load looks at the active set when the registry has been saved.
SavingNew == saving /\ op.kind \in {"seed", "load"}

ActiveIsASet ==
    /\ Names(Range(sets))
    /\ SavingNew => op.id \in Range(sets)
    /\ sets # << >> /\ ~adoption /\ ~SavingNew => Active \in Range(sets) \/ Adopting

\* A set that was asked for, or activated, and what is pending.
Keeps(w) == w \in Range(sets) /\ Names({w})

ChosenStays ==
    /\ op.kind = "activate" => chosen = None /\ Keeps(op.id) /\ (Active = op.id \/ Adopting)
    /\ chosen # None => Keeps(chosen) /\ Active = chosen

\* An assignment names the active set only if Adopt or activate asked for it.
LEMMA BodiesNameNoSet ==
  ASSUME NEW body \in Bodies, NEW i \in DOMAIN body
  PROVE  body[i][1] # "active_widget_set"
<1>1. body[i] \in Assignments
  BY BodiesAssumption
<1>2. QED
  BY <1>1 DEF Assignments

\* What a step of the settings does to the active set: it becomes what the
\* first pending assignment names, or stays; the rest of them stay pending.
LEMMA SettingsStepOnActive ==
  ASSUME Shape, SettingsStep, UNCHANGED <<setVars, askVars>>
  PROVE  /\ Active' = Active \/ (Key = "active_widget_set" /\ Active' = Value /\ todo # << >>)
         /\ Adopting => Adopting' \/ Active' = Value
         /\ \A S : Names(S) => Names(S)' /\ (todo # << >> /\ Key = "active_widget_set" => Value \in S)
<1>0. /\ data \in Settings /\ todo \in Seq(Pending) /\ writing \in BOOLEAN
  BY DEF Shape, SettingsTypes
<1>1. ASSUME NEW S, Names(S), todo # << >>, Key = "active_widget_set" PROVE Value \in S
  BY <1>0, <1>1 DEF Names, Key, Value
<1>2. CASE Assign
  <2>1. data'.active_widget_set = IF Key = "active_widget_set" THEN Value ELSE Active
    BY <1>0, <1>2, AssignedData DEF Assign, _DEFAULTS, Active
  <2>2. todo # << >> /\ UNCHANGED todo
    BY <1>2 DEF Assign
  <2>3. QED
    BY <1>1, <2>1, <2>2 DEF Adopting, Active, Names
<1>3. CASE AssignRaises
  <2>1. Key # "active_widget_set" /\ UNCHANGED data /\ todo' = << >>
    BY <1>3 DEF AssignRaises, Valid
  <2>2. QED
    BY <1>1, <2>1 DEF Adopting, Active, Names
<1>4. CASE SaveEnds \/ SaveFails
  <2>1. writing = TRUE /\ UNCHANGED data /\ todo # << >> /\ todo' = Tail(todo)
    BY <1>4 DEF SaveEnds, SaveFails, Applied, Shape, Phases
  <2>2. /\ DOMAIN todo = 1..Len(todo) /\ Len(todo) \in Nat
        /\ DOMAIN Tail(todo) = 1..Len(todo) - 1
        /\ \A i \in DOMAIN Tail(todo) : Tail(todo)[i] = todo[i + 1]
    BY <1>0, <2>1, HeadTailProperties
  <2>3. \A i \in DOMAIN todo' : i + 1 \in DOMAIN todo /\ todo'[i] = todo[i + 1]
    BY <2>1, <2>2
  <2>4. QED
    BY <1>1, <2>1, <2>3 DEF Adopting, Active, Names
<1>5. CASE Reconnect \/ SyncScheduler \/ \E i \in DOMAIN threads : ConfigureSyslog(i)
  <2>1. UNCHANGED <<data, todo, writing>>
    BY <1>5 DEF Reconnect, SyncScheduler, ConfigureSyslog
  <2>2. QED
    BY <1>1, <2>1 DEF Adopting, Active, Names, Key
<1>6. QED
  BY <1>2, <1>3, <1>4, <1>5 DEF SettingsStep

\* A single assignment of the active set is about to be made.
LEMMA AskedToAdopt ==
  ASSUME NEW w \in SetIds, todo' = <<<<"active_widget_set", w>>>>, writing' = FALSE
  PROVE  Adopting' /\ \A S : w \in S => Names(S)'
<1>1. PICK t : t = todo'
  OBVIOUS
<1>2. DOMAIN t = {1} /\ t[1] = <<"active_widget_set", w>> /\ t # << >>
  BY <1>1
<1>3. QED
  BY <1>1, <1>2 DEF Adopting, Names, Key

\* Adopt sees to it that the active set is registered.
LEMMA AdoptStep ==
  ASSUME NEW w \in SetIds, Adopt(w), w \in Range(sets'), todo = << >>, writing = FALSE,
         UNCHANGED <<data, writing>>
  PROVE  /\ Active' = Active
         /\ Active \in Range(sets') => todo' = << >>
         /\ Active \in Range(sets') \/ Adopting'
         /\ Names(Range(sets))'
<1>1. Active' = Active
  BY DEF Active
<1>2. CASE Active \in Range(sets')
  BY <1>1, <1>2 DEF Adopt, Names
<1>3. CASE Active \notin Range(sets')
  <2>1. todo' = <<<<"active_widget_set", w>>>>
    BY <1>3 DEF Adopt
  <2>2. QED
    BY <1>1, <1>3, <2>1, AskedToAdopt DEF Names
<1>4. QED
  BY <1>2, <1>3

\* While any set is registered the active set is one of them.
LEMMA ActiveStep ==
  ASSUME Shape, ActiveIsASet, [Next]_vars
  PROVE  ActiveIsASet'
<1>0. /\ saving \in BOOLEAN /\ adoption \in BOOLEAN /\ writing \in BOOLEAN
      /\ RegistryTypes /\ Phases
  BY DEF Shape, SettingsTypes, RegistryTypes
<1> USE <1>0 DEF setVars, askVars
<1>1. CASE SettingsStep /\ UNCHANGED <<setVars, askVars>>
  <2>1. UNCHANGED <<sets, saving, op, adoption>>
    BY <1>1
  <2>2. \/ Active' = Active
        \/ todo # << >> /\ Key = "active_widget_set" /\ Active' = Value
    BY <1>1, SettingsStepOnActive
  <2>3. Adopting => Adopting' \/ (todo # << >> /\ Key = "active_widget_set" /\ Active' = Value)
    BY <1>1, SettingsStepOnActive DEF Adopting
  <2>4. Names(Range(sets))' /\ (todo # << >> /\ Key = "active_widget_set" => Value \in Range(sets))
    <3>1. PICK S : S = Range(sets)
      OBVIOUS
    <3>2. Names(S)' /\ (todo # << >> /\ Key = "active_widget_set" => Value \in S)
      BY <1>1, <3>1, SettingsStepOnActive DEF ActiveIsASet
    <3>3. Range(sets)' = S
      BY <2>1, <3>1
    <3>4. QED
      BY <3>1, <3>2, <3>3 DEF Names
  <2>5. QED
    BY <2>1, <2>2, <2>3, <2>4 DEF ActiveIsASet, SavingNew
<1>2. ASSUME NEW body \in Bodies, Put(body), UNCHANGED <<setVars, askVars>>
      PROVE  ActiveIsASet'
  <2>1. todo = << >> /\ todo' = body /\ UNCHANGED <<data, writing>>
    BY <1>2 DEF Put, AtRest
  <2>2. \A i \in DOMAIN todo' : todo'[i][1] # "active_widget_set"
    BY <2>1, BodiesNameNoSet
  <2>3. QED
    BY <1>2, <2>1, <2>2 DEF ActiveIsASet, SavingNew, Adopting, Names, Active
<1>3. CASE SaveSetsEnds /\ op.kind = "remove"
  BY <1>3 DEF SaveSetsEnds, ActiveIsASet, SavingNew, Names, Adopting, Active, Key, settingsVars
<1>4. CASE SaveSetsEnds /\ op.kind # "remove"
  <2>1. /\ saving = TRUE /\ op.kind \in {"seed", "load"} /\ op.id \in SetIds
        /\ todo = << >> /\ writing = FALSE
    BY <1>4 DEF SaveSetsEnds, Phases, AtRest
  <2>2. Adopt(op.id) /\ UNCHANGED <<sets, op, adoption, data, writing>> /\ saving' = FALSE
    BY <1>4 DEF SaveSetsEnds
  <2>3. op.id \in Range(sets')
    BY <2>1, <2>2 DEF ActiveIsASet, SavingNew
  <2>4. QED
    BY <2>1, <2>2, <2>3, AdoptStep DEF ActiveIsASet, SavingNew
<1>5. CASE SaveSetsFails
  <2>1. /\ saving = TRUE /\ op.kind \in {"load", "remove"} /\ saving' = FALSE
        /\ todo = << >> /\ UNCHANGED <<sets, data, todo, writing>>
        /\ adoption' = IF op.kind = "load" THEN Active \notin Range(sets) ELSE adoption
    BY <1>5 DEF SaveSetsFails, Phases, AtRest, settingsVars
  <2>2. Names(Range(sets))' /\ Active' = Active
    BY <2>1 DEF Names, Active
  <2>3. CASE op.kind = "load"
    BY <2>1, <2>2, <2>3 DEF ActiveIsASet, SavingNew
  <2>4. CASE op.kind = "remove"
    BY <2>1, <2>2, <2>4 DEF ActiveIsASet, SavingNew, Adopting
  <2>5. QED
    BY <2>1, <2>3, <2>4
<1>6. ASSUME NEW w \in SetIds, Load(w) PROVE ActiveIsASet'
  <2>1. /\ Range(sets') = Range(sets) \cup {w} /\ todo' = << >>
        /\ saving' = TRUE /\ op' = [kind |-> "load", id |-> w]
    BY <1>6, RegisteredSets DEF Load, Free, AtRest, BeginSave, settingsRest
  <2>2. QED
    BY <2>1 DEF ActiveIsASet, SavingNew, Names
<1>7. ASSUME NEW w \in SetIds, RemoveSet(w) PROVE ActiveIsASet'
  <2>1. /\ Range(sets') = Range(sets) \ {w} /\ todo = << >> /\ todo' = << >> /\ Active # w
        /\ op' = [kind |-> "remove", id |-> w] /\ op = NoOp /\ UNCHANGED <<data, adoption>>
    BY <1>7, UnregisteredSets DEF RemoveSet, Free, AtRest, settingsRest
  <2>2. sets # << >>
    BY <1>7, UnregisteredSets, RangeOfEmpty DEF RemoveSet
  <2>3. Active' = Active
    BY <2>1 DEF Active
  <2>4. QED
    BY <2>1, <2>2, <2>3 DEF ActiveIsASet, SavingNew, Names, NoOp, Adopting
<1>8. ASSUME NEW w \in SetIds, Activate(w) PROVE ActiveIsASet'
  <2>1. /\ w \in Range(sets) /\ UNCHANGED <<sets, saving>> /\ writing' = FALSE
        /\ todo' = <<<<"active_widget_set", w>>>> /\ op' = [kind |-> "activate", id |-> w]
    BY <1>8, ContainsRange DEF Activate, Free, AtRest, RegistryTypes
  <2>2. Adopting' /\ Names(Range(sets))'
    <3>1. PICK S : S = Range(sets)
      OBVIOUS
    <3>2. Names(S)' /\ Adopting'
      BY <2>1, <3>1, AskedToAdopt
    <3>3. QED
      BY <2>1, <3>1, <3>2 DEF Names
  <2>3. QED
    BY <2>1, <2>2 DEF ActiveIsASet, SavingNew
<1>9. CASE Answer \/ EntryRefused \/ EntryRaises \/ BootEnds
  <2>1. UNCHANGED <<sets, adoption, saving, data, todo, writing>> /\ saving = FALSE
    BY <1>9 DEF Answer, EntryRefused, EntryRaises, BootEnds, Booting, Phases, settingsVars
  <2>2. QED
    BY <2>1 DEF ActiveIsASet, SavingNew, Names, Adopting, Active, Key
<1>10. CASE Start
  <2>1. sets' = << >> /\ todo' = << >> /\ saving' = FALSE
    BY <1>10 DEF Start, StartSettings, Phases, Down, NoOp
  <2>2. QED
    BY <2>1 DEF ActiveIsASet, SavingNew, Names
<1>11. CASE LoadEntry
  <2>1. Head(queue) \in SetIds
    BY <1>11, RangeHeadTail DEF LoadEntry, RegistryTypes
  <2>2. /\ todo = << >> /\ writing = FALSE /\ saving' = FALSE
        /\ UNCHANGED <<data, writing>> /\ Adopt(Head(queue))
    BY <1>11 DEF LoadEntry, Booting, AtRest, Phases
  <2>3. Head(queue) \in Range(sets')
    BY <1>11, <2>1, RegisteredSets DEF LoadEntry
  <2>4. QED
    BY <2>1, <2>2, <2>3, AdoptStep DEF ActiveIsASet, SavingNew
<1>12. CASE Seed
  <2>1. /\ sets' = <<"default">> /\ todo' = << >> /\ saving' = TRUE
        /\ op' = [kind |-> "seed", id |-> "default"]
    BY <1>12 DEF Seed, Booting, AtRest, BeginSave, settingsVars
  <2>2. "default" \in Range(sets')
    BY <2>1 DEF Range
  <2>3. QED
    BY <2>1, <2>2 DEF ActiveIsASet, SavingNew, Names
<1>13. CASE Stop
  BY <1>13 DEF Stop, StopSettings, ActiveIsASet, SavingNew, Names
<1>14. CASE UNCHANGED vars
  BY <1>14 DEF vars, settingsVars, ActiveIsASet, SavingNew, Names, Adopting, Active, Key
<1>15. QED
  BY <1>1, <1>2, <1>3, <1>4, <1>5, <1>6, <1>7, <1>8, <1>9, <1>10, <1>11, <1>12, <1>13,
     <1>14 DEF Next

\* While any set is registered one of them is active, through removals, refused
\* entries, failed saves, torn files and restarts, unless a load raised before
\* it looked.
THEOREM ActiveSetIsRegistered == Spec => []ActiveRegistered
<1>1. Init => ActiveIsASet
  BY DEF Init, SettingsInit, ActiveIsASet, SavingNew, Names
<1>2. ActiveIsASet => ActiveRegistered
  BY DEF ActiveIsASet, ActiveRegistered, SavingNew, Free, NoOp, AtRest, Adopting
<1>3. Shape /\ ActiveIsASet /\ [Next]_vars => ActiveIsASet'
  BY ActiveStep
<1>4. QED
  BY <1>1, <1>2, <1>3, ShapeInit, ShapeStep, PTL DEF Spec

\* What was activated stays, or is about to be assigned.
LEMMA ChosenStep ==
  ASSUME Shape, ChosenStays, [Next]_vars
  PROVE  ChosenStays'
<1>0. /\ saving \in BOOLEAN /\ writing \in BOOLEAN
      /\ RegistryTypes /\ Phases
  BY DEF Shape, SettingsTypes, RegistryTypes
<1> USE <1>0 DEF setVars, askVars
<1>1. CASE SettingsStep /\ UNCHANGED <<setVars, askVars>>
  <2>1. UNCHANGED <<sets, op, chosen>>
    BY <1>1
  <2>2. ASSUME NEW w, Keeps(w) PROVE Keeps(w)'
    <3>1. Names({w})'
      BY <1>1, <2>2, SettingsStepOnActive DEF Keeps
    <3>2. QED
      BY <2>1, <2>2, <3>1 DEF Keeps
  <2>3. ASSUME NEW w, Keeps(w), Active = w \/ Adopting PROVE Active' = w \/ Adopting'
    <3>1. todo # << >> /\ Key = "active_widget_set" => Value = w
      BY <1>1, <2>3, SettingsStepOnActive DEF Keeps
    <3>2. QED
      BY <1>1, <2>3, <3>1, SettingsStepOnActive DEF Adopting
  <2>4. ASSUME NEW w, Keeps(w), Active = w PROVE Active' = w
    <3>1. todo # << >> /\ Key = "active_widget_set" => Value = w
      BY <1>1, <2>4, SettingsStepOnActive DEF Keeps
    <3>2. QED
      BY <1>1, <2>4, <3>1, SettingsStepOnActive
  <2>5. PICK k, c, i : k = op.kind /\ i = op.id /\ c = chosen
    OBVIOUS
  <2>6. k = "activate" => c = None /\ Keeps(i)' /\ (Active' = i \/ Adopting')
    BY <2>2, <2>3, <2>5 DEF ChosenStays
  <2>7. c # None => Keeps(c)' /\ Active' = c
    BY <2>2, <2>4, <2>5 DEF ChosenStays
  <2>8. op'.kind = k /\ op'.id = i /\ chosen' = c
    BY <2>1, <2>5
  <2>9. QED
    BY ONLY <2>6, <2>7, <2>8 DEF ChosenStays, Keeps, Names
<1>2. ASSUME NEW body \in Bodies, op = NoOp, Put(body), UNCHANGED <<setVars, askVars>>
      PROVE  ChosenStays'
  <2>1. todo' = body /\ UNCHANGED data
    BY <1>2 DEF Put
  <2>2. \A i \in DOMAIN todo' : todo'[i][1] # "active_widget_set"
    BY <2>1, BodiesNameNoSet
  <2>3. QED
    BY <1>2, <2>1, <2>2 DEF ChosenStays, Keeps, Names, NoOp, Active
<1>3. CASE SaveSetsEnds /\ op.kind = "remove"
  BY <1>3 DEF SaveSetsEnds, ChosenStays, Keeps, Names, Active, settingsVars
<1>4. CASE SaveSetsEnds /\ op.kind # "remove"
  <2>1. op.kind \in {"seed", "load"} /\ op.id \in SetIds /\ todo = << >>
    BY <1>4 DEF SaveSetsEnds, Phases, AtRest
  <2>2. Adopt(op.id) /\ UNCHANGED <<sets, op, chosen, data>>
    BY <1>4 DEF SaveSetsEnds
  <2>3. chosen # None => Active \in Range(sets') /\ todo' = todo
    BY <2>2 DEF ChosenStays, Keeps, Adopt
  <2>4. QED
    BY <2>1, <2>2, <2>3 DEF ChosenStays, Keeps, Names, Active
<1>5. CASE SaveSetsFails \/ BootEnds \/ EntryRefused \/ EntryRaises
  <2>1. /\ UNCHANGED <<sets, data, todo, chosen>>
        /\ op' \in {NoOp, op}
    BY <1>5 DEF SaveSetsFails, BootEnds, EntryRefused, EntryRaises, settingsVars
  <2>2. op.kind # "activate"
    BY <1>5 DEF SaveSetsFails, BootEnds, EntryRefused, EntryRaises, Booting, Phases
  <2>3. QED
    BY <2>1, <2>2 DEF ChosenStays, Keeps, Names, Active, NoOp
<1>6. ASSUME NEW w \in SetIds, Load(w) PROVE ChosenStays'
  <2>1. /\ Range(sets') = Range(sets) \cup {w} /\ UNCHANGED <<todo, data, chosen>>
        /\ op' = [kind |-> "load", id |-> w]
    BY <1>6, RegisteredSets DEF Load, settingsRest
  <2>2. QED
    BY <2>1 DEF ChosenStays, Keeps, Names, Active
<1>7. ASSUME NEW w \in SetIds, RemoveSet(w) PROVE ChosenStays'
  <2>1. /\ Range(sets') = Range(sets) \ {w} /\ UNCHANGED <<todo, data, chosen>> /\ Active # w
        /\ op' = [kind |-> "remove", id |-> w]
    BY <1>7, UnregisteredSets DEF RemoveSet, settingsRest
  <2>2. QED
    BY <2>1 DEF ChosenStays, Keeps, Names, Active
<1>8. ASSUME NEW w \in SetIds, Activate(w) PROVE ChosenStays'
  <2>1. /\ w \in Range(sets) /\ UNCHANGED sets /\ writing' = FALSE /\ chosen' = None
        /\ todo' = <<<<"active_widget_set", w>>>> /\ op' = [kind |-> "activate", id |-> w]
    BY <1>8, ContainsRange DEF Activate, Free, AtRest, RegistryTypes
  <2>2. Adopting' /\ Names({w})'
    BY <2>1, AskedToAdopt
  <2>3. QED
    BY <2>1, <2>2 DEF ChosenStays, Keeps, Names
<1>9. CASE Answer
  <2>1. /\ UNCHANGED <<sets, data, todo>> /\ op' = NoOp /\ todo = << >>
        /\ chosen' = IF op.kind = "activate" THEN op.id ELSE chosen
    BY <1>9 DEF Answer, AtRest, settingsVars
  <2>2. op.kind = "activate" => Active = op.id
    BY <2>1 DEF ChosenStays, Adopting
  <2>3. PICK c : c = chosen'
    OBVIOUS
  <2>4. c # None => c \in Range(sets) /\ Active = c
    BY <2>1, <2>2, <2>3 DEF ChosenStays, Keeps
  <2>5. Active' = Active /\ Range(sets)' = Range(sets) /\ todo' = << >>
    BY <2>1 DEF Active
  <2>6. c # None => Active' = c /\ c \in Range(sets)' /\ Names({c})'
    BY <2>4, <2>5 DEF Names
  <2>7. op'.kind # "activate" /\ chosen' = c
    BY <2>1, <2>3 DEF NoOp
  <2>8. QED
    BY ONLY <2>6, <2>7 DEF ChosenStays, Keeps, Names
<1>10. CASE Start
  BY <1>10 DEF Start, StartSettings, Phases, Down, ChosenStays
<1>11. CASE LoadEntry
  <2>1. Head(queue) \in SetIds
    BY <1>11, RangeHeadTail DEF LoadEntry, RegistryTypes
  <2>2. /\ Range(sets') = Range(sets) \cup {Head(queue)} /\ Adopt(Head(queue))
        /\ UNCHANGED <<data, op, chosen>> /\ op.kind = "boot"
    BY <1>11, <2>1, RegisteredSets DEF LoadEntry, Booting
  <2>3. chosen # None => Active \in Range(sets') /\ todo' = todo
    BY <2>2 DEF ChosenStays, Keeps, Adopt
  <2>4. QED
    BY <2>2, <2>3 DEF ChosenStays, Keeps, Names, Active
<1>12. CASE Seed
  <2>1. sets = << >> /\ UNCHANGED chosen /\ op'.kind = "seed"
    BY <1>12 DEF Seed
  <2>2. chosen = None
    BY <2>1, RangeOfEmpty DEF ChosenStays, Keeps
  <2>3. QED
    BY <2>1, <2>2 DEF ChosenStays
<1>13. CASE Stop
  BY <1>13 DEF Stop, ChosenStays, NoOp
<1>14. CASE UNCHANGED vars
  BY <1>14 DEF vars, settingsVars, ChosenStays, Keeps, Names, Adopting, Active, Key
<1>15. QED
  BY <1>1, <1>2, <1>3, <1>4, <1>5, <1>6, <1>7, <1>8, <1>9, <1>10, <1>11, <1>12, <1>13,
     <1>14 DEF Next

\* An activated set stays active until another is activated, whatever is
\* loaded, removed, refused or not saved meanwhile.
THEOREM ActivationLasts == Spec => []ActivationSurvives
<1>1. Init => ChosenStays
  BY DEF Init, ChosenStays, NoOp
<1>2. ChosenStays => ActivationSurvives
  BY DEF ChosenStays, ActivationSurvives
<1>3. Shape /\ ChosenStays /\ [Next]_vars => ChosenStays'
  BY ChosenStep
<1>4. QED
  BY <1>1, <1>2, <1>3, ShapeInit, ShapeStep, PTL DEF Spec

-----------------------------------------------------------------------------
(* What clients were told *)

AsTold(t, S) ==
    \A w \in SetIds : /\ t[w] = "registered" => w \in S
                      /\ t[w] = "removed" => w \notin S

\* The registry, its file and, during a start, what is loaded and what is still
\* to come agree with what was told; an answer is due when the file says so.
RegistryFollows ==
    /\ up /\ op.kind # "boot" => AsTold(told, Range(sets))
    /\ ~saving => AsTold(told, Range(setsFile))
    /\ op.kind = "boot" => AsTold(told, Range(sets) \cup Range(queue))
    /\ ~saving /\ op.kind \in {"seed", "load", "remove"} => Range(setsFile) = Range(sets)
    /\ op.kind \in {"seed", "load"} => op.id \in Range(sets)
    /\ op.kind = "remove" => op.id \notin Range(sets)

\* Forgetting what was told makes nothing false, and what is retracted may
\* become so.
LEMMA Forgetting ==
  ASSUME NEW t, NEW u, NEW S, NEW T, AsTold(t, S),
         \A w \in SetIds : u[w] = "nothing" \/ (u[w] = t[w] /\ (w \in T <=> w \in S))
  PROVE  AsTold(u, T)
  BY DEF AsTold

\* What Retract leaves agrees with the sequence it looked at, and with all that
\* agreed before.
LEMMA Retracted ==
  ASSUME NEW s \in Seq(SetIds)
  PROVE  /\ AsTold(Retract(s), Range(s))
         /\ \A S : AsTold(told, S) => AsTold(Retract(s), S)
<1>1. \A w \in SetIds :
         Retract(s)[w] = IF told[w] = IF w \in Range(s) THEN "registered" ELSE "removed"
                         THEN told[w] ELSE "nothing"
  BY ContainsRange DEF Retract
<1>2. QED
  BY <1>1 DEF AsTold

\* Registry, file and answers stay in step.
LEMMA RegistryStep ==
  ASSUME Shape, RegistryFollows, [Next]_vars
  PROVE  RegistryFollows'
<1>0. /\ saving \in BOOLEAN /\ up \in BOOLEAN
      /\ RegistryTypes /\ Phases
  BY DEF Shape, SettingsTypes, RegistryTypes
<1> USE <1>0 DEF setVars, askVars
<1>1. CASE SettingsStep /\ UNCHANGED <<setVars, askVars>>
  <2>1. up' = up
    BY <1>1 DEF SettingsStep, Assign, AssignRaises, SaveEnds, SaveFails, Applied, Reconnect,
       ConfigureSyslog, SyncScheduler
  <2>2. QED
    BY <1>1, <2>1 DEF RegistryFollows
<1>2. ASSUME NEW body \in Bodies, Put(body), UNCHANGED <<setVars, askVars>>
      PROVE  RegistryFollows'
  BY <1>2 DEF Put, RegistryFollows
<1>3. CASE SaveSetsEnds
  <2>1. up /\ op.kind \in {"seed", "load", "remove"}
    BY <1>3 DEF SaveSetsEnds, Phases, AtRest
  <2>2. UNCHANGED <<sets, op, told, queue, up>> /\ setsFile' = sets
    BY <1>3 DEF SaveSetsEnds, settingsVars
  <2>3. QED
    BY <2>1, <2>2 DEF RegistryFollows
<1>4. CASE SaveSetsFails
  <2>1. /\ saving' = FALSE /\ op' = NoOp /\ told' = Retract(setsFile)
        /\ UNCHANGED <<sets, setsFile>> /\ up /\ op.kind # "boot"
    BY <1>4 DEF SaveSetsFails, Phases, AtRest
  <2>2. setsFile \in Seq(SetIds) /\ AsTold(told, Range(sets))
    BY <2>1 DEF RegistryTypes, RegistryFollows
  <2>3. AsTold(told', Range(setsFile)) /\ AsTold(told', Range(sets))
    BY <2>1, <2>2, Retracted
  <2>4. QED
    BY <2>1, <2>3 DEF RegistryFollows, NoOp
<1>5. ASSUME NEW w \in SetIds, Load(w) PROVE RegistryFollows'
  <2>1. /\ Range(sets') = Range(sets) \cup {w} /\ saving' = TRUE /\ up /\ op.kind # "boot"
        /\ op' = [kind |-> "load", id |-> w] /\ told' = [told EXCEPT ![w] = "nothing"]
    BY <1>5, RegisteredSets DEF Load, Free, AtRest, NoOp, BeginSave
  <2>2. \A v \in SetIds : told'[v] = IF v = w THEN "nothing" ELSE told[v]
    BY <2>1 DEF RegistryTypes
  <2>3. AsTold(told', Range(sets'))
    BY <2>1, <2>2 DEF RegistryFollows, AsTold
  <2>4. QED
    BY <2>1, <2>3 DEF RegistryFollows
<1>6. ASSUME NEW w \in SetIds, RemoveSet(w) PROVE RegistryFollows'
  <2>1. /\ Range(sets') = Range(sets) \ {w} /\ saving' = TRUE /\ up /\ op.kind # "boot"
        /\ op' = [kind |-> "remove", id |-> w] /\ told' = [told EXCEPT ![w] = "nothing"]
    BY <1>6, UnregisteredSets DEF RemoveSet, Free, AtRest, NoOp, BeginSave
  <2>2. \A v \in SetIds : told'[v] = IF v = w THEN "nothing" ELSE told[v]
    BY <2>1 DEF RegistryTypes
  <2>3. AsTold(told', Range(sets'))
    BY <2>1, <2>2 DEF RegistryFollows, AsTold
  <2>4. QED
    BY <2>1, <2>3 DEF RegistryFollows
<1>7. ASSUME NEW w \in SetIds, Activate(w) PROVE RegistryFollows'
  <2>1. /\ UNCHANGED <<sets, setsFile, saving, queue, told, up>> /\ up /\ op.kind # "boot"
        /\ op' = [kind |-> "activate", id |-> w]
    BY <1>7 DEF Activate, Free, AtRest, NoOp
  <2>2. QED
    BY <2>1 DEF RegistryFollows
<1>8. CASE Answer
  <2>1. /\ ~saving /\ up /\ UNCHANGED <<sets, setsFile, saving, up>> /\ op' = NoOp
        /\ op.kind \in {"seed", "load", "remove", "activate"} /\ op.id \in SetIds
    BY <1>8 DEF Answer, AtRest, settingsVars, Phases
  <2>2. \A v \in SetIds :
           told'[v] = IF v = op.id
                      THEN CASE op.kind = "remove" -> "removed"
                             [] op.kind = "activate" -> told[v]
                             [] OTHER -> "registered"
                      ELSE told[v]
    BY <1>8, <2>1 DEF Answer, RegistryTypes
  <2>3. CASE op.kind = "remove"
    <3>1. \A v \in SetIds : told'[v] = IF v = op.id THEN "removed" ELSE told[v]
      BY <2>2, <2>3
    <3>2. QED
      BY <2>1, <2>3, <3>1 DEF RegistryFollows, AsTold, NoOp
  <2>4. CASE op.kind = "activate"
    <3>1. \A v \in SetIds : told'[v] = told[v]
      BY <2>2, <2>4
    <3>2. QED
      BY <2>1, <2>4, <3>1 DEF RegistryFollows, AsTold, NoOp
  <2>5. CASE op.kind \in {"seed", "load"}
    <3>1. \A v \in SetIds : told'[v] = IF v = op.id THEN "registered" ELSE told[v]
      BY <2>2, <2>5
    <3>2. QED
      BY <2>1, <2>5, <3>1 DEF RegistryFollows, AsTold, NoOp
  <2>6. QED
    BY <2>1, <2>3, <2>4, <2>5
<1>9. CASE Start
  <2>1. /\ ~saving /\ sets = << >> /\ queue' = setsFile /\ op'.kind = "boot"
        /\ UNCHANGED <<sets, setsFile, saving, told>>
    BY <1>9 DEF Start, StartSettings, Phases, AtRest, Down
  <2>2. Range(sets') \cup Range(queue') = Range(setsFile)
    BY <2>1, RangeOfEmpty
  <2>3. QED
    BY <2>1, <2>2 DEF RegistryFollows
<1>10. CASE LoadEntry
  <2>1. queue # << >> /\ op.kind = "boot" /\ ~saving
    BY <1>10 DEF LoadEntry, Booting, Phases
  <2>2. Head(queue) \in SetIds /\ Range(queue) = Range(Tail(queue)) \cup {Head(queue)}
    BY <2>1, RangeHeadTail DEF RegistryTypes
  <2>3. Range(sets') = Range(sets) \cup {Head(queue)} /\ queue' = Tail(queue)
    BY <1>10, <2>2, RegisteredSets DEF LoadEntry
  <2>4. Range(sets') \cup Range(queue') = Range(sets) \cup Range(queue)
    BY <2>2, <2>3
  <2>5. UNCHANGED <<setsFile, saving, op, told>>
    BY <1>10 DEF LoadEntry
  <2>6. QED
    BY <2>1, <2>4, <2>5 DEF RegistryFollows
<1>11. CASE EntryRefused \/ EntryRaises
  <2>1. /\ queue # << >> /\ op.kind = "boot" /\ ~saving
        /\ UNCHANGED <<sets, setsFile, saving, op>>
    BY <1>11 DEF EntryRefused, EntryRaises, Booting, Phases
  <2>2. queue \in Seq(SetIds) /\ Range(queue) = Range(Tail(queue)) \cup {Head(queue)}
    BY <2>1, RangeHeadTail DEF RegistryTypes
  <2>3. ASSUME NEW w \in SetIds
        PROVE  \/ told'[w] = "nothing"
               \/ told'[w] = told[w] /\ (w \in Range(queue') <=> w \in Range(queue))
    <3>1. CASE EntryRefused
      <4>1. queue' = Tail(queue) /\ told'[w] = IF w = Head(queue) THEN "nothing" ELSE told[w]
        BY <3>1 DEF EntryRefused, RegistryTypes
      <4>2. CASE w # Head(queue)
        <5>1. w \in Range(queue') <=> w \in Range(queue)
          BY <2>2, <4>1, <4>2
        <5>2. QED
          BY <4>1, <4>2, <5>1
      <4>3. QED
        BY <4>1, <4>2
    <3>2. CASE EntryRaises
      <4>1. queue' = << >> /\ told'[w] = IF w \in Range(queue) THEN "nothing" ELSE told[w]
        BY <2>2, <3>2, ContainsRange DEF EntryRaises
      <4>2. CASE w \notin Range(queue)
        <5>1. w \in Range(queue') <=> w \in Range(queue)
          BY <4>1, <4>2, RangeOfEmpty
        <5>2. QED
          BY <4>1, <4>2, <5>1
      <4>3. QED
        BY <4>1, <4>2
    <3>3. QED
      BY <1>11, <3>1, <3>2
  <2>4. AsTold(told', Range(setsFile))
    BY <2>1, <2>3, Forgetting DEF RegistryFollows
  <2>5. AsTold(told', Range(sets) \cup Range(queue'))
    BY <2>1, <2>3, Forgetting DEF RegistryFollows
  <2>6. QED
    BY <2>1, <2>4, <2>5 DEF RegistryFollows
<1>12. CASE BootEnds
  <2>1. /\ queue = << >> /\ op.kind = "boot" /\ ~saving /\ op' = NoOp
        /\ UNCHANGED <<sets, setsFile, saving, told, up>>
    BY <1>12 DEF BootEnds, Booting, Phases, settingsVars
  <2>2. QED
    BY <2>1, RangeOfEmpty DEF RegistryFollows, NoOp
<1>13. CASE Seed
  <2>1. /\ queue = << >> /\ sets = << >> /\ op.kind = "boot" /\ sets' = <<"default">>
        /\ saving' = TRUE /\ op' = [kind |-> "seed", id |-> "default"]
        /\ told' = [told EXCEPT !["default"] = "nothing"]
    BY <1>13 DEF Seed, Booting, BeginSave
  <2>2. AsTold(told, {})
    BY <2>1, RangeOfEmpty DEF RegistryFollows
  <2>3. Range(sets') = {"default"}
    BY <2>1 DEF Range
  <2>4. \A v \in SetIds : told'[v] = IF v = "default" THEN "nothing" ELSE told[v]
    BY <2>1 DEF RegistryTypes
  <2>5. AsTold(told', Range(sets'))
    BY <2>2, <2>3, <2>4 DEF AsTold
  <2>6. QED
    BY <2>1, <2>3, <2>5 DEF RegistryFollows
<1>14. CASE Stop
  <2>1. /\ saving' = FALSE /\ up' = FALSE /\ op' = NoOp /\ UNCHANGED setsFile
        /\ told' = IF saving THEN Retract(setsFile) ELSE told
    BY <1>14 DEF Stop, StopSettings
  <2>2. AsTold(told', Range(setsFile))
    BY <2>1, Retracted DEF RegistryTypes, RegistryFollows
  <2>3. QED
    BY <2>1, <2>2 DEF RegistryFollows, NoOp
<1>15. CASE UNCHANGED vars
  BY <1>15 DEF vars, settingsVars, RegistryFollows
<1>16. QED
  BY <1>1, <1>2, <1>3, <1>4, <1>5, <1>6, <1>7, <1>8, <1>9, <1>10, <1>11, <1>12, <1>13,
     <1>14, <1>15 DEF Next

\* Through failed saves, torn files, refused entries, crashes and restarts a set
\* a client was told is registered is there, and one it was told is gone is not.
THEOREM RegistryIsAsTold == Spec => []RegistryAsTold
<1>1. Init => RegistryFollows
  <2>1. SUFFICES ASSUME Init PROVE RegistryFollows
    OBVIOUS
  <2>2. \A S : AsTold(told, S)
    BY <2>1 DEF Init, AsTold
  <2>3. QED
    BY <2>1, <2>2 DEF Init, RegistryFollows, NoOp
<1>2. Shape /\ RegistryFollows => RegistryAsTold
  <2>1. SUFFICES ASSUME Shape, RegistryFollows, up, op.kind # "boot", NEW w \in SetIds
                 PROVE  /\ told[w] = "registered" => Contains(sets, w)
                        /\ told[w] = "removed" => ~Contains(sets, w)
    BY DEF RegistryAsTold
  <2>2. Contains(sets, w) <=> w \in Range(sets)
    BY <2>1, ContainsRange DEF Shape, RegistryTypes
  <2>3. QED
    BY <2>1, <2>2 DEF RegistryFollows, AsTold
<1>3. Shape /\ RegistryFollows /\ [Next]_vars => RegistryFollows'
  BY RegistryStep
<1>4. QED
  BY <1>1, <1>2, <1>3, ShapeInit, ShapeStep, PTL DEF Spec
=============================================================================
