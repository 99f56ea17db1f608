------------------------- MODULE LoginSessionsProofs -------------------------
(***************************************************************************)
(* Proofs about LoginSessions, for any users, claims, mappings, times to   *)
(* live and bounds: the type invariant, one session per login, and that    *)
(* nobody keeps a role for longer than a session lasts.                    *)
(***************************************************************************)
EXTENDS LoginSessions, TLAPS, WellFoundedInduction, SequenceTheorems

-----------------------------------------------------------------------------
(* Roles *)

\* A set of naturals that is not empty has a least member.
LEMMA LeastMember ==
    ASSUME NEW S \in SUBSET Nat, S # {}
    PROVE  Min(S) \in S /\ \A y \in S : Min(S) <= y
<1> DEFINE R == {ss \in Nat \X Nat : ss[1] < ss[2]}
<1>1. IsWellFoundedOn(R, Nat)
  BY NatLessThanWellFounded DEF OpToRel
<1> HIDE DEF R
<1>2. PICK x \in S : \A y \in S : ~(<<y, x>> \in R)
  BY <1>1, WFMin
<1>3. \A y \in S : x <= y
  <2> SUFFICES ASSUME NEW y \in S, y < x PROVE FALSE
    OBVIOUS
  <2>1. <<y, x>> \in Nat \X Nat /\ <<y, x>>[1] < <<y, x>>[2]
    OBVIOUS
  <2>2. <<y, x>> \in R
    BY <2>1 DEF R
  <2> QED BY <1>2, <2>2
<1> QED BY <1>3 DEF Min

LEMMA SmallerOne ==
    ASSUME NEW a \in Nat, NEW b \in Nat
    PROVE  Min({a, b}) \in Nat /\ Min({a, b}) <= a /\ Min({a, b}) <= b
BY LeastMember

\* Whatever the mappings say, they resolve to a role
\* (resolve_role_from_claims).
LEMMA RolesResolve ==
    ASSUME NEW u, NEW m \in Mappings
    PROVE  ResolveRole(u, m) \in Roles
<1>1. CASE Matches(u, m) = {}
  BY <1>1 DEF ResolveRole, Roles
<1>2. CASE Matches(u, m) # {}
  <2>1. Matches(u, m) \in SUBSET Nat
    BY MappingsAssumption DEF Matches
  <2>2. Min(Matches(u, m)) \in Matches(u, m)
    BY <1>2, <2>1, LeastMember
  <2> QED BY <1>2, <2>2 DEF ResolveRole, Matches
<1> QED BY <1>1, <1>2

-----------------------------------------------------------------------------
(* The inductive invariant *)

\* Sessions are sessions that were created, for logins that were begun.
History ==
    /\ created \in Seq(1..begun)
    /\ Len(created) <= MaxSessions
    /\ \A s \in sessions : s.id <= Len(created)

\* A state that is in Redis was not used, and one that is used was used once.
OneShot ==
    /\ \A l \in Logins : flow[l] > 0 =>
          /\ l <= begun /\ \A b \in Browsers : exchanges[l][b] = 0
          /\ \A i \in 1..Len(created) : created[i] # l
    /\ \A l \in Logins, b \in Browsers : exchanges[l][b] > 0 =>
          /\ l <= begun /\ exchanges[l][b] = 1
          /\ \A c \in Browsers \ {b} : exchanges[l][c] = 0
          /\ \A i \in 1..Len(created) : created[i] # l
    /\ \A i, j \in 1..Len(created) : created[i] = created[j] => i = j

\* What is left of a session's life is no more than what is left of the time
\* since its role was last given.
Recent ==
    /\ \A u \in Users : sinceGiven[u][ResolveRole(u, mappings)] = 0
    /\ \A s \in sessions : sinceGiven[s.user][s.role] + s.left <= SessionTtl

IInv == TypeOK /\ History /\ OneShot /\ Recent

USE TtlAssumption, BoundsAssumption DEF Logins, Ids, None

\* What is left of a session after a tick (Redis counts its key down).
LEMMA AgedSession ==
    ASSUME NEW s \in Session, NEW t \in Age(s)
    PROVE  /\ t \in Session
           /\ t = [s EXCEPT !.left = @ - 1]
           /\ t.id = s.id /\ t.user = s.user /\ t.role = s.role /\ t.left = s.left - 1
BY DEF Age, Session

LEMMA InitIInv == Init => IInv
<1> SUFFICES ASSUME Init PROVE IInv
  OBVIOUS
<1> USE DEF Init
<1>1. TypeOK
  <2>1. who \in [1..begun -> Users] /\ sessions \subseteq Session
    OBVIOUS
  <2>2. sinceGiven \in [Users -> [Roles -> 0..SessionTtl]]
    OBVIOUS
  <2>3. flow \in [Logins -> 0..FlowTtl] /\ exchanges \in [Logins -> [Browsers -> Nat]]
    OBVIOUS
  <2>4. \A s, t \in sessions : s.id = t.id => s = t
    OBVIOUS
  <2>5. {anonymous, configured, redisUp, connected} \subseteq BOOLEAN
    OBVIOUS
  <2>6. begun \in 0..MaxLogins /\ changes \in 0..MaxChanges /\ mappings \in Mappings
    OBVIOUS
  <2>7. cookie \in [Browsers -> Ids \cup {None}] /\ leaving \in [Browsers -> BOOLEAN]
    OBVIOUS
  <2> QED BY <2>1, <2>2, <2>3, <2>4, <2>5, <2>6, <2>7 DEF TypeOK
<1>2. History
  BY DEF History
<1>3. OneShot
  BY DEF OneShot
<1>4. Recent
  BY RolesResolve DEF Recent
<1> QED BY <1>1, <1>2, <1>3, <1>4 DEF IInv

\* A callback more or less that waits.
LEMMA CountsStayCounts ==
    ASSUME NEW f \in [Logins -> [Browsers -> Nat]], NEW l \in Logins, NEW b \in Browsers,
           NEW n \in Nat
    PROVE  [f EXCEPT ![l][b] = n] \in [Logins -> [Browsers -> Nat]]
<1>1. [f[l] EXCEPT ![b] = n] \in [Browsers -> Nat]
  OBVIOUS
<1>2. [f EXCEPT ![l][b] = n] = [f EXCEPT ![l] = [f[l] EXCEPT ![b] = n]]
  OBVIOUS
<1> QED BY <1>1, <1>2

LEMMA OneWaitsLess ==
    ASSUME NEW f \in [Logins -> [Browsers -> Nat]], NEW l \in Logins, NEW b \in Browsers,
           f[l][b] > 0
    PROVE  [f EXCEPT ![l][b] = @ - 1] \in [Logins -> [Browsers -> Nat]]
<1>1. f[l][b] \in Nat
  OBVIOUS
<1>2. f[l][b] - 1 \in Nat
  BY <1>1
<1> QED BY <1>2, CountsStayCounts

LEMMA StepTypeOK == IInv /\ [Next]_vars => TypeOK'
<1> SUFFICES ASSUME IInv, [Next]_vars PROVE TypeOK'
  OBVIOUS
<1> USE DEF IInv, TypeOK
<1>1. CASE UNCHANGED vars
  BY <1>1 DEF vars, flowVars, sessionVars, browserVars, settingVars, redisVars
<1>2. ASSUME NEW u \in Users, Login(u) PROVE TypeOK'
  <2> USE <1>2 DEF Login
  <2>1. begun' \in 0..MaxLogins /\ begun + 1 \in Logins
    OBVIOUS
  <2>2. who' \in [1..begun' -> Users]
    <3>1. who' = Append(who, u) /\ begun' = begun + 1 /\ begun \in Nat
      OBVIOUS
    <3>2. who \in Seq(Users) /\ Len(who) = begun
      OBVIOUS
    <3>3. Append(who, u) \in Seq(Users) /\ Len(Append(who, u)) = begun + 1
      BY <3>2
    <3>4. Append(who, u) \in [1..(begun + 1) -> Users]
      BY <3>3, LenProperties
    <3> QED BY <3>1, <3>4
  <2>3. flow' \in [Logins -> 0..FlowTtl]
    OBVIOUS
  <2> QED BY <2>1, <2>2, <2>3 DEF sessionVars, browserVars, settingVars, redisVars
<1>3. ASSUME NEW b \in Browsers, Logout(b) PROVE TypeOK'
  BY <1>3 DEF Logout, flowVars, settingVars, redisVars
<1>4. ASSUME NEW b \in Browsers, LogoutEnds(b) PROVE TypeOK'
  BY <1>4 DEF LogoutEnds, flowVars, sessionVars, settingVars, redisVars
<1>5. ASSUME NEW l \in Logins, NEW b \in Browsers, Callback(l, b) PROVE TypeOK'
  <2>1. flow' \in [Logins -> 0..FlowTtl]
    BY <1>5 DEF Callback
  <2>2. exchanges' \in [Logins -> [Browsers -> Nat]]
    <3>1. exchanges[l][b] + 1 \in Nat
      OBVIOUS
    <3> QED BY <1>5, <3>1, CountsStayCounts DEF Callback
  <2> QED BY <1>5, <2>1, <2>2 DEF Callback, sessionVars, browserVars, settingVars, redisVars
<1>6. ASSUME NEW l \in Logins, NEW b \in Browsers, CreateSession(l, b) PROVE TypeOK'
  <2> DEFINE new == [id |-> Len(created'), user |-> who[l],
                     role |-> ResolveRole(who[l], mappings), left |-> SessionTtl]
  <2>1. Len(created') = Len(created) + 1 /\ Len(created') \in Ids
    BY <1>6, SMTT(30) DEF CreateSession, History
  <2>2. who[l] \in Users
    BY <1>6 DEF CreateSession, OneShot
  <2>3. new \in Session
    BY <2>1, <2>2, RolesResolve, SMTT(30) DEF Session
  <2>4. sessions' = sessions \cup {new}
    BY <1>6 DEF CreateSession
  <2>5. sessions' \subseteq Session
    BY <2>3, <2>4
  <2>6. \A s \in sessions : s.id # new.id
    BY <2>1 DEF History, Session
  <2>7. \A s, t \in sessions' : s.id = t.id => s = t
    BY <2>4, <2>6
  <2>8. cookie' \in [Browsers -> Ids \cup {None}]
    BY <1>6, <2>1 DEF CreateSession
  <2>9. exchanges' \in [Logins -> [Browsers -> Nat]]
    <3>1. exchanges[l][b] > 0 /\ exchanges' = [exchanges EXCEPT ![l][b] = @ - 1]
      BY <1>6 DEF CreateSession
    <3>2. exchanges \in [Logins -> [Browsers -> Nat]]
      OBVIOUS
    <3> QED BY ONLY <1>6, <3>1, <3>2, OneWaitsLess
  <2> QED
    BY <1>6, <2>5, <2>7, <2>8, <2>9 DEF CreateSession, flowVars, settingVars, redisVars
<1>7. ASSUME NEW l \in Logins, NEW b \in Browsers, ExchangeFails(l, b) PROVE TypeOK'
  <2>1. exchanges' \in [Logins -> [Browsers -> Nat]]
    <3>1. exchanges[l][b] > 0 /\ exchanges' = [exchanges EXCEPT ![l][b] = @ - 1]
      BY <1>7 DEF ExchangeFails
    <3>2. exchanges \in [Logins -> [Browsers -> Nat]]
      OBVIOUS
    <3> QED BY ONLY <1>7, <3>1, <3>2, OneWaitsLess
  <2> QED
    BY <1>7, <2>1 DEF ExchangeFails, flowVars, sessionVars, browserVars, settingVars, redisVars
<1>8. CASE Tick
  <2>1. flow' \in [Logins -> 0..FlowTtl]
    BY <1>8 DEF Tick
  <2>2. sinceGiven' \in [Users -> [Roles -> 0..SessionTtl]]
    <3>1. \A a \in 0..SessionTtl : Min({a + 1, SessionTtl}) \in 0..SessionTtl
      <4> TAKE a \in 0..SessionTtl
      <4>1. a + 1 \in Nat /\ SessionTtl \in Nat
        OBVIOUS
      <4>2. Min({a + 1, SessionTtl}) \in Nat /\ Min({a + 1, SessionTtl}) <= SessionTtl
        BY <4>1, SmallerOne
      <4> QED BY <4>1, <4>2
    <3>2. sinceGiven' = [u \in Users |-> [r \in Roles |->
                            IF Given(u, r, mappings) THEN 0
                            ELSE Min({sinceGiven[u][r] + 1, SessionTtl})]]
      BY <1>8 DEF Tick
    <3>3. \A u \in Users, r \in Roles : sinceGiven[u][r] \in 0..SessionTtl
      OBVIOUS
    <3> HIDE DEF TypeOK
    <3> QED BY <3>1, <3>2, <3>3
  <2>3. sessions' \subseteq Session /\ \A s, t \in sessions' : s.id = t.id => s = t
    <3>1. \A t \in sessions' : \E s \in sessions :
             t \in Session /\ s.id = t.id /\ t = [s EXCEPT !.left = @ - 1]
      BY <1>8, AgedSession DEF Tick
    <3> QED BY <3>1
  <2> QED BY <1>8, <2>1, <2>2, <2>3 DEF Tick, browserVars, redisVars
<1>9. CASE UpdateAccess
  <2>1. CASE anonymous' = ~anonymous /\ UNCHANGED <<mappings, sinceGiven>>
    <3>1. anonymous' \in BOOLEAN
      BY <2>1
    <3> QED
      BY <1>9, <2>1, <3>1, SMTT(30)
      DEF UpdateAccess, Change, flowVars, sessionVars, browserVars, redisVars
  <2>2. CASE /\ mappings' \in Mappings
             /\ sinceGiven' = [u \in Users |-> [r \in Roles |->
                                 IF Given(u, r, mappings') THEN 0 ELSE sinceGiven[u][r]]]
             /\ UNCHANGED anonymous
    <3>1. sinceGiven' \in [Users -> [Roles -> 0..SessionTtl]]
      BY <2>2
    <3> QED
      BY <1>9, <2>2, <3>1
      DEF UpdateAccess, Change, flowVars, sessionVars, browserVars, redisVars
  <2> QED BY <1>9, <2>1, <2>2 DEF UpdateAccess
<1>10. CASE UpdateSso
  BY <1>10 DEF UpdateSso, Change, flowVars, sessionVars, browserVars, redisVars
<1>11. CASE ResetCache
  BY <1>11 DEF ResetCache, Change, browserVars, settingVars, redisVars
<1>12. CASE RedisSwitches
  BY <1>12 DEF RedisSwitches, Change, flowVars, sessionVars, browserVars, settingVars
<1>13. CASE Restart
  BY <1>13 DEF Restart, Change, flowVars, sessionVars, settingVars
<1> QED
  BY <1>1, <1>2, <1>3, <1>4, <1>5, <1>6, <1>7, <1>8, <1>9, <1>10, <1>11, <1>12, <1>13 DEF Next

LEMMA StepHistory == IInv /\ [Next]_vars => History'
<1> SUFFICES ASSUME IInv, [Next]_vars PROVE History'
  OBVIOUS
<1> USE DEF IInv
<1>0. begun \in Nat /\ sessions \subseteq Session
  BY DEF TypeOK
<1>a. ASSUME UNCHANGED <<begun, created>>, sessions' \subseteq sessions
      PROVE  History'
  BY <1>a DEF History
<1>1. CASE UNCHANGED vars
  BY <1>1, <1>a DEF vars, flowVars, sessionVars, browserVars
<1>2. ASSUME NEW u \in Users, Login(u) PROVE History'
  BY <1>0, <1>2, SeqDef DEF Login, sessionVars, History
<1>3. ASSUME NEW b \in Browsers, Logout(b) PROVE History'
  <2>1. UNCHANGED <<begun, created>> /\ sessions' \subseteq sessions
    BY <1>3 DEF Logout, flowVars
  <2> QED BY <2>1, <1>a
<1>4. ASSUME NEW b \in Browsers, LogoutEnds(b) PROVE History'
  BY <1>4, <1>a DEF LogoutEnds, flowVars, sessionVars
<1>5. ASSUME NEW l \in Logins, NEW b \in Browsers, Callback(l, b) PROVE History'
  BY <1>5, <1>a DEF Callback, sessionVars, browserVars
<1>6. ASSUME NEW l \in Logins, NEW b \in Browsers, CreateSession(l, b) PROVE History'
  <2>1. /\ created' = Append(created, l) /\ l \in 1..begun
        /\ UNCHANGED begun /\ Len(created) < MaxSessions
    BY <1>0, <1>6 DEF CreateSession, OneShot, flowVars
  <2>2. /\ created' \in Seq(1..begun) /\ Len(created') = Len(created) + 1
        /\ Len(created) \in Nat
    BY <2>1 DEF History
  <2>3. \A s \in sessions' : s \in sessions \/ s.id = Len(created')
    BY <1>6 DEF CreateSession
  <2>4. \A s \in sessions : s.id \in Nat
    BY <1>0 DEF Session
  <2> QED BY <2>1, <2>2, <2>3, <2>4 DEF History
<1>7. ASSUME NEW l \in Logins, NEW b \in Browsers, ExchangeFails(l, b) PROVE History'
  BY <1>7, <1>a DEF ExchangeFails, flowVars, sessionVars, browserVars
<1>8. CASE Tick
  <2>1. UNCHANGED <<begun, created>>
    BY <1>8 DEF Tick
  <2>2. \A t \in sessions' : \E s \in sessions : t.id = s.id
    BY <1>0, <1>8, AgedSession DEF Tick
  <2> QED BY <2>1, <2>2 DEF History
<1>9. CASE UpdateAccess
  BY <1>9, <1>a DEF UpdateAccess, flowVars, sessionVars, browserVars
<1>10. CASE UpdateSso
  BY <1>10, <1>a DEF UpdateSso, flowVars, sessionVars, browserVars
<1>11. CASE ResetCache
  BY <1>11, <1>a DEF ResetCache, browserVars
<1>12. CASE RedisSwitches
  BY <1>12, <1>a DEF RedisSwitches, flowVars, sessionVars, browserVars
<1>13. CASE Restart
  BY <1>13, <1>a DEF Restart, flowVars, sessionVars
<1> QED
  BY <1>1, <1>2, <1>3, <1>4, <1>5, <1>6, <1>7, <1>8, <1>9, <1>10, <1>11, <1>12, <1>13 DEF Next

LEMMA StepOneShot == IInv /\ [Next]_vars => OneShot'
<1> SUFFICES ASSUME IInv, [Next]_vars PROVE OneShot'
  OBVIOUS
<1> USE DEF IInv
<1>0. /\ begun \in 0..MaxLogins /\ flow \in [Logins -> 0..FlowTtl]
      /\ exchanges \in [Logins -> [Browsers -> Nat]] /\ Len(created) \in Nat
      /\ created \in [1..Len(created) -> 1..begun]
  BY LenProperties DEF TypeOK, History
<1>a. ASSUME UNCHANGED <<begun, created>>,
             \A l \in Logins : flow'[l] > 0 => flow[l] > 0,
             \A l \in Logins, b \in Browsers :
                exchanges'[l][b] = exchanges[l][b] \/ exchanges'[l][b] = 0
      PROVE  OneShot'
  BY <1>a DEF OneShot
<1>1. CASE UNCHANGED vars
  BY <1>1, <1>a DEF vars, flowVars, sessionVars
<1>2. ASSUME NEW u \in Users, Login(u) PROVE OneShot'
  <2>1. /\ begun' = begun + 1 /\ flow' = [flow EXCEPT ![begun + 1] = FlowTtl]
        /\ UNCHANGED <<created, exchanges>>
    BY <1>2 DEF Login, sessionVars
  <2>2. \A i \in 1..Len(created) : created[i] # begun + 1
    <3> TAKE i \in 1..Len(created)
    <3>1. created[i] \in 1..begun
      BY <1>0
    <3> QED BY <1>0, <3>1
  <2>3. \A l \in Logins, b \in Browsers : l = begun + 1 => exchanges[l][b] = 0
    BY <1>0 DEF OneShot
  <2>4. \A l \in Logins : flow'[l] > 0 => l = begun + 1 \/ flow[l] > 0
    BY <1>0, <2>1
  <2>5. \A l \in Logins : l <= begun => l <= begun'
    BY <1>0, <2>1
  <2>6. begun + 1 <= begun'
    BY <1>0, <2>1
  <2>7. ASSUME NEW l \in Logins, flow'[l] > 0
        PROVE  /\ l <= begun' /\ \A b \in Browsers : exchanges[l][b] = 0
               /\ \A i \in 1..Len(created) : created[i] # l
    BY <2>2, <2>3, <2>4, <2>5, <2>6, <2>7 DEF OneShot
  <2> QED BY <2>1, <2>5, <2>7 DEF OneShot
<1>3. ASSUME NEW b \in Browsers, Logout(b) PROVE OneShot'
  BY <1>3, <1>a DEF Logout, flowVars
<1>4. ASSUME NEW b \in Browsers, LogoutEnds(b) PROVE OneShot'
  BY <1>4, <1>a DEF LogoutEnds, flowVars, sessionVars
<1>5. ASSUME NEW l \in Logins, NEW b \in Browsers, Callback(l, b) PROVE OneShot'
  <2>1. /\ flow[l] > 0 /\ UNCHANGED <<begun, created>>
        /\ flow' = [flow EXCEPT ![l] = 0]
        /\ exchanges' = [exchanges EXCEPT ![l][b] = @ + 1]
    BY <1>5 DEF Callback, sessionVars
  <2>2. \A k \in Logins, c \in Browsers :
           exchanges'[k][c] = IF k = l /\ c = b THEN exchanges[k][c] + 1 ELSE exchanges[k][c]
    BY <1>0, <2>1
  <2>3. \A k \in Logins : flow'[k] = IF k = l THEN 0 ELSE flow[k]
    BY <1>0, <2>1
  <2>4. /\ l <= begun /\ \A c \in Browsers : exchanges[l][c] = 0
        /\ \A i \in 1..Len(created) : created[i] # l
    BY <2>1 DEF OneShot
  <2> QED BY <2>1, <2>2, <2>3, <2>4 DEF OneShot
<1>6. ASSUME NEW l \in Logins, NEW b \in Browsers, CreateSession(l, b) PROVE OneShot'
  <2> DEFINE n == Len(created) + 1
  <2>1. /\ created' = Append(created, l) /\ UNCHANGED <<flow, begun>>
        /\ exchanges[l][b] > 0 /\ exchanges' = [exchanges EXCEPT ![l][b] = @ - 1]
    BY <1>6 DEF CreateSession, flowVars
  <2>2. /\ exchanges[l][b] = 1 /\ \A c \in Browsers \ {b} : exchanges[l][c] = 0
        /\ ~(flow[l] > 0)
        /\ \A i \in 1..Len(created) : created[i] # l
    BY <1>0, <2>1 DEF OneShot
  <2>3. /\ Len(created') = n /\ created'[n] = l
        /\ \A i \in 1..Len(created) : created'[i] = created[i]
    BY <2>1 DEF History
  <2>4. \A k \in Logins, c \in Browsers : k # l => exchanges'[k][c] = exchanges[k][c]
    BY <1>0, <2>1
  <2>5. \A c \in Browsers : exchanges'[l][c] = 0
    BY <1>0, <2>1, <2>2
  <2>6. \A i, j \in 1..n : created'[i] = created'[j] => i = j
    <3>1. \A i \in 1..n : i = n \/ i \in 1..Len(created)
      BY <1>0
    <3>2. \A i, j \in 1..Len(created) : created[i] = created[j] => i = j
      BY DEF OneShot
    <3> HIDE DEF n
    <3> QED BY <2>2, <2>3, <3>1, <3>2
  <2>7. \A k \in Logins : k # l /\ (\A i \in 1..Len(created) : created[i] # k) =>
           \A i \in 1..n : created'[i] # k
    <3>1. \A i \in 1..n : i = n \/ i \in 1..Len(created)
      BY <1>0
    <3> QED BY <2>3, <3>1
  <2> HIDE DEF n
  <2> QED BY <2>1, <2>2, <2>3, <2>4, <2>5, <2>6, <2>7 DEF OneShot
<1>7. ASSUME NEW l \in Logins, NEW b \in Browsers, ExchangeFails(l, b) PROVE OneShot'
  <2>1. /\ UNCHANGED <<flow, begun, created>> /\ exchanges[l][b] = 1
        /\ exchanges' = [exchanges EXCEPT ![l][b] = @ - 1]
    BY <1>7 DEF ExchangeFails, flowVars, sessionVars, OneShot
  <2>2. \A k \in Logins, c \in Browsers :
           exchanges'[k][c] = IF k = l /\ c = b THEN 0 ELSE exchanges[k][c]
    BY <1>0, <2>1
  <2> QED BY <2>1, <2>2, <1>a
<1>8. CASE Tick
  <2>1. \A l \in Logins : flow'[l] > 0 => flow[l] > 0
    BY <1>0, <1>8 DEF Tick
  <2> QED BY <1>8, <2>1, <1>a DEF Tick
<1>9. CASE UpdateAccess
  BY <1>9, <1>a DEF UpdateAccess, flowVars, sessionVars
<1>10. CASE UpdateSso
  BY <1>10, <1>a DEF UpdateSso, flowVars, sessionVars
<1>11. CASE ResetCache
  BY <1>11, <1>a DEF ResetCache
<1>12. CASE RedisSwitches
  BY <1>12, <1>a DEF RedisSwitches, flowVars, sessionVars
<1>13. CASE Restart
  BY <1>13, <1>a DEF Restart, flowVars, sessionVars
<1> QED
  BY <1>1, <1>2, <1>3, <1>4, <1>5, <1>6, <1>7, <1>8, <1>9, <1>10, <1>11, <1>12, <1>13 DEF Next

LEMMA StepRecent == IInv /\ [Next]_vars => Recent'
<1> SUFFICES ASSUME IInv, [Next]_vars PROVE Recent'
  OBVIOUS
<1> USE DEF IInv
<1>0. /\ sessions \subseteq Session /\ mappings \in Mappings
      /\ sinceGiven \in [Users -> [Roles -> 0..SessionTtl]]
  BY DEF TypeOK
<1>a. ASSUME UNCHANGED <<mappings, sinceGiven>>, sessions' \subseteq sessions
      PROVE  Recent'
  BY <1>a DEF Recent, ResolveRole, Matches
<1>1. CASE UNCHANGED vars
  BY <1>1, <1>a DEF vars, settingVars, sessionVars
<1>2. ASSUME NEW u \in Users, Login(u) PROVE Recent'
  BY <1>2, <1>a DEF Login, settingVars, sessionVars
<1>3. ASSUME NEW b \in Browsers, Logout(b) PROVE Recent'
  <2>1. UNCHANGED <<mappings, sinceGiven>> /\ sessions' \subseteq sessions
    BY <1>3 DEF Logout, settingVars
  <2> QED BY <2>1, <1>a
<1>4. ASSUME NEW b \in Browsers, LogoutEnds(b) PROVE Recent'
  BY <1>4, <1>a DEF LogoutEnds, settingVars, sessionVars
<1>5. ASSUME NEW l \in Logins, NEW b \in Browsers, Callback(l, b) PROVE Recent'
  BY <1>5, <1>a DEF Callback, settingVars, sessionVars
<1>6. ASSUME NEW l \in Logins, NEW b \in Browsers, CreateSession(l, b) PROVE Recent'
  <2> DEFINE u == who[l]
  <2>1. u \in Users
    BY <1>6 DEF CreateSession, OneShot, TypeOK
  <2>2. UNCHANGED <<mappings, sinceGiven>>
    BY <1>6 DEF CreateSession, settingVars
  <2>3. \A s \in sessions' :
           s \in sessions \/ (s.user = u /\ s.role = ResolveRole(u, mappings) /\ s.left = SessionTtl)
    BY <1>6 DEF CreateSession
  <2>4. sinceGiven[u][ResolveRole(u, mappings)] = 0
    BY <2>1 DEF Recent
  <2>5. \A s \in sessions' : sinceGiven[s.user][s.role] + s.left <= SessionTtl
    <3> HIDE DEF u
    <3> QED BY <2>3, <2>4 DEF Recent
  <2> QED BY <2>2, <2>5 DEF Recent, ResolveRole, Matches
<1>7. ASSUME NEW l \in Logins, NEW b \in Browsers, ExchangeFails(l, b) PROVE Recent'
  BY <1>7, <1>a DEF ExchangeFails, settingVars, sessionVars
<1>8. CASE Tick
  <2>1. UNCHANGED mappings
    BY <1>8 DEF Tick
  <2>2. \A u \in Users, r \in Roles :
           /\ sinceGiven'[u][r] <= sinceGiven[u][r] + 1
           /\ r = ResolveRole(u, mappings) => sinceGiven'[u][r] = 0
    <3> TAKE u \in Users, r \in Roles
    <3>1. sinceGiven'[u][r] = IF r = ResolveRole(u, mappings) THEN 0
                              ELSE Min({sinceGiven[u][r] + 1, SessionTtl})
      BY <1>8 DEF Tick, Given
    <3>2. sinceGiven[u][r] \in 0..SessionTtl
      BY <1>0
    <3>3. sinceGiven[u][r] + 1 \in Nat /\ SessionTtl \in Nat
      BY <3>2
    <3>4. Min({sinceGiven[u][r] + 1, SessionTtl}) <= sinceGiven[u][r] + 1
      BY <3>3, SmallerOne
    <3> QED BY <3>1, <3>2, <3>4
  <2>3. \A t \in sessions' : sinceGiven'[t.user][t.role] + t.left <= SessionTtl
    <3> SUFFICES ASSUME NEW s \in sessions, NEW t \in Age(s)
                 PROVE  sinceGiven'[t.user][t.role] + t.left <= SessionTtl
      BY <1>8 DEF Tick
    <3>1. /\ t.user = s.user /\ t.role = s.role /\ t.left = s.left - 1
          /\ s.user \in Users /\ s.role \in Roles /\ s.left \in 1..SessionTtl
      BY <1>0, AgedSession DEF Session
    <3>2. sinceGiven[s.user][s.role] + s.left <= SessionTtl
      BY DEF Recent
    <3>3. sinceGiven'[s.user][s.role] <= sinceGiven[s.user][s.role] + 1
      BY <2>2, <3>1
    <3>4. sinceGiven'[s.user][s.role] \in Nat /\ sinceGiven[s.user][s.role] \in Nat
      <4>1. TypeOK'
        BY StepTypeOK
      <4>2. sinceGiven' \in [Users -> [Roles -> 0..SessionTtl]]
        BY <4>1 DEF TypeOK
      <4> QED BY <1>0, <3>1, <4>2
    <3> QED BY <3>1, <3>2, <3>3, <3>4
  <2>4. \A u \in Users : sinceGiven'[u][ResolveRole(u, mappings)] = 0
    BY <1>0, <2>2, RolesResolve
  <2> QED BY <2>1, <2>3, <2>4 DEF Recent, ResolveRole, Matches
<1>9. CASE UpdateAccess
  <2>1. CASE UNCHANGED <<mappings, sinceGiven>>
    BY <1>9, <2>1, <1>a DEF UpdateAccess, sessionVars
  <2>2. CASE /\ mappings' \in Mappings
             /\ sinceGiven' = [u \in Users |-> [r \in Roles |->
                                 IF Given(u, r, mappings') THEN 0 ELSE sinceGiven[u][r]]]
    <3>1. \A u \in Users, r \in Roles :
             /\ sinceGiven'[u][r] \in Nat
             /\ sinceGiven'[u][r] <= sinceGiven[u][r]
             /\ r = ResolveRole(u, mappings') => sinceGiven'[u][r] = 0
      BY <1>0, <2>2 DEF Given
    <3>2. \A s \in sessions' : s \in sessions /\ s \in Session
      BY <1>0, <1>9 DEF UpdateAccess, sessionVars
    <3>3. \A s \in sessions' : sinceGiven'[s.user][s.role] + s.left <= SessionTtl
      <4> TAKE s \in sessions'
      <4>1. s.user \in Users /\ s.role \in Roles /\ s.left \in Nat
        BY <3>2 DEF Session
      <4>2. sinceGiven[s.user][s.role] + s.left <= SessionTtl
        BY <3>2 DEF Recent
      <4>3. sinceGiven[s.user][s.role] \in Nat
        BY <1>0, <4>1
      <4> QED BY <3>1, <4>1, <4>2, <4>3
    <3>4. \A u \in Users : sinceGiven'[u][ResolveRole(u, mappings')] = 0
      BY <2>2, <3>1, RolesResolve
    <3> QED BY <3>3, <3>4 DEF Recent, ResolveRole, Matches
  <2> QED BY <1>9, <2>1, <2>2 DEF UpdateAccess
<1>10. CASE UpdateSso
  BY <1>10, <1>a DEF UpdateSso, sessionVars
<1>11. CASE ResetCache
  BY <1>11, <1>a DEF ResetCache, settingVars
<1>12. CASE RedisSwitches
  BY <1>12, <1>a DEF RedisSwitches, settingVars, sessionVars
<1>13. CASE Restart
  BY <1>13, <1>a DEF Restart, settingVars, sessionVars
<1> QED
  BY <1>1, <1>2, <1>3, <1>4, <1>5, <1>6, <1>7, <1>8, <1>9, <1>10, <1>11, <1>12, <1>13 DEF Next

LEMMA IInvHolds == Spec => []IInv
<1>1. IInv /\ [Next]_vars => IInv'
  BY StepTypeOK, StepHistory, StepOneShot, StepRecent DEF IInv
<1> QED BY <1>1, InitIInv, PTL DEF Spec

-----------------------------------------------------------------------------
(* Theorems *)

\* Every reachable state is well typed.
THEOREM Typing == Spec => []TypeOK
<1>1. IInv => TypeOK
  BY DEF IInv
<1> QED BY <1>1, IInvHolds, PTL

\* A login creates one session at most, whatever callbacks arrive, fail and
\* are repeated and however often the process restarts (pop_flow_state).
THEOREM NoReplay == Spec => []OneSessionPerLogin
<1>1. IInv => OneSessionPerLogin
  BY LenProperties DEF IInv, History, OneShot, OneSessionPerLogin
<1> QED BY <1>1, IInvHolds, PTL

\* No browser is let in with a role the mappings have not given to the user of
\* its session within the life of a session (require_authentication).
THEOREM RolesExpire == Spec => []RoleRecentlyGiven
<1>1. IInv => RoleRecentlyGiven
  <2> SUFFICES ASSUME IInv, NEW b \in Browsers, ~anonymous, Allowed(b, Roles)
               PROVE  \E s \in Found(b) :
                         Principal(b) = s.role /\ sinceGiven[s.user][s.role] < SessionTtl
    BY DEF RoleRecentlyGiven
  <2> USE DEF IInv
  <2>1. \A s \in Found(b) : s \in sessions /\ s \in Session
    BY DEF Found, TypeOK
  <2>2. Found(b) # {}
    BY DEF Allowed, Principal, Roles, Refused
  <2>3. PICK s \in Found(b) : Principal(b) = s.role
    BY <2>2 DEF Principal
  <2>4. sinceGiven[s.user][s.role] + s.left <= SessionTtl
    BY <2>1 DEF Recent
  <2>5. sinceGiven[s.user][s.role] \in Nat /\ s.left \in 1..SessionTtl
    BY <2>1 DEF TypeOK, Session
  <2> QED BY <2>3, <2>4, <2>5
<1> QED BY <1>1, IInvHolds, PTL
=============================================================================
