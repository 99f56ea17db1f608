---------------------------- MODULE LoginSessions ----------------------------
(***************************************************************************)
(* Logging in with an OpenID provider (api/auth.py, core/oidc.py), the     *)
(* sessions in Redis (core/session_store.py) and the roles they carry      *)
(* (core/roles.py, core/auth.py).                                          *)
(*                                                                         *)
(* A callback takes the state of its login out of Redis and then waits for *)
(* the provider; other requests, changes of the settings, a reset of the   *)
(* cache or a restart come in between. The provider may accept a code or   *)
(* not; nothing is assumed of it. A state is known by its value alone, so  *)
(* any browser may bring it back, and the session goes to that browser.    *)
(* One backend process: GET and DEL of a state are one step in it.         *)
(***************************************************************************)
EXTENDS Naturals, Sequences, FiniteSetsExt

CONSTANTS
    Users,
    Browsers,
    Claims,         \* Claims[u]: the values of u's claims
    Mappings,       \* the values of role_mappings: lists of [value, role]
    FlowTtl,        \* FLOW_TTL_SECONDS, in ticks
    SessionTtl,     \* SESSION_TTL_SECONDS, in ticks
    MaxLogins,      \* bound on the number of logins begun
    MaxSessions,    \* bound on the number of sessions created
    MaxChanges      \* bound on the number of changes of settings and faults

ASSUME TtlAssumption == FlowTtl \in Nat \ {0} /\ SessionTtl \in Nat \ {0}
ASSUME BoundsAssumption == MaxLogins \in Nat /\ MaxSessions \in Nat /\ MaxChanges \in Nat
ASSUME MappingsAssumption ==
    \A m \in Mappings : \A i \in DOMAIN m : i \in Nat /\ {"value", "role"} \subseteq DOMAIN m[i]

Roles == {"Administrator", "Data Admin", "Viewer", "Deny"}
Refused == "401"        \* what a request without a session gets
None == 0               \* no session

Logins == 1..MaxLogins
Ids == 1..MaxSessions

VARIABLES
    flow,       \* flow[l]: what is left of the time to live of the state of
                \* login l in Redis; 0 when it is not there
    who,        \* who[l]: the user that login l identifies at the provider
    begun,      \* number of logins begun
    exchanges,  \* exchanges[l][b]: callbacks of l that b sent and that wait
                \* for the provider
    sessions,   \* the sessions in Redis
    created,    \* the login each session id was created for
    cookie,     \* cookie[b]: the session id in browser b, or None
    leaving,    \* leaving[b]: a logout of b waits for the provider
    anonymous,  \* anonymous_access
    mappings,   \* role_mappings
    configured, \* the SSO settings are complete
    redisUp,    \* Redis answers
    connected,  \* session_store has a client; it makes one when it starts
    sinceGiven, \* sinceGiven[u][r]: ticks since the mappings gave u role r
    changes     \* for the bound

flowVars == <<flow, who, begun>>
sessionVars == <<sessions, created>>
browserVars == <<cookie, leaving>>
settingVars == <<anonymous, mappings, configured, sinceGiven>>
redisVars == <<redisUp, connected>>
vars == <<flowVars, exchanges, sessionVars, browserVars, settingVars, redisVars, changes>>

Session == [id : Ids, user : Users, role : Roles, left : 1..SessionTtl]

TypeOK ==
    /\ begun \in 0..MaxLogins
    /\ flow \in [Logins -> 0..FlowTtl]
    /\ who \in [1..begun -> Users]
    /\ exchanges \in [Logins -> [Browsers -> Nat]]
    /\ sessions \subseteq Session
    /\ \A s, t \in sessions : s.id = t.id => s = t
    /\ cookie \in [Browsers -> Ids \cup {None}]
    /\ leaving \in [Browsers -> BOOLEAN]
    /\ {anonymous, configured, redisUp, connected} \subseteq BOOLEAN
    /\ mappings \in Mappings
    /\ sinceGiven \in [Users -> [Roles -> 0..SessionTtl]]
    /\ changes \in 0..MaxChanges

-----------------------------------------------------------------------------
(* Roles *)

\* resolve_role_from_claims: the first mapping that matches and names a role.
Matches(u, m) == {i \in DOMAIN m : m[i].value \in Claims[u] /\ m[i].role \in Roles}
ResolveRole(u, m) == IF Matches(u, m) = {} THEN "Deny" ELSE m[Min(Matches(u, m))].role

Reachable == redisUp /\ connected

\* require_authentication: a lookup that fails is no session.
Found(b) == {s \in sessions : Reachable /\ s.id = cookie[b]}
Principal(b) ==
    IF anonymous THEN "Administrator"
    ELSE IF Found(b) = {} THEN Refused
    ELSE (CHOOSE s \in Found(b) : TRUE).role

\* require_role(*allowed)
Allowed(b, allowed) == Principal(b) \in allowed

Init ==
    /\ flow = [l \in Logins |-> 0]
    /\ who = << >>
    /\ begun = 0
    /\ exchanges = [l \in Logins |-> [b \in Browsers |-> 0]]
    /\ sessions = {}
    /\ created = << >>
    /\ cookie = [b \in Browsers |-> None]
    /\ leaving = [b \in Browsers |-> FALSE]
    /\ anonymous = FALSE
    /\ configured = TRUE
    /\ mappings \in Mappings
    /\ redisUp \in BOOLEAN
    /\ connected = redisUp
    /\ sinceGiven = [u \in Users |-> [r \in Roles |->
                        IF r = ResolveRole(u, mappings) THEN 0 ELSE SessionTtl]]
    /\ changes = 0

-----------------------------------------------------------------------------
(* Logging in and out *)

\* GET /auth/login, once the provider's discovery document is there: without
\* Redis the login is refused (502).
Login(u) ==
    /\ configured
    /\ Reachable
    /\ begun < MaxLogins
    /\ begun' = begun + 1
    /\ who' = Append(who, u)
    /\ flow' = [flow EXCEPT ![begun + 1] = FlowTtl]
    /\ UNCHANGED <<exchanges, sessionVars, browserVars, settingVars, redisVars, changes>>

\* GET /auth/callback, from whichever browser has the URL and as often as it
\* likes: the state is read and deleted, then the provider is asked.
\* Slip: the state is deleted when the exchange has succeeded.
CallbackKeepsFlow(l, b) ==
    /\ configured
    /\ Reachable
    /\ flow[l] > 0
    /\ exchanges[l][b] < 2
    /\ exchanges' = [exchanges EXCEPT ![l][b] = @ + 1]
    /\ UNCHANGED <<flowVars, sessionVars, browserVars, settingVars, redisVars, changes>>

Callback(l, b) ==
    /\ configured
    /\ Reachable
    /\ flow[l] > 0
    /\ flow' = [flow EXCEPT ![l] = 0]
    /\ exchanges' = [exchanges EXCEPT ![l][b] = @ + 1]
    /\ UNCHANGED <<who, begun, sessionVars, browserVars, settingVars, redisVars, changes>>

\* The provider answered and the token is in order: the role is that of the
\* mappings now, and the browser that sent the callback gets the new session's
\* id.
CreateSession(l, b) ==
    /\ exchanges[l][b] > 0
    /\ Reachable
    /\ Len(created) < MaxSessions
    /\ exchanges' = [exchanges EXCEPT ![l][b] = @ - 1]
    /\ created' = Append(created, l)
    /\ sessions' = sessions \cup
           {[id |-> Len(created'), user |-> who[l],
             role |-> ResolveRole(who[l], mappings), left |-> SessionTtl]}
    /\ cookie' = [cookie EXCEPT ![b] = Len(created')]
    /\ UNCHANGED <<flowVars, leaving, settingVars, redisVars, changes>>

\* The provider cannot be reached, refuses the code or sends a token that does
\* not verify (401), or Redis is gone (503): the login has to begin anew.
ExchangeFails(l, b) ==
    /\ exchanges[l][b] > 0
    /\ exchanges' = [exchanges EXCEPT ![l][b] = @ - 1]
    /\ UNCHANGED <<flowVars, sessionVars, browserVars, settingVars, redisVars, changes>>

\* GET /auth/logout deletes the session, if Redis answers, then asks the
\* provider where to go next ...
Logout(b) ==
    /\ cookie[b] # None
    /\ ~leaving[b]
    /\ leaving' = [leaving EXCEPT ![b] = TRUE]
    /\ sessions' = IF Reachable THEN {s \in sessions : s.id # cookie[b]} ELSE sessions
    /\ UNCHANGED <<flowVars, exchanges, created, cookie, settingVars, redisVars, changes>>

\* ... and, whatever that says, takes the cookie away.
LogoutEnds(b) ==
    /\ leaving[b]
    /\ leaving' = [leaving EXCEPT ![b] = FALSE]
    /\ cookie' = [cookie EXCEPT ![b] = None]
    /\ UNCHANGED <<flowVars, exchanges, sessionVars, settingVars, redisVars, changes>>

-----------------------------------------------------------------------------
(* Time, settings and faults *)

\* Slip: a session is kept one tick too long.
AgeLate(s) == {[s EXCEPT !.left = @ - 1]}

\* Slip: a session starts anew as long as a browser has it.
Renew(s) ==
    IF \E b \in Browsers : cookie[b] = s.id THEN {[s EXCEPT !.left = SessionTtl]}
    ELSE IF s.left = 1 THEN {} ELSE {[s EXCEPT !.left = @ - 1]}

\* Nothing renews a session.
Age(s) == IF s.left = 1 THEN {} ELSE {[s EXCEPT !.left = @ - 1]}

Given(u, r, m) == r = ResolveRole(u, m)

Tick ==
    /\ flow' = [l \in Logins |-> IF flow[l] = 0 THEN 0 ELSE flow[l] - 1]
    /\ sessions' = UNION {Age(s) : s \in sessions}
    /\ sinceGiven' = [u \in Users |-> [r \in Roles |->
                        IF Given(u, r, mappings) THEN 0
                        ELSE Min({sinceGiven[u][r] + 1, SessionTtl})]]
    /\ UNCHANGED <<who, begun, exchanges, created, browserVars, anonymous, mappings, configured,
                   redisVars, changes>>

Change == changes < MaxChanges /\ changes' = changes + 1

\* PUT /system/access
UpdateAccess ==
    /\ Change
    /\ \/ anonymous' = ~anonymous /\ UNCHANGED <<mappings, sinceGiven>>
       \/ /\ mappings' \in Mappings
          /\ sinceGiven' = [u \in Users |-> [r \in Roles |->
                IF Given(u, r, mappings') THEN 0 ELSE sinceGiven[u][r]]]
          /\ UNCHANGED anonymous
    /\ UNCHANGED <<flowVars, exchanges, sessionVars, browserVars, configured, redisVars>>

\* PUT /system/sso leaves a field out, or fills it in.
UpdateSso ==
    /\ Change
    /\ configured' = ~configured
    /\ UNCHANGED <<flowVars, exchanges, sessionVars, browserVars, anonymous, mappings, sinceGiven,
                   redisVars>>

\* POST /system/cache/reset flushes the whole database: logins and sessions.
ResetCache ==
    /\ Change
    /\ redisUp
    /\ flow' = [l \in Logins |-> 0]
    /\ sessions' = {}
    /\ UNCHANGED <<who, begun, exchanges, created, browserVars, settingVars, redisVars>>

\* Redis stops answering, or answers again; it keeps its data.
RedisSwitches ==
    /\ Change
    /\ redisUp' = ~redisUp
    /\ UNCHANGED <<flowVars, exchanges, sessionVars, browserVars, settingVars, connected>>

\* The backend stops in whatever it does and starts again; only then does
\* session_store connect.
Restart ==
    /\ Change
    /\ exchanges' = [l \in Logins |-> [b \in Browsers |-> 0]]
    /\ leaving' = [b \in Browsers |-> FALSE]
    /\ connected' = redisUp
    /\ UNCHANGED <<flowVars, sessionVars, cookie, settingVars, redisUp>>

Next ==
    \/ \E u \in Users : Login(u)
    \/ \E b \in Browsers :
          \/ \E l \in Logins : Callback(l, b) \/ CreateSession(l, b) \/ ExchangeFails(l, b)
          \/ Logout(b) \/ LogoutEnds(b)
    \/ Tick
    \/ UpdateAccess
    \/ UpdateSso
    \/ ResetCache
    \/ RedisSwitches
    \/ Restart

Spec == Init /\ [][Next]_vars

-----------------------------------------------------------------------------
(* A login creates one session at most, however often, however close together
   and from whichever browsers its callback arrives: the state is 'one-shot,
   replay-proof' (session_store.py:130).                                   *)
OneSessionPerLogin ==
    \A i, j \in DOMAIN created : created[i] = created[j] => i = j

(* A browser is let in with a role only if the mappings gave that role, within
   the last eight hours, to the user its session is of: a changed mapping, a
   logout elsewhere, a flush, a restart or an outage never make it longer
   (session_store.py:39, auth.py:89-106). Whose hands the browser is in is
   not known to the code.                                                  *)
RoleRecentlyGiven ==
    \A b \in Browsers : ~anonymous /\ Allowed(b, Roles) =>
        \E s \in Found(b) :
            Principal(b) = s.role /\ sinceGiven[s.user][s.role] < SessionTtl
=============================================================================
