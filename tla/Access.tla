-------------------------------- MODULE Access --------------------------------
(* Who asks: the logins, refresh sessions and API keys of auth/, and the      *)
(* principals the middleware makes of them.                                   *)
(*                                                                            *)
(* A user's browser keeps an access token, which is the roles it was signed   *)
(* for, and the refresh token of a row of auth_refresh_sessions. A row is     *)
(* live while it is neither revoked nor expired. A refresh is two steps, for  *)
(* it checks the row it loaded and revokes it at the commit; every other      *)
(* request writes one row and is one step. The tokens themselves (hashes,     *)
(* signatures, issuers) are left out: what the model holds verifies.          *)
EXTENDS Integers, Sequences, FiniteSets, Scope

CONSTANTS Users, TokenRoles, DbRoles, Keys, KeyOf, Modules, Tabs, MaxRequests
\* TokenRoles[u]: the role sets the identity provider may put into a token of u
\* DbRoles[u]: the column users.roles
\* KeyOf[k]: [owner, modules, accounts, expires] of an API key
\* Tabs: the refresh requests that may be at work at a time

ASSUME AccessAssumption ==
    /\ MaxRequests \in Nat
    /\ \A u \in Users : TokenRoles[u] # {}
    /\ \A k \in Keys : KeyOf[k].owner \in Users

VARIABLES users, jar, sessions, logins, refreshing, keys, enabled, asked
\* users[u]: "none" before the first login, "active" or "disabled"
\* jar[u]: [access, refresh], the roles of the access token and the row of the refresh token
\* sessions: the rows, [user, login, live]; login is the login the row descends from
\* logins: for each login whether two of its refreshes overlapped and whether it has been ended
\* refreshing[t]: [session, roles] of a refresh that has checked its row
\* enabled: the modules not switched off
accessVars == <<users, jar, sessions, logins, refreshing, keys, enabled, asked>>

NoToken == {"no token"}
NoSession == 0
Idle == [session |-> NoSession, roles |-> {}]

Or(roles, others) == IF roles # {} THEN roles ELSE others

AccessTypeOK ==
    /\ users \in [Users -> {"none", "active", "disabled"}]
    /\ \A s \in DOMAIN sessions : sessions[s].user \in Users /\ sessions[s].login \in DOMAIN logins
    /\ \A u \in Users : jar[u].refresh # NoSession =>
         jar[u].refresh \in DOMAIN sessions /\ sessions[jar[u].refresh].user = u
    /\ \A t \in Tabs : refreshing[t] # Idle => refreshing[t].session \in DOMAIN sessions
    /\ keys \in [Keys -> {"none", "live", "dead"}]
    /\ \A k \in Keys : keys[k] # "none" => users[KeyOf[k].owner] # "none"
    /\ enabled \subseteq Modules
    /\ asked \in 0..MaxRequests

\* Some users are provisioned, and their keys may have been issued; who has roles in the
\* database has been.
AccessInit ==
    /\ users \in [Users -> {"none", "active"}]
    /\ \A u \in Users : DbRoles[u] # {} => users[u] = "active"
    /\ keys \in [Keys -> {"none", "live"}]
    /\ \A k \in Keys : keys[k] = "live" => users[KeyOf[k].owner] = "active"
    /\ jar = [u \in Users |-> [access |-> NoToken, refresh |-> NoSession]]
    /\ sessions = <<>> /\ logins = <<>>
    /\ refreshing = [t \in Tabs |-> Idle]
    /\ enabled = Modules
    /\ asked = 0

Request == asked < MaxRequests /\ asked' = asked + 1

-------------------------------------------------------------------------------
(* The middleware.                                                            *)

\* _from_api_key and find_active_key
KeyPrincipals ==
    {[user |-> KeyOf[k].owner, roles |-> DbRoles[KeyOf[k].owner],
      modules |-> KeyOf[k].modules, accounts |-> KeyOf[k].accounts] :
     k \in {k \in Keys : keys[k] = "live" /\ users[KeyOf[k].owner] = "active"}}

PersonWith(u, roles) ==
    [user |-> u, roles |-> Or(roles, DbRoles[u]), modules |-> Unrestricted, accounts |-> Unrestricted]

\* _from_cc_jwt and _principal_for_user_id: the roles of the token, else those of the row.
CookiePrincipals ==
    {PersonWith(u, jar[u].access) : u \in {u \in Users : jar[u].access # NoToken /\ users[u] = "active"}}

\* _from_bearer with a token of the identity provider, for a user it knows already
ForwardedPrincipals ==
    UNION {{PersonWith(u, roles) : roles \in TokenRoles[u]} : u \in {u \in Users : users[u] # "none"}}

Principals == KeyPrincipals \cup CookiePrincipals \cup ForwardedPrincipals

\* main.py: the guards of the routers of the module
MayAsk(p, module) == CloudRole(p) /\ MayUse(p, module, enabled)

\* upsert_from_casdoor: an unknown user is created, active and without roles.
Upserted(u) == [users EXCEPT ![u] = IF @ = "none" THEN "active" ELSE @]

\* _from_bearer: another system forwards the token of a user that has not logged in here.
Forward(u) ==
    /\ Request
    /\ users[u] = "none"
    /\ users' = Upserted(u)
    /\ UNCHANGED <<jar, sessions, logins, refreshing, keys, enabled>>

-------------------------------------------------------------------------------
(* Sessions.                                                                  *)

\* _issue_session, and the cookies of the answer
Issue(u, login) == [user |-> u, login |-> login, live |-> TRUE]
Cookies(u, roles, s) == [jar EXCEPT ![u] = [access |-> roles, refresh |-> s]]

\* oauth_callback
Login(u, roles) ==
    /\ Request
    /\ users' = Upserted(u)
    /\ logins' = Append(logins, [overlapped |-> FALSE, ended |-> FALSE])
    /\ sessions' = Append(sessions, Issue(u, Len(logins) + 1))
    /\ jar' = Cookies(u, Or(roles, DbRoles[u]), Len(sessions) + 1)
    /\ UNCHANGED <<refreshing, keys, enabled>>

\* Does a refresh of this login wait for its commit?
Waiting(login) ==
    \E t \in Tabs : refreshing[t] # Idle /\ sessions[refreshing[t].session].login = login

\* refresh_token up to the commit: the row and the user are checked, the roles are those of an
\* access token that still verifies, else those of the user.
RefreshBegin(t, u) ==
    LET s == jar[u].refresh
    IN  /\ Request
        /\ refreshing[t] = Idle
        /\ s # NoSession /\ sessions[s].live
        /\ users[u] = "active"
        /\ refreshing' = [refreshing EXCEPT ![t] =
             [session |-> s,
              roles |-> Or(IF jar[u].access = NoToken THEN {} ELSE jar[u].access, DbRoles[u])]]
        /\ logins' = [logins EXCEPT ![sessions[s].login].overlapped = @ \/ Waiting(sessions[s].login)]
        /\ UNCHANGED <<users, jar, sessions, keys, enabled>>

\* Mutant of Rotated: the old row stays.
RotatedKeeping(s) == Append(sessions, Issue(sessions[s].user, sessions[s].login))

\* The rotation: the old row is revoked, the new one inserted.
Rotated(s) ==
    Append([sessions EXCEPT ![s].live = FALSE], Issue(sessions[s].user, sessions[s].login))

\* The commit of refresh_token, whose answer the browser may never get.
RefreshCommit(t, answered) ==
    /\ refreshing[t] # Idle
    /\ LET s == refreshing[t].session
       IN  /\ sessions' = Rotated(s)
           /\ jar' = IF answered THEN Cookies(sessions[s].user, refreshing[t].roles, Len(sessions) + 1)
                     ELSE jar
    /\ refreshing' = [refreshing EXCEPT ![t] = Idle]
    /\ UNCHANGED <<users, logins, keys, enabled, asked>>

\* The statements or the commit fail, and get_db rolls back.
RefreshFail(t) ==
    /\ refreshing[t] # Idle
    /\ refreshing' = [refreshing EXCEPT ![t] = Idle]
    /\ UNCHANGED <<users, jar, sessions, logins, keys, enabled, asked>>

\* logout: the cookies go, whether the row could be revoked or not.
Logout(u, written) ==
    LET s == jar[u].refresh
    IN  /\ Request
        /\ s # NoSession
        /\ sessions' = IF written THEN [sessions EXCEPT ![s].live = FALSE] ELSE sessions
        /\ logins' = [logins EXCEPT ![sessions[s].login].ended =
             @ \/ (written /\ sessions[s].live /\ ~Waiting(sessions[s].login))]
        /\ jar' = [jar EXCEPT ![u] = [access |-> NoToken, refresh |-> NoSession]]
        /\ UNCHANGED <<users, refreshing, keys, enabled>>

\* An access token lives 15 minutes and its cookie as long, a row 7 days.
AccessExpires(u) ==
    /\ jar[u].access # NoToken
    /\ jar' = [jar EXCEPT ![u].access = NoToken]
    /\ UNCHANGED <<users, sessions, logins, refreshing, keys, enabled, asked>>
SessionExpires(s) ==
    /\ sessions[s].live
    /\ sessions' = [sessions EXCEPT ![s].live = FALSE]
    /\ UNCHANGED <<users, jar, logins, refreshing, keys, enabled, asked>>

-------------------------------------------------------------------------------
(* Administration.                                                            *)

IsAdmin(p) == HasRole(p, {})

\* toggle_active
ToggleActive(p, u) ==
    /\ Request
    /\ IsAdmin(p)
    /\ users[u] # "none"
    /\ users' = [users EXCEPT ![u] = IF @ = "active" THEN "disabled" ELSE "active"]
    /\ UNCHANGED <<jar, sessions, logins, refreshing, keys, enabled>>

\* create_key
CreateKey(p, k) ==
    /\ Request
    /\ IsAdmin(p)
    /\ keys[k] = "none" /\ users[KeyOf[k].owner] # "none"
    /\ keys' = [keys EXCEPT ![k] = "live"]
    /\ UNCHANGED <<users, jar, sessions, logins, refreshing, enabled>>

\* revoke_key, by an administrator or the owner
RevokeKey(p, k) ==
    /\ Request
    /\ keys[k] = "live"
    /\ IsAdmin(p) \/ p.user = KeyOf[k].owner
    /\ keys' = [keys EXCEPT ![k] = "dead"]
    /\ UNCHANGED <<users, jar, sessions, logins, refreshing, enabled>>

KeyExpires(k) ==
    /\ keys[k] = "live" /\ KeyOf[k].expires
    /\ keys' = [keys EXCEPT ![k] = "dead"]
    /\ UNCHANGED <<users, jar, sessions, logins, refreshing, enabled, asked>>

\* toggle_module
ToggleModule(p, m) ==
    /\ Request
    /\ IsAdmin(p)
    /\ enabled' = IF m \in enabled THEN enabled \ {m} ELSE enabled \cup {m}
    /\ UNCHANGED <<users, jar, sessions, logins, refreshing, keys>>

AccessNext ==
    \/ \E u \in Users : Forward(u) \/ AccessExpires(u)
    \/ \E u \in Users : \E roles \in TokenRoles[u] : Login(u, roles)
    \/ \E t \in Tabs, u \in Users : RefreshBegin(t, u)
    \/ \E t \in Tabs, answered \in BOOLEAN : RefreshCommit(t, answered)
    \/ \E t \in Tabs : RefreshFail(t)
    \/ \E u \in Users, written \in BOOLEAN : Logout(u, written)
    \/ \E s \in DOMAIN sessions : SessionExpires(s)
    \/ \E p \in Principals :
         \/ \E u \in Users : ToggleActive(p, u)
         \/ \E k \in Keys : CreateKey(p, k) \/ RevokeKey(p, k)
         \/ \E m \in Modules : ToggleModule(p, m)
    \/ \E k \in Keys : KeyExpires(k)

-------------------------------------------------------------------------------
\* A login whose refreshes never overlapped has one live row at most, lost answers and failed
\* commits included, and none once its user has logged out with the token of the live row
\* (auth/router.py:217 and :261): the rotation hands on the one row instead of adding to it.
OneSessionPerLogin ==
    \A l \in DOMAIN logins : ~logins[l].overlapped =>
        Cardinality({s \in DOMAIN sessions : sessions[s].login = l /\ sessions[s].live})
          <= IF logins[l].ended THEN 0 ELSE 1
===============================================================================
