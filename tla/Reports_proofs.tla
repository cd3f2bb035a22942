--------------------------- MODULE Reports_proofs ---------------------------
(* Theorems about Reports and the sessions of Access, for any users, tabs,     *)
(* keys, requests, items and filters: one live session for each login, types,  *)
(* exports that are whole, and figures that agree wherever they are asked for. *)
EXTENDS Reports, Sums

\* The tables of the administration, and the rows that are held on to: the parts of AccessTypeOK.
Provisioned ==
  /\ users \in [Users -> {"none", "active", "disabled"}]
  /\ keys \in [Keys -> {"none", "live", "dead"}]
  /\ \A k \in Keys : keys[k] # "none" => users[KeyOf[k].owner] # "none"
  /\ enabled \subseteq Modules
  /\ asked \in 0..MaxRequests

Held ==
  /\ \A s \in DOMAIN sessions : sessions[s].user \in Users /\ sessions[s].login \in DOMAIN logins
  /\ \A u \in Users : jar[u].refresh # NoSession =>
       jar[u].refresh \in DOMAIN sessions /\ sessions[jar[u].refresh].user = u
  /\ \A t \in Tabs : refreshing[t] # Idle => refreshing[t].session \in DOMAIN sessions

\* The rows of the refresh sessions and the logins are records, and what a browser keeps and a
\* refresh has read are pairs.
SessionsTyped ==
  /\ sessions \in Seq([user : Users, login : Nat, live : BOOLEAN])
  /\ logins \in Seq([overlapped : BOOLEAN, ended : BOOLEAN])
  /\ jar = [u \in Users |-> [access |-> jar[u].access, refresh |-> jar[u].refresh]]
  /\ refreshing = [t \in Tabs |-> [session |-> refreshing[t].session, roles |-> refreshing[t].roles]]

\* The live rows of a login, and the refreshes of it that wait for their commit.
Live(l) == {s \in DOMAIN sessions : sessions[s].login = l /\ sessions[s].live}
Tries(l) == {t \in Tabs : refreshing[t] # Idle /\ sessions[refreshing[t].session].login = l}

\* Without an overlap one row is live at most, one refresh waits at most and will replace that
\* row; and nothing is left of a login that has been ended.
OneRow(l) ==
  /\ \A a, b \in Live(l) : a = b
  /\ \A t, v \in Tries(l) : t = v
  /\ \A t \in Tries(l) : \A a \in Live(l) : a = refreshing[t].session
  /\ logins[l].ended => Live(l) = {} /\ Tries(l) = {}

SessionsInv ==
  /\ Provisioned /\ Held /\ SessionsTyped
  /\ \A l \in DOMAIN logins : ~ logins[l].overlapped => OneRow(l)

\* What an assignment makes of a sequence.
LEMMA Changed ==
  ASSUME NEW T, NEW q \in Seq(T), NEW s \in DOMAIN q, NEW v \in T
  PROVE  LET w == [q EXCEPT ![s] = v]
         IN  /\ w \in Seq(T) /\ DOMAIN w = DOMAIN q /\ Len(w) = Len(q)
             /\ \A i \in DOMAIN q : w[i] = IF i = s THEN v ELSE q[i]
OBVIOUS

\* What an append makes of a sequence.
LEMMA Appended ==
  ASSUME NEW T, NEW q \in Seq(T), NEW v \in T
  PROVE  LET w == Append(q, v)
         IN  /\ w \in Seq(T) /\ DOMAIN w = DOMAIN q \cup {Len(q) + 1} /\ Len(q) + 1 \notin DOMAIN q
             /\ w[Len(q) + 1] = v /\ \A i \in DOMAIN q : w[i] = q[i]
OBVIOUS

\* What a sequence holds.
LEMMA Element ==
  ASSUME NEW T, NEW q \in Seq(T), NEW i \in DOMAIN q
  PROVE  q[i] \in T
OBVIOUS

\* Nobody has logged in yet.
LEMMA SessionsStart == AccessInit => SessionsInv
<1> SUFFICES ASSUME AccessInit PROVE SessionsInv
  OBVIOUS
<1>1. DOMAIN sessions = {} /\ DOMAIN logins = {}
  BY DEF AccessInit
<1>2. Provisioned /\ Held
  BY <1>1, AccessAssumption DEF AccessInit, Provisioned, Held, Idle, NoSession
<1>3. SessionsTyped
  BY DEF AccessInit, SessionsTyped, Idle
<1> QED BY <1>1, <1>2, <1>3 DEF SessionsInv

\* What leaves the sessions alone leaves them right.
LEMMA SessionsStay ==
  ASSUME SessionsInv, UNCHANGED <<sessions, logins, refreshing>>, Provisioned', Held',
         jar' = [u \in Users |-> [access |-> jar'[u].access, refresh |-> jar'[u].refresh]]
  PROVE  SessionsInv'
<1>1. SessionsTyped'
  BY DEF SessionsInv, SessionsTyped
<1>2. \A l : Live(l)' = Live(l) /\ Tries(l)' = Tries(l)
  BY DEF Live, Tries
<1> QED BY <1>1, <1>2 DEF SessionsInv, OneRow

\* A request is counted.
LEMMA Counting == ASSUME Provisioned, Request PROVE asked' \in 0..MaxRequests
BY AccessAssumption DEF Provisioned, Request

\* A user is created, or switched on and off.
LEMMA UsersTyped ==
  ASSUME Provisioned, NEW u \in Users,
         users' = Upserted(u) \/ (users[u] # "none" /\ users' = [users EXCEPT ![u] = IF @ = "active" THEN "disabled" ELSE "active"]),
         UNCHANGED <<keys, enabled>>, asked' \in 0..MaxRequests
  PROVE  Provisioned'
<1>1. /\ users' \in [Users -> {"none", "active", "disabled"}]
      /\ \A v \in Users : users[v] # "none" => users'[v] # "none"
  BY DEF Provisioned, Upserted
<1>2. \A k \in Keys : KeyOf[k].owner \in Users
  BY AccessAssumption
<1> QED BY <1>1, <1>2 DEF Provisioned

\* The rows and the logins, and what holds on to them.
LEMMA RowsAre ==
  ASSUME SessionsInv
  PROVE  /\ Len(sessions) \in Nat /\ DOMAIN sessions = 1..Len(sessions)
         /\ Len(logins) \in Nat /\ DOMAIN logins = 1..Len(logins)
         /\ \A s \in DOMAIN sessions :
              /\ sessions[s] \in [user : Users, login : Nat, live : BOOLEAN]
              /\ sessions[s].login \in DOMAIN logins
         /\ \A l \in DOMAIN logins : logins[l] \in [overlapped : BOOLEAN, ended : BOOLEAN]
         /\ Provisioned /\ Held
<1>1. /\ sessions \in Seq([user : Users, login : Nat, live : BOOLEAN])
      /\ logins \in Seq([overlapped : BOOLEAN, ended : BOOLEAN]) /\ Provisioned /\ Held
  BY DEF SessionsInv, SessionsTyped
<1>2. \A s \in DOMAIN sessions : sessions[s] \in [user : Users, login : Nat, live : BOOLEAN]
  BY <1>1, Element
<1>3. \A l \in DOMAIN logins : logins[l] \in [overlapped : BOOLEAN, ended : BOOLEAN]
  BY <1>1, Element
<1>4. /\ Len(sessions) \in Nat /\ DOMAIN sessions = 1..Len(sessions)
      /\ Len(logins) \in Nat /\ DOMAIN logins = 1..Len(logins)
  BY <1>1
<1> QED BY <1>1, <1>2, <1>3, <1>4 DEF Held

\* A login begins with a row of its own.
LEMMA LoginInv ==
  ASSUME SessionsInv, NEW u \in Users, NEW roles, Login(u, roles)
  PROVE  SessionsInv'
<1> DEFINE n == Len(sessions) + 1
           k == Len(logins) + 1
           row == [user |-> u, login |-> k, live |-> TRUE]
           new == [overlapped |-> FALSE, ended |-> FALSE]
<1>1. /\ sessions' = Append(sessions, row) /\ logins' = Append(logins, new)
      /\ jar' = [jar EXCEPT ![u] = [access |-> Or(roles, DbRoles[u]), refresh |-> n]]
      /\ UNCHANGED <<refreshing, keys, enabled>> /\ users' = Upserted(u) /\ Request
  BY DEF Login, Issue, Cookies
<1>2. row \in [user : Users, login : Nat, live : BOOLEAN] /\ new \in [overlapped : BOOLEAN, ended : BOOLEAN]
  BY RowsAre
<1> HIDE DEF row, new
<1>3. /\ sessions' \in Seq([user : Users, login : Nat, live : BOOLEAN])
      /\ DOMAIN sessions' = DOMAIN sessions \cup {n} /\ n \notin DOMAIN sessions
      /\ sessions'[n] = row /\ \A s \in DOMAIN sessions : sessions'[s] = sessions[s]
  BY <1>1, <1>2, Appended DEF SessionsInv, SessionsTyped
<1>4. /\ logins' \in Seq([overlapped : BOOLEAN, ended : BOOLEAN])
      /\ DOMAIN logins' = DOMAIN logins \cup {k} /\ k \notin DOMAIN logins
      /\ logins'[k] = new /\ \A l \in DOMAIN logins : logins'[l] = logins[l]
  BY <1>1, <1>2, Appended DEF SessionsInv, SessionsTyped
<1>5. /\ jar' = [v \in Users |-> [access |-> jar'[v].access, refresh |-> jar'[v].refresh]]
      /\ jar'[u].refresh = n /\ \A v \in Users : v # u => jar'[v] = jar[v]
  BY <1>1 DEF SessionsInv, SessionsTyped
<1>6. row.user = u /\ row.login = k
  BY DEF row
<1>7. Held'
  BY <1>1, <1>3, <1>4, <1>5, <1>6, RowsAre DEF Held
<1>8. Provisioned'
  BY <1>1, RowsAre, Counting, UsersTyped
<1>9. SessionsTyped'
  BY <1>1, <1>3, <1>4, <1>5 DEF SessionsInv, SessionsTyped
<1>10. ASSUME NEW l \in DOMAIN logins', ~ logins'[l].overlapped PROVE OneRow(l)'
  <2>1. CASE l = k
    <3>1. Live(l)' \subseteq {n}
      BY <1>3, <2>1, RowsAre DEF Live
    <3>2. Tries(l)' = {}
      BY <1>1, <1>3, <2>1, RowsAre DEF Tries, Held
    <3>3. ~ logins'[l].ended
      BY <1>4, <2>1 DEF new
    <3> QED BY <3>1, <3>2, <3>3 DEF OneRow
  <2>2. CASE l # k
    <3>1. Live(l)' = Live(l)
      BY <1>3, <1>6, <2>2 DEF Live
    <3>2. Tries(l)' = Tries(l)
      BY <1>1, <1>3, RowsAre DEF Tries, Held
    <3> QED BY <1>1, <1>4, <1>10, <2>2, <3>1, <3>2 DEF SessionsInv, OneRow
  <2> QED BY <2>1, <2>2
<1> QED BY <1>7, <1>8, <1>9, <1>10 DEF SessionsInv

\* A refresh has checked its row, the one that lives, and makes an overlap known.
LEMMA RefreshBeginInv ==
  ASSUME SessionsInv, NEW t \in Tabs, NEW u \in Users, RefreshBegin(t, u)
  PROVE  SessionsInv'
<1> DEFINE s == jar[u].refresh
           l == sessions[s].login
           over == [logins[l] EXCEPT !.overlapped = @ \/ Waiting(l)]
           roles == Or(IF jar[u].access = NoToken THEN {} ELSE jar[u].access, DbRoles[u])
<1>1. /\ Request /\ s # NoSession /\ sessions[s].live
      /\ refreshing[t] = Idle
      /\ refreshing' = [refreshing EXCEPT ![t] = [session |-> s, roles |-> roles]]
      /\ UNCHANGED <<users, jar, sessions, keys, enabled>>
      /\ logins' = [logins EXCEPT ![l] = over]
  BY DEF RefreshBegin
<1>2. s \in DOMAIN sessions /\ s # 0 /\ l \in DOMAIN logins
  BY <1>1, RowsAre DEF Held, NoSession
<1>3. over \in [overlapped : BOOLEAN, ended : BOOLEAN] /\ over.ended = logins[l].ended
      /\ (~ over.overlapped => ~ logins[l].overlapped /\ ~ Waiting(l))
  BY <1>2, RowsAre DEF Waiting
<1> HIDE DEF s, over, roles
<1>4. /\ logins' \in Seq([overlapped : BOOLEAN, ended : BOOLEAN])
      /\ DOMAIN logins' = DOMAIN logins
      /\ \A m \in DOMAIN logins : logins'[m] = IF m = l THEN over ELSE logins[m]
  <2> HIDE DEF l
  <2> QED BY <1>1, <1>2, <1>3, Changed DEF SessionsInv, SessionsTyped
<1>5. /\ refreshing' = [v \in Tabs |-> [session |-> refreshing'[v].session, roles |-> refreshing'[v].roles]]
      /\ refreshing'[t].session = s /\ refreshing'[t] # Idle
      /\ \A v \in Tabs : v # t => refreshing'[v] = refreshing[v]
  BY <1>1, <1>2 DEF SessionsInv, SessionsTyped, Idle, NoSession
<1>6. Held'
  BY <1>1, <1>2, <1>4, <1>5, RowsAre DEF Held
<1>7. Provisioned'
  BY <1>1, RowsAre, Counting DEF Provisioned
<1>8. SessionsTyped'
  BY <1>1, <1>4, <1>5 DEF SessionsInv, SessionsTyped
<1>9. ASSUME NEW m \in DOMAIN logins', ~ logins'[m].overlapped PROVE OneRow(m)'
  <2>1. Live(m)' = Live(m)
    BY <1>1 DEF Live
  <2>2. CASE m = l
    <3>1. /\ ~ logins[m].overlapped /\ ~ Waiting(m) /\ OneRow(m)
          /\ (logins'[m].ended <=> logins[m].ended)
      BY <1>2, <1>3, <1>4, <1>9, <2>2 DEF SessionsInv
    <3>2. Tries(m)' \subseteq {t}
      BY <1>1, <1>5, <3>1 DEF Tries, Waiting
    <3>3. s \in Live(m)
      BY <1>1, <1>2, <2>2 DEF Live
    <3>4. ~ logins'[m].ended
      BY <3>1, <3>3 DEF OneRow
    <3> QED BY <1>5, <2>1, <2>2, <3>1, <3>2, <3>3, <3>4 DEF OneRow
  <2>3. CASE m # l
    <3>1. /\ ~ logins[m].overlapped /\ logins'[m] = logins[m] /\ OneRow(m)
      BY <1>4, <1>9, <2>3 DEF SessionsInv
    <3>2. Tries(m)' = Tries(m)
      BY <1>1, <1>5, <2>3 DEF Tries
    <3>3. t \notin Tries(m) /\ Tries(m) \subseteq Tabs
      BY <1>1 DEF Tries
    <3> QED BY <1>5, <2>1, <3>1, <3>2, <3>3 DEF OneRow
  <2> QED BY <2>2, <2>3
<1> QED BY <1>6, <1>7, <1>8, <1>9 DEF SessionsInv

\* The commit hands the row on.
LEMMA RefreshCommitInv ==
  ASSUME SessionsInv, NEW t \in Tabs, NEW answered \in BOOLEAN, RefreshCommit(t, answered)
  PROVE  SessionsInv'
<1> DEFINE s == refreshing[t].session
           u == sessions[s].user
           l == sessions[s].login
           n == Len(sessions) + 1
           dead == [sessions[s] EXCEPT !.live = FALSE]
           row == [user |-> u, login |-> l, live |-> TRUE]
           held == [sessions EXCEPT ![s] = dead]
<1>1. /\ refreshing[t] # Idle
      /\ sessions' = Append(held, row)
      /\ jar' = (IF answered THEN [jar EXCEPT ![u] = [access |-> refreshing[t].roles, refresh |-> n]] ELSE jar)
      /\ refreshing' = [refreshing EXCEPT ![t] = Idle]
      /\ UNCHANGED <<users, logins, keys, enabled, asked>>
  BY DEF RefreshCommit, Rotated, Issue, Cookies
<1>2. s \in DOMAIN sessions /\ u \in Users /\ l \in DOMAIN logins /\ l \in Nat
  BY <1>1, RowsAre DEF Held
<1>3. /\ dead \in [user : Users, login : Nat, live : BOOLEAN] /\ dead.user = u /\ dead.login = l /\ ~ dead.live
      /\ row \in [user : Users, login : Nat, live : BOOLEAN] /\ row.user = u /\ row.login = l
  BY <1>2, RowsAre
<1> HIDE DEF s, dead, row
<1>4. /\ held \in Seq([user : Users, login : Nat, live : BOOLEAN])
      /\ DOMAIN held = DOMAIN sessions /\ Len(held) = Len(sessions)
      /\ \A i \in DOMAIN sessions : held[i] = IF i = s THEN dead ELSE sessions[i]
  BY <1>2, <1>3, Changed DEF SessionsInv, SessionsTyped
<1> HIDE DEF held
<1>5. /\ sessions' \in Seq([user : Users, login : Nat, live : BOOLEAN])
      /\ DOMAIN sessions' = DOMAIN sessions \cup {n} /\ n \notin DOMAIN sessions
      /\ sessions'[n] = row
      /\ \A i \in DOMAIN sessions : sessions'[i] = IF i = s THEN dead ELSE sessions[i]
  BY <1>1, <1>3, <1>4, Appended
<1> HIDE DEF n
<1>6. \A i \in DOMAIN sessions : sessions'[i].user = sessions[i].user /\ sessions'[i].login = sessions[i].login
  BY <1>3, <1>5
<1>7. /\ jar' = [v \in Users |-> [access |-> jar'[v].access, refresh |-> jar'[v].refresh]]
      /\ \A v \in Users : jar'[v].refresh = jar[v].refresh \/ (v = u /\ jar'[v].refresh = n)
  <2>1. jar = [v \in Users |-> [access |-> jar[v].access, refresh |-> jar[v].refresh]]
    BY DEF SessionsInv, SessionsTyped
  <2> HIDE DEF u
  <2>2. CASE answered
    BY <1>1, <1>2, <2>1, <2>2
  <2>3. CASE ~ answered
    BY <1>1, <2>1, <2>3
  <2> QED BY <2>2, <2>3
<1>8. /\ refreshing' = [v \in Tabs |-> [session |-> refreshing'[v].session, roles |-> refreshing'[v].roles]]
      /\ refreshing'[t] = Idle
      /\ \A v \in Tabs : v # t => refreshing'[v] = refreshing[v]
  BY <1>1 DEF SessionsInv, SessionsTyped, Idle
<1>9. Held'
  <2>1. \A i \in DOMAIN sessions' : sessions'[i].user \in Users /\ sessions'[i].login \in DOMAIN logins'
    BY <1>1, <1>2, <1>3, <1>5, <1>6, RowsAre
  <2>2. \A v \in Users : jar'[v].refresh # NoSession =>
          jar'[v].refresh \in DOMAIN sessions' /\ sessions'[jar'[v].refresh].user = v
    BY <1>3, <1>5, <1>6, <1>7, RowsAre DEF Held
  <2>3. \A v \in Tabs : refreshing'[v] # Idle => refreshing'[v].session \in DOMAIN sessions'
    BY <1>5, <1>8, RowsAre DEF Held
  <2> QED BY <2>1, <2>2, <2>3 DEF Held
<1>10. Provisioned'
  BY <1>1, RowsAre DEF Provisioned
<1>11. SessionsTyped'
  BY <1>1, <1>5, <1>7, <1>8 DEF SessionsInv, SessionsTyped
<1>12. ASSUME NEW m \in DOMAIN logins', ~ logins'[m].overlapped PROVE OneRow(m)'
  <2>1. /\ ~ logins[m].overlapped /\ logins'[m] = logins[m] /\ OneRow(m)
    BY <1>1, <1>12 DEF SessionsInv
  <2>2. Tries(m)' = Tries(m) \ {t}
    <3>1. ASSUME NEW v \in Tabs, v # t, refreshing[v] # Idle
          PROVE  refreshing'[v] = refreshing[v]
                 /\ sessions'[refreshing[v].session].login = sessions[refreshing[v].session].login
      <4>1. refreshing[v].session \in DOMAIN sessions
        BY <3>1, RowsAre DEF Held
      <4> QED BY <1>6, <1>8, <3>1, <4>1
    <3> QED BY <1>8, <3>1 DEF Tries
  <2>3. CASE m = l
    <3>1. t \in Tries(m)
      BY <1>1, <2>3 DEF Tries, s
    <3>2. Live(m) \subseteq {s} /\ Tries(m) = {t} /\ ~ logins[m].ended
      BY <2>1, <3>1 DEF OneRow, s
    <3>3. Live(m)' \subseteq {n}
      BY <1>3, <1>5, <1>6, <3>2 DEF Live
    <3> QED BY <2>1, <2>2, <2>3, <3>2, <3>3 DEF OneRow
  <2>4. CASE m # l
    <3>1. Live(m)' = Live(m)
      BY <1>3, <1>5, <1>6, <2>4 DEF Live, s
    <3>2. Tries(m) \subseteq Tabs
      BY DEF Tries
    <3> QED BY <1>8, <2>1, <2>2, <3>1, <3>2 DEF OneRow
  <2> QED BY <2>3, <2>4
<1> QED BY <1>9, <1>10, <1>11, <1>12 DEF SessionsInv

\* A refresh that fails leaves the row that there was.
LEMMA RefreshFailInv ==
  ASSUME SessionsInv, NEW t \in Tabs, RefreshFail(t)
  PROVE  SessionsInv'
<1>1. /\ refreshing' = [v \in Tabs |-> [session |-> refreshing'[v].session, roles |-> refreshing'[v].roles]]
      /\ refreshing'[t] = Idle
      /\ \A v \in Tabs : v # t => refreshing'[v] = refreshing[v]
      /\ UNCHANGED <<users, jar, sessions, logins, keys, enabled, asked>>
  BY DEF RefreshFail, SessionsInv, SessionsTyped, Idle
<1>2. Held' /\ Provisioned'
  BY <1>1, RowsAre DEF Held, Provisioned
<1>3. SessionsTyped'
  BY <1>1 DEF SessionsInv, SessionsTyped
<1>4. ASSUME NEW m \in DOMAIN logins', ~ logins'[m].overlapped PROVE OneRow(m)'
  <2>1. Live(m)' = Live(m) /\ Tries(m)' \subseteq Tries(m) \ {t} /\ Tries(m) \subseteq Tabs
    BY <1>1 DEF Live, Tries
  <2> QED BY <1>1, <1>4, <2>1 DEF SessionsInv, OneRow
<1> QED BY <1>2, <1>3, <1>4 DEF SessionsInv

\* A row dies, and no other is touched.
LEMMA Dying ==
  ASSUME SessionsInv, NEW s \in DOMAIN sessions, sessions' = [sessions EXCEPT ![s].live = FALSE]
  PROVE  /\ sessions' \in Seq([user : Users, login : Nat, live : BOOLEAN])
         /\ DOMAIN sessions' = DOMAIN sessions
         /\ \A i \in DOMAIN sessions : /\ sessions'[i].user = sessions[i].user
                                       /\ sessions'[i].login = sessions[i].login
                                       /\ sessions'[i].live <=> sessions[i].live /\ i # s
<1> DEFINE dead == [sessions[s] EXCEPT !.live = FALSE]
<1>1. /\ sessions[s] \in [user : Users, login : Nat, live : BOOLEAN]
      /\ \A i \in DOMAIN sessions : sessions[i] \in [user : Users, login : Nat, live : BOOLEAN]
  BY RowsAre
<1>2. /\ dead \in [user : Users, login : Nat, live : BOOLEAN]
      /\ dead.user = sessions[s].user /\ dead.login = sessions[s].login /\ ~ dead.live
  BY <1>1
<1>3. sessions' = [sessions EXCEPT ![s] = dead]
  OBVIOUS
<1> HIDE DEF dead
<1>4. /\ sessions' \in Seq([user : Users, login : Nat, live : BOOLEAN])
      /\ DOMAIN sessions' = DOMAIN sessions
      /\ \A i \in DOMAIN sessions : sessions'[i] = IF i = s THEN dead ELSE sessions[i]
  <2> DEFINE T == [user : Users, login : Nat, live : BOOLEAN]
             w == [sessions EXCEPT ![s] = dead]
  <2>1. sessions \in Seq(T) /\ dead \in T
    BY <1>2 DEF SessionsInv, SessionsTyped
  <2> HIDE DEF T
  <2>2. /\ w \in Seq(T) /\ DOMAIN w = DOMAIN sessions
        /\ \A i \in DOMAIN sessions : w[i] = IF i = s THEN dead ELSE sessions[i]
    BY <2>1, Changed
  <2> HIDE DEF w
  <2>3. sessions' = w
    BY <1>3 DEF w
  <2> QED BY <2>2, <2>3 DEF T
<1> QED BY <1>1, <1>2, <1>4

\* A logout ends the login of the row that lives.
LEMMA LogoutInv ==
  ASSUME SessionsInv, NEW u \in Users, NEW written \in BOOLEAN, Logout(u, written)
  PROVE  SessionsInv'
<1> DEFINE s == jar[u].refresh
           l == sessions[s].login
           end == [logins[l] EXCEPT !.ended = @ \/ (written /\ sessions[s].live /\ ~ Waiting(l))]
<1>1. /\ Request /\ s # NoSession
      /\ sessions' = (IF written THEN [sessions EXCEPT ![s].live = FALSE] ELSE sessions)
      /\ logins' = [logins EXCEPT ![l] = end]
      /\ jar' = [jar EXCEPT ![u] = [access |-> NoToken, refresh |-> NoSession]]
      /\ UNCHANGED <<users, refreshing, keys, enabled>>
  BY DEF Logout
<1>2. s \in DOMAIN sessions /\ l \in DOMAIN logins
  BY <1>1, RowsAre DEF Held
<1>3. /\ end \in [overlapped : BOOLEAN, ended : BOOLEAN] /\ end.overlapped = logins[l].overlapped
      /\ end.ended => logins[l].ended \/ (written /\ sessions[s].live /\ ~ Waiting(l))
  BY <1>2, RowsAre DEF Waiting
<1> HIDE DEF s, end
<1>4. /\ logins' \in Seq([overlapped : BOOLEAN, ended : BOOLEAN])
      /\ DOMAIN logins' = DOMAIN logins
      /\ \A m \in DOMAIN logins : logins'[m] = IF m = l THEN end ELSE logins[m]
  <2> HIDE DEF l
  <2> QED BY <1>1, <1>2, <1>3, Changed DEF SessionsInv, SessionsTyped
<1>5. /\ sessions' \in Seq([user : Users, login : Nat, live : BOOLEAN])
      /\ DOMAIN sessions' = DOMAIN sessions
      /\ \A i \in DOMAIN sessions : /\ sessions'[i].user = sessions[i].user
                                    /\ sessions'[i].login = sessions[i].login
                                    /\ sessions'[i].live <=> sessions[i].live /\ (written => i # s)
  <2>1. CASE written
    BY <1>1, <1>2, <2>1, Dying
  <2>2. CASE ~ written
    BY <1>1, <2>2, RowsAre DEF SessionsInv, SessionsTyped
  <2> QED BY <2>1, <2>2
<1>6. /\ jar' = [v \in Users |-> [access |-> jar'[v].access, refresh |-> jar'[v].refresh]]
      /\ jar'[u].refresh = NoSession /\ \A v \in Users : v # u => jar'[v] = jar[v]
  BY <1>1 DEF SessionsInv, SessionsTyped
<1>7. Held'
  BY <1>1, <1>4, <1>5, <1>6, RowsAre DEF Held
<1>8. Provisioned'
  BY <1>1, RowsAre, Counting DEF Provisioned
<1>9. SessionsTyped'
  BY <1>1, <1>4, <1>5, <1>6 DEF SessionsInv, SessionsTyped
<1>10. ASSUME NEW m \in DOMAIN logins', ~ logins'[m].overlapped PROVE OneRow(m)'
  <2>1. Live(m)' = Live(m) \ (IF written THEN {s} ELSE {})
    BY <1>5 DEF Live
  <2>2. Tries(m)' = Tries(m)
    BY <1>1, <1>5, RowsAre DEF Tries, Held
  <2>3. OneRow(m)
    BY <1>3, <1>4, <1>10 DEF SessionsInv
  <2>4. logins'[m].ended => Live(m)' = {} /\ Tries(m)' = {}
    <3>1. CASE logins[m].ended
      BY <2>1, <2>2, <2>3, <3>1 DEF OneRow
    <3>2. CASE ~ logins[m].ended /\ logins'[m].ended
      <4>1. m = l /\ written /\ sessions[s].live /\ ~ Waiting(m)
        BY <1>3, <1>4, <3>2
      <4>2. s \in Live(m) /\ Tries(m) = {}
        BY <1>2, <4>1 DEF Live, Tries, Waiting
      <4> QED BY <2>1, <2>2, <2>3, <4>1, <4>2 DEF OneRow
    <3> QED BY <3>1, <3>2
  <2> QED BY <1>1, <2>1, <2>2, <2>3, <2>4 DEF OneRow
<1> QED BY <1>7, <1>8, <1>9, <1>10 DEF SessionsInv

\* A row expires.
LEMMA ExpiryInv ==
  ASSUME SessionsInv, NEW s \in DOMAIN sessions, SessionExpires(s)
  PROVE  SessionsInv'
<1>1. /\ sessions' \in Seq([user : Users, login : Nat, live : BOOLEAN])
      /\ DOMAIN sessions' = DOMAIN sessions
      /\ \A i \in DOMAIN sessions : /\ sessions'[i].user = sessions[i].user
                                    /\ sessions'[i].login = sessions[i].login
                                    /\ sessions'[i].live <=> sessions[i].live /\ i # s
  BY Dying DEF SessionExpires
<1>2. UNCHANGED <<users, jar, logins, refreshing, keys, enabled, asked>>
  BY DEF SessionExpires
<1>3. Held' /\ Provisioned' /\ SessionsTyped'
  BY <1>1, <1>2, RowsAre DEF Held, Provisioned, SessionsInv, SessionsTyped
<1>4. ASSUME NEW m \in DOMAIN logins', ~ logins'[m].overlapped PROVE OneRow(m)'
  <2>1. Live(m)' \subseteq Live(m)
    BY <1>1 DEF Live
  <2>2. Tries(m)' = Tries(m)
    BY <1>1, <1>2, RowsAre DEF Tries, Held
  <2> QED BY <1>2, <1>4, <2>1, <2>2 DEF SessionsInv, OneRow
<1> QED BY <1>3, <1>4 DEF SessionsInv

\* Everything else that is asked leaves the rows alone.
LEMMA OthersInv ==
  ASSUME SessionsInv, UNCHANGED <<sessions, logins, refreshing>>,
         \/ \E u \in Users : Forward(u) \/ AccessExpires(u)
         \/ \E p \in Principals :
              \/ \E u \in Users : ToggleActive(p, u)
              \/ \E k \in Keys : CreateKey(p, k) \/ RevokeKey(p, k)
              \/ \E m \in Modules : ToggleModule(p, m)
         \/ \E k \in Keys : KeyExpires(k)
         \/ UNCHANGED <<users, jar, keys, enabled>> /\ (Request \/ asked' = asked)
  PROVE  SessionsInv'
<1>1. ASSUME NEW u \in Users, Forward(u) PROVE SessionsInv'
  <2>1. Provisioned'
    BY <1>1, RowsAre, Counting, UsersTyped DEF Forward
  <2>2. Held' /\ jar' = jar
    BY <1>1, RowsAre DEF Forward, Held
  <2> QED BY <2>1, <2>2, SessionsStay DEF SessionsInv, SessionsTyped
<1>2. ASSUME NEW u \in Users, AccessExpires(u) PROVE SessionsInv'
  <2>1. /\ jar' = [v \in Users |-> [access |-> jar'[v].access, refresh |-> jar'[v].refresh]]
        /\ \A v \in Users : jar'[v].refresh = jar[v].refresh
    <3>1. jar = [v \in Users |-> [access |-> jar[v].access, refresh |-> jar[v].refresh]]
      BY DEF SessionsInv, SessionsTyped
    <3>2. jar' = [v \in Users |-> [access |-> IF v = u THEN NoToken ELSE jar[v].access,
                                   refresh |-> jar[v].refresh]]
      BY <1>2, <3>1 DEF AccessExpires
    <3> QED BY <3>2
  <2>2. Provisioned'
    BY <1>2, RowsAre DEF AccessExpires, Provisioned
  <2>3. Held'
    BY <2>1, RowsAre DEF Held
  <2> QED BY <2>1, <2>2, <2>3, SessionsStay
<1>3. ASSUME jar' = jar, Provisioned' PROVE SessionsInv'
  <2>1. Held'
    BY <1>3, RowsAre DEF Held
  <2> QED BY <1>3, <2>1, SessionsStay DEF SessionsInv, SessionsTyped
<1>4. ASSUME NEW p \in Principals, NEW u \in Users, ToggleActive(p, u) PROVE SessionsInv'
  BY <1>3, <1>4, RowsAre, Counting, UsersTyped DEF ToggleActive
<1>5. ASSUME NEW p \in Principals, NEW k \in Keys, CreateKey(p, k) \/ RevokeKey(p, k) PROVE SessionsInv'
  <2>1. /\ Request /\ UNCHANGED <<users, jar, enabled>>
        /\ \/ keys' = [keys EXCEPT ![k] = "live"] /\ users[KeyOf[k].owner] # "none"
           \/ keys' = [keys EXCEPT ![k] = "dead"] /\ keys[k] = "live"
    BY <1>5 DEF CreateKey, RevokeKey
  <2>2. Provisioned'
    BY <2>1, RowsAre, Counting DEF Provisioned
  <2> QED BY <1>3, <2>1, <2>2
<1>6. ASSUME NEW p \in Principals, NEW m \in Modules, ToggleModule(p, m) PROVE SessionsInv'
  <2>1. Provisioned'
    BY <1>6, RowsAre, Counting DEF ToggleModule, Provisioned
  <2> QED BY <1>3, <1>6, <2>1 DEF ToggleModule
<1>7. ASSUME NEW k \in Keys, KeyExpires(k) PROVE SessionsInv'
  <2>1. Provisioned'
    BY <1>7, RowsAre DEF KeyExpires, Provisioned
  <2> QED BY <1>3, <1>7, <2>1 DEF KeyExpires
<1>8. ASSUME UNCHANGED <<users, jar, keys, enabled>>, Request \/ asked' = asked PROVE SessionsInv'
  <2>1. Provisioned'
    BY <1>8, RowsAre, Counting DEF Provisioned
  <2> QED BY <1>3, <1>8, <2>1
<1> QED BY <1>1, <1>2, <1>4, <1>5, <1>6, <1>7, <1>8

\* Every step keeps the sessions right.
LEMMA SessionsStep == SessionsInv /\ [Next]_vars => SessionsInv'
<1> SUFFICES ASSUME SessionsInv, [Next]_vars PROVE SessionsInv'
  OBVIOUS
<1>1. CASE AccessNext
  <2>1. ASSUME NEW u \in Users, Forward(u) \/ AccessExpires(u) PROVE SessionsInv'
    BY <2>1, OthersInv DEF Forward, AccessExpires
  <2>2. ASSUME NEW u \in Users, NEW roles \in TokenRoles[u], Login(u, roles) PROVE SessionsInv'
    BY <2>2, LoginInv
  <2>3. ASSUME NEW t \in Tabs, NEW u \in Users, RefreshBegin(t, u) PROVE SessionsInv'
    BY <2>3, RefreshBeginInv
  <2>4. ASSUME NEW t \in Tabs, NEW answered \in BOOLEAN, RefreshCommit(t, answered) PROVE SessionsInv'
    BY <2>4, RefreshCommitInv
  <2>5. ASSUME NEW t \in Tabs, RefreshFail(t) PROVE SessionsInv'
    BY <2>5, RefreshFailInv
  <2>6. ASSUME NEW u \in Users, NEW written \in BOOLEAN, Logout(u, written) PROVE SessionsInv'
    BY <2>6, LogoutInv
  <2>7. ASSUME NEW s \in DOMAIN sessions, SessionExpires(s) PROVE SessionsInv'
    BY <2>7, ExpiryInv
  <2>8. ASSUME NEW p \in Principals,
               \/ \E u \in Users : ToggleActive(p, u)
               \/ \E k \in Keys : CreateKey(p, k) \/ RevokeKey(p, k)
               \/ \E m \in Modules : ToggleModule(p, m)
        PROVE  SessionsInv'
    <3>1. UNCHANGED <<sessions, logins, refreshing>>
      BY <2>8 DEF ToggleActive, CreateKey, RevokeKey, ToggleModule
    <3> QED BY <2>8, <3>1, OthersInv
  <2>9. ASSUME NEW k \in Keys, KeyExpires(k) PROVE SessionsInv'
    BY <2>9, OthersInv DEF KeyExpires
  <2> QED BY <1>1, <2>1, <2>2, <2>3, <2>4, <2>5, <2>6, <2>7, <2>8, <2>9 DEF AccessNext
<1>2. CASE ~ AccessNext
  <2>1. /\ UNCHANGED <<sessions, logins, refreshing, users, jar, keys, enabled>>
        /\ Request \/ asked' = asked
    BY <1>2 DEF Next, vars, accessVars, Ask, BillingExport, MeteringExport, Opening, CacheExpires, ExportPage, Sync
  <2> QED BY <2>1, OthersInv
<1> QED BY <1>1, <1>2

\* A login whose refreshes never overlapped has one live row at most, and none when its user
\* has logged out (auth/router.py:217 and :261): for any users, tabs and requests, lost answers,
\* failed commits, expiry and restrictions of the tokens included.
THEOREM SessionsHandedOn == Spec => []OneSessionPerLogin
<1>1. Init => SessionsInv
  BY SessionsStart DEF Init
<1>2. SessionsInv => OneSessionPerLogin
  <2> SUFFICES ASSUME SessionsInv, NEW l \in DOMAIN logins, ~ logins[l].overlapped
               PROVE  Cardinality(Live(l)) <= IF logins[l].ended THEN 0 ELSE 1
    BY DEF OneSessionPerLogin, Live
  <2>1. OneRow(l)
    BY DEF SessionsInv
  <2>2. CASE Live(l) = {}
    BY <2>2, FS_EmptySet
  <2>3. ASSUME NEW a \in Live(l) PROVE Cardinality(Live(l)) = 1 /\ ~ logins[l].ended
    <3>1. Live(l) = {a} /\ ~ logins[l].ended
      BY <2>1, <2>3 DEF OneRow
    <3>2. Cardinality({a}) = 1
      BY FS_Singleton
    <3> QED BY <3>1, <3>2
  <2> QED BY <2>2, <2>3
<1> QED BY <1>1, <1>2, SessionsStep, PTL DEF Spec

-----------------------------------------------------------------------------
(* Rows in order, a page at a time.                                            *)

\* The order of the details and the exports: by day, descending, and then by id, one way or the other.
Above(r, s, down) ==
  r.item.day > s.item.day \/ (r.item.day = s.item.day /\ IF down THEN r.id > s.id ELSE s.id > r.id)

\* The rows of S that come before r.
Before(S, r, down) == {s \in S : Above(s, r, down)}

\* Rows that can be put in that order.
Sortable(S) ==
  /\ IsFiniteSet(S)
  /\ \A r \in S : r.id \in Nat /\ r.item.day \in Nat
  /\ \A r, s \in S : r.id = s.id => r = s

\* An order has each row after those that come before it.
LEMMA OrderedIs ==
  ASSUME NEW S, Sortable(S), NEW down \in BOOLEAN
  PROVE  Ordered(S, down) = [n \in 1..Cardinality(S) |-> CHOOSE r \in S : Cardinality(Before(S, r, down)) = n - 1]
<1> DEFINE above(r, s) == r.item.day > s.item.day \/ (r.item.day = s.item.day /\ (r.id > s.id <=> down))
<1>1. ASSUME NEW r \in S PROVE {s \in S \ {r} : above(s, r)} = Before(S, r, down)
  <2>1. ASSUME NEW s \in S PROVE (s # r /\ above(s, r)) <=> Above(s, r, down)
    <3>1. s = r \/ s.id # r.id
      BY DEF Sortable
    <3>2. s.id \in Nat /\ r.id \in Nat /\ s.item.day \in Nat /\ r.item.day \in Nat
      BY DEF Sortable
    <3>3. down = TRUE \/ down = FALSE
      OBVIOUS
    <3>4. CASE down = TRUE
      BY <3>1, <3>2, <3>4 DEF Above
    <3>5. CASE down = FALSE
      BY <3>1, <3>2, <3>5 DEF Above
    <3> QED BY <3>3, <3>4, <3>5
  <2> HIDE DEF above
  <2> QED BY <2>1 DEF Before
<1>2. Ordered(S, down) =
        [n \in 1..Cardinality(S) |-> CHOOSE r \in S : Cardinality({s \in S \ {r} : above(s, r)}) = n - 1]
  BY DEF Ordered
<1> HIDE DEF above
<1>3. ASSUME NEW n \in 1..Cardinality(S)
      PROVE  (CHOOSE r \in S : Cardinality({s \in S \ {r} : above(s, r)}) = n - 1)
             = CHOOSE r \in S : Cardinality(Before(S, r, down)) = n - 1
  BY <1>1
<1> QED BY <1>2, <1>3

\* The rank of a row.
LEMMA Ranks ==
  ASSUME NEW S, Sortable(S), NEW down \in BOOLEAN
  PROVE  /\ Cardinality(S) \in Nat
         /\ \A r \in S : Cardinality(Before(S, r, down)) \in 0..(Cardinality(S) - 1)
         /\ \A r, s \in S : Above(s, r, down) => Cardinality(Before(S, s, down)) < Cardinality(Before(S, r, down))
         /\ \A r, s \in S : r = s \/ Above(r, s, down) \/ Above(s, r, down)
<1>0. /\ IsFiniteSet(S) /\ Cardinality(S) \in Nat
      /\ \A r \in S : r.id \in Nat /\ r.item.day \in Nat
      /\ \A r, s \in S : r.id = s.id => r = s
  BY FS_CardinalityType DEF Sortable
<1>1. ASSUME NEW r \in S PROVE /\ IsFiniteSet(Before(S, r, down)) /\ Cardinality(Before(S, r, down)) \in Nat
                               /\ Cardinality(Before(S, r, down)) <= Cardinality(S) - 1
  <2>1. Before(S, r, down) \in SUBSET (S \ {r})
    BY <1>0 DEF Before, Above
  <2>2. IsFiniteSet(S \ {r}) /\ Cardinality(S \ {r}) = Cardinality(S) - 1
    BY <1>0, FS_RemoveElement
  <2> QED BY <2>1, <2>2, FS_Subset, FS_CardinalityType
<1>2. ASSUME NEW r \in S, NEW s \in S, Above(s, r, down)
      PROVE  Cardinality(Before(S, s, down)) < Cardinality(Before(S, r, down))
  <2> DEFINE T == Before(S, s, down) \cup {s}
  <2>1. s \notin Before(S, s, down) /\ T \in SUBSET Before(S, r, down)
    BY <1>0, <1>2 DEF Before, Above
  <2>2. Cardinality(T) = Cardinality(Before(S, s, down)) + 1
    BY <1>1, <2>1, FS_AddElement
  <2>3. Cardinality(T) <= Cardinality(Before(S, r, down))
    BY <1>1, <2>1, FS_Subset
  <2> QED BY <1>1, <2>2, <2>3
<1>3. ASSUME NEW r \in S, NEW s \in S PROVE r = s \/ Above(r, s, down) \/ Above(s, r, down)
  BY <1>0 DEF Above
<1> QED BY <1>0, <1>1, <1>2, <1>3

\* The order is one of all the rows, each once.
LEMMA OrderedSorts ==
  ASSUME NEW S, Sortable(S), NEW down \in BOOLEAN
  PROVE  LET q == Ordered(S, down)  n == Cardinality(S)
         IN  /\ n \in Nat /\ q \in [1..n -> S]
             /\ \A r \in S : \E i \in 1..n : q[i] = r
             /\ \A i, j \in 1..n : i < j => Above(q[i], q[j], down) /\ q[i] # q[j]
<1> DEFINE q == Ordered(S, down)
           n == Cardinality(S)
           rank(r) == Cardinality(Before(S, r, down))
           f == [r \in S |-> rank(r)]
<1>1. /\ n \in Nat /\ \A r \in S : rank(r) \in 0..(n - 1)
      /\ \A r, s \in S : Above(s, r, down) => rank(s) < rank(r)
      /\ \A r, s \in S : r = s \/ Above(r, s, down) \/ Above(s, r, down)
  BY Ranks
<1>2. q = [i \in 1..n |-> CHOOSE r \in S : rank(r) = i - 1]
  BY OrderedIs
<1> HIDE DEF q, rank, n
<1>3. f \in Injection(S, 0..(n - 1))
  BY <1>1 DEF Injection, IsInjective
<1>4. IsFiniteSet(0..(n - 1)) /\ Cardinality(0..(n - 1)) = n
  BY <1>1, FS_Interval
<1>5. f \in Surjection(S, 0..(n - 1))
  <2> HIDE DEF f
  <2> QED BY <1>3, <1>4, FS_Injection DEF n
<1>6. ASSUME NEW i \in 1..n PROVE q[i] \in S /\ rank(q[i]) = i - 1
  <2>1. i - 1 \in 0..(n - 1)
    BY <1>1
  <2>2. \E r \in S : rank(r) = i - 1
    BY <1>5, <2>1 DEF Surjection
  <2> QED BY <1>2, <2>2
<1>7. q \in [1..n -> S]
  BY <1>2, <1>6
<1>8. ASSUME NEW r \in S PROVE \E i \in 1..n : q[i] = r
  <2>1. rank(r) + 1 \in 1..n /\ (rank(r) + 1) - 1 = rank(r)
    BY <1>1
  <2>2. q[rank(r) + 1] \in S /\ rank(q[rank(r) + 1]) = rank(r)
    BY <1>6, <2>1
  <2>3. q[rank(r) + 1] = r
    BY <1>1, <2>2
  <2> QED BY <2>1, <2>3
<1>9. ASSUME NEW i \in 1..n, NEW j \in 1..n, i < j PROVE Above(q[i], q[j], down) /\ q[i] # q[j]
  BY <1>1, <1>6, <1>9
<1> QED BY <1>1, <1>7, <1>8, <1>9 DEF q, n

\* What numbering makes of some items: a row of each, with ids of their own from the given one on.
LEMMA NumberedIs ==
  ASSUME NEW items, IsFiniteSet(items), NEW from \in Nat, NEW bill
  PROVE  LET N == Numbered(items, from, bill)
         IN  /\ \A r \in N : /\ r = [id |-> r.id, item |-> r.item, bill |-> bill]
                             /\ r.id \in from..(from + Cardinality(items) - 1) /\ r.item \in items
             /\ \A r, s \in N : r # s => r.id # s.id /\ r.item # s.item
<1> DEFINE n == Cardinality(items)
           q == SetToSeq(items)
<1>1. n \in Nat /\ \E f \in [1..n -> items] : IsInjective(f)
  BY FS_CardinalityType DEF ExistsBijection, Bijection, Injection
<1>2. q \in [1..n -> items] /\ IsInjective(q)
  BY <1>1 DEF SetToSeq
<1>3. Numbered(items, from, bill) = {[id |-> from + m - 1, item |-> q[m], bill |-> bill] : m \in 1..n}
  BY <1>2 DEF Numbered
<1> HIDE DEF n, q
<1>4. \A r \in Numbered(items, from, bill) : \E m \in 1..n : r = [id |-> from + m - 1, item |-> q[m], bill |-> bill]
  BY <1>3
<1>5. \A i, j \in 1..n : i # j => q[i] # q[j]
  BY <1>2 DEF IsInjective
<1>6. ASSUME NEW r \in Numbered(items, from, bill)
      PROVE  /\ r = [id |-> r.id, item |-> r.item, bill |-> bill]
             /\ r.id \in from..(from + n - 1) /\ r.item \in items
  BY <1>1, <1>2, <1>4
<1>7. ASSUME NEW r \in Numbered(items, from, bill), NEW s \in Numbered(items, from, bill), r # s
      PROVE  r.id # s.id /\ r.item # s.item
  BY <1>1, <1>4, <1>5, <1>7
<1> QED BY <1>6, <1>7 DEF n

\* What a concatenation holds.
LEMMA Joint ==
  ASSUME NEW T, NEW a \in Seq(T), NEW b \in Seq(T)
  PROVE  LET w == a \o b
         IN  /\ w \in Seq(T) /\ Len(w) = Len(a) + Len(b) /\ DOMAIN w = 1..(Len(a) + Len(b))
             /\ \A i \in DOMAIN w : w[i] = IF i <= Len(a) THEN a[i] ELSE b[i - Len(a)]
OBVIOUS

\* What the first page of some lines is.
LEMMA FirstPiece ==
  ASSUME NEW T, NEW s \in Seq(T), NEW n \in Nat
  PROVE  LET w == Piece(s, 0, n)
         IN  /\ w \in Seq(T) /\ Len(w) = (IF Len(s) < n THEN Len(s) ELSE n) /\ DOMAIN w = 1..Len(w)
             /\ \A i \in DOMAIN w : i \in DOMAIN s /\ w[i] = s[i]
<1> DEFINE m == IF Len(s) < n THEN Len(s) ELSE n
<1>1. m \in 0..Len(s) /\ Len(s) \in Nat /\ DOMAIN s = 1..Len(s)
  OBVIOUS
<1>2. Piece(s, 0, n) = SubSeq(s, 1, m)
  BY DEF Piece
<1> DEFINE w == SubSeq(s, 1, m)
<1> HIDE DEF m
<1>3. m \in Nat /\ \A i \in 1..m : s[i] \in T
  BY <1>1
<1>4. w \in Seq(T) /\ Len(w) = m
  BY <1>1, <1>3
<1>5. \A i \in 1..m : w[i] = s[i]
  BY <1>1, <1>3
<1>6. DOMAIN w = 1..m
  <2> HIDE DEF w
  <2> QED BY <1>3, <1>4
<1>7. Piece(s, 0, n) = w
  BY <1>2
<1>8. \A i \in 1..m : i \in DOMAIN s
  BY <1>1
<1> HIDE DEF w
<1> QED BY <1>4, <1>5, <1>6, <1>7, <1>8 DEF m

\* The first n of some rows in that order, a row as often as it counts, and where a row is.
Sorted(rs, n, down) == \A i, j \in 1..n : i < j => Above(rs[i], rs[j], down) /\ rs[i] # rs[j]
Repeated(k, r) == [j \in 1..k[r] |-> r]
At(w, r) == {i \in DOMAIN w : w[i] = r}

\* Lines of the first m of the rows rs, each k times, in their order.
Laid(w, S, k, rs, m, down) ==
  /\ w \in Seq(S)
  /\ \A i \in DOMAIN w : \E a \in 1..m : w[i] = rs[a]
  /\ \A a \in 1..m : k[rs[a]] > 0 => \E i \in DOMAIN w : w[i] = rs[a]
  /\ \A a \in 1..m : Cardinality(At(w, rs[a])) = k[rs[a]]
  /\ \A i, j \in DOMAIN w : i < j => Above(w[i], w[j], down) \/ (w[i] = w[j] /\ k[w[i]] > 1)

\* The lines of one more row.
LEMMA LaidMore ==
  ASSUME NEW S, NEW k \in [S -> Nat], NEW n \in Nat, NEW rs \in [1..n -> S],
         NEW down \in BOOLEAN, Sorted(rs, n, down),
         NEW m \in 0..(n - 1), NEW w, Laid(w, S, k, rs, m, down)
  PROVE  Laid(w \o Repeated(k, rs[m + 1]), S, k, rs, m + 1, down)
<1> DEFINE r == rs[m + 1]
           b == Repeated(k, r)
           v == w \o b
<1>1. r \in S /\ k[r] \in Nat /\ m + 1 \in 1..n /\ 1..(m + 1) = 1..m \cup {m + 1}
  OBVIOUS
<1>2. w \in Seq(S)
  BY DEF Laid
<1>3. b \in Seq(S) /\ Len(b) = k[r] /\ \A j \in 1..k[r] : b[j] = r
  <2> HIDE DEF r
  <2> QED BY <1>1 DEF Repeated
<1> HIDE DEF r, b
<1>4. /\ v \in Seq(S) /\ Len(w) \in Nat /\ DOMAIN w = 1..Len(w) /\ DOMAIN v = 1..(Len(w) + k[r])
      /\ \A i \in DOMAIN v : v[i] = IF i <= Len(w) THEN w[i] ELSE r
  <2>1. /\ v \in Seq(S) /\ DOMAIN v = 1..(Len(w) + Len(b))
        /\ \A i \in DOMAIN v : v[i] = IF i <= Len(w) THEN w[i] ELSE b[i - Len(w)]
    BY <1>2, <1>3, Joint
  <2>2. Len(w) \in Nat /\ DOMAIN w = 1..Len(w)
    BY <1>2
  <2> HIDE DEF v
  <2>3. ASSUME NEW i \in DOMAIN v, ~ (i <= Len(w)) PROVE i - Len(w) \in 1..k[r]
    BY <1>1, <1>3, <2>1, <2>2, <2>3
  <2> QED BY <1>3, <2>1, <2>2, <2>3
<1> HIDE DEF v
<1>5. ASSUME NEW i \in DOMAIN v PROVE \E a \in 1..(m + 1) : v[i] = rs[a]
  <2>1. CASE i <= Len(w)
    <3>1. i \in DOMAIN w /\ v[i] = w[i]
      BY <1>1, <1>4, <2>1
    <3>2. PICK a \in 1..m : w[i] = rs[a]
      BY <3>1 DEF Laid
    <3> QED BY <1>1, <3>1, <3>2
  <2>2. CASE ~ (i <= Len(w))
    BY <1>1, <1>4, <2>2 DEF r
  <2> QED BY <2>1, <2>2
<1>6. ASSUME NEW a \in 1..(m + 1), k[rs[a]] > 0 PROVE \E i \in DOMAIN v : v[i] = rs[a]
  <2>1. CASE a \in 1..m
    <3>1. PICK i \in DOMAIN w : w[i] = rs[a]
      BY <1>6, <2>1 DEF Laid
    <3>2. i \in DOMAIN v /\ v[i] = w[i]
      BY <1>1, <1>4
    <3> QED BY <3>1, <3>2
  <2>2. CASE a = m + 1
    <3>1. Len(w) + k[r] \in DOMAIN v /\ ~ (Len(w) + k[r] <= Len(w))
      BY <1>1, <1>4, <1>6, <2>2 DEF r
    <3>2. v[Len(w) + k[r]] = r
      BY <1>4, <3>1
    <3> QED BY <2>2, <3>1, <3>2 DEF r
  <2> QED BY <1>1, <2>1, <2>2
<1>7. ASSUME NEW i \in DOMAIN v, NEW j \in DOMAIN v, i < j
      PROVE  Above(v[i], v[j], down) \/ (v[i] = v[j] /\ k[v[i]] > 1)
  <2>1. CASE j <= Len(w)
    <3>1. i \in DOMAIN w /\ j \in DOMAIN w /\ v[i] = w[i] /\ v[j] = w[j]
      BY <1>1, <1>4, <1>7, <2>1
    <3> QED BY <1>7, <3>1 DEF Laid
  <2>2. CASE i <= Len(w) /\ ~ (j <= Len(w))
    <3>1. i \in DOMAIN w /\ v[i] = w[i] /\ v[j] = r
      BY <1>1, <1>4, <2>2
    <3>2. PICK a \in 1..m : w[i] = rs[a]
      BY <3>1 DEF Laid
    <3>3. a \in 1..n /\ a < m + 1
      OBVIOUS
    <3>4. Above(rs[a], rs[m + 1], down)
      BY <1>1, <3>3 DEF Sorted
    <3> QED BY <3>1, <3>2, <3>4 DEF r
  <2>3. CASE ~ (i <= Len(w)) /\ ~ (j <= Len(w))
    <3>1. v[i] = r /\ v[j] = r
      BY <1>4, <2>3
    <3>2. k[r] > 1
      BY <1>1, <1>4, <1>7, <2>3
    <3> QED BY <3>1, <3>2
  <2>4. i <= Len(w) \/ ~ (j <= Len(w)) \/ j <= Len(w)
    OBVIOUS
  <2>5. i \in Nat /\ j \in Nat /\ Len(w) \in Nat
    BY <1>1, <1>4
  <2> QED BY <1>7, <2>1, <2>2, <2>3, <2>5
<1>8. ASSUME NEW a \in 1..(m + 1) PROVE Cardinality(At(v, rs[a])) = k[rs[a]]
  <2>1. \A b1 \in 1..m : rs[b1] # r /\ b1 \in 1..n
    BY <1>1 DEF r, Sorted
  <2>2. CASE a \in 1..m
    <3>1. At(v, rs[a]) = At(w, rs[a])
      <4>1. rs[a] # r
        BY <2>1, <2>2
      <4>2. \A i \in DOMAIN v : v[i] = rs[a] => i \in DOMAIN w /\ w[i] = rs[a]
        BY <1>1, <1>4, <4>1
      <4>3. \A i \in DOMAIN w : i \in DOMAIN v /\ v[i] = w[i]
        BY <1>1, <1>4
      <4> QED BY <4>2, <4>3 DEF At
    <3> QED BY <2>2, <3>1 DEF Laid
  <2>3. CASE a = m + 1
    <3>1. \A i \in DOMAIN w : w[i] # r
      BY <2>1 DEF Laid
    <3>2. At(v, r) = (Len(w) + 1)..(Len(w) + k[r])
      <4>1. \A i \in DOMAIN v : v[i] = r <=> ~ (i <= Len(w))
        BY <1>1, <1>4, <3>1
      <4>2. \A i : (i \in DOMAIN v /\ ~ (i <= Len(w))) <=> i \in (Len(w) + 1)..(Len(w) + k[r])
        BY <1>1, <1>4
      <4> QED BY <4>1, <4>2 DEF At
    <3>3. Cardinality((Len(w) + 1)..(Len(w) + k[r])) = k[r]
      <4> DEFINE x == Len(w) + 1
                 y == Len(w) + k[r]
      <4>1. x \in Int /\ y \in Int /\ y - x + 1 = k[r] /\ (x > y <=> k[r] = 0)
        BY <1>1, <1>4
      <4> HIDE DEF x, y
      <4>2. Cardinality(x..y) = IF x > y THEN 0 ELSE y - x + 1
        BY <4>1, FS_Interval
      <4>3. Cardinality(x..y) = k[r]
        BY <4>1, <4>2
      <4> QED BY <4>3 DEF x, y
    <3> QED BY <2>3, <3>2, <3>3 DEF r
  <2> QED BY <1>1, <2>2, <2>3
<1>9. Laid(v, S, k, rs, m + 1, down)
  BY <1>4, <1>5, <1>6, <1>7, <1>8 DEF Laid
<1> QED BY <1>9 DEF v, b, r

\* What the flattening of the first m of some sequences is for each number of them.
Flattens(q, m, g) == g = [i \in 1..m |-> IF i = 1 THEN q[i] ELSE g[i - 1] \o q[i]]

\* There is a flattening.
LEMMA FlattenSome ==
  ASSUME NEW q, NEW n \in Nat
  PROVE  \E g : Flattens(q, n, g)
<1> DEFINE Bad == {m \in 0..n : ~ \E g : Flattens(q, m, g)}
<1> SUFFICES ASSUME Bad # {} PROVE FALSE
  OBVIOUS
<1>1. PICK m \in Bad : \A l \in Bad : m <= l
  <2>1. Bad \in SUBSET Nat
    OBVIOUS
  <2> HIDE DEF Bad
  <2> QED BY <2>1, Least
<1>2. CASE m = 0
  <2>1. Flattens(q, 0, [i \in 1..0 |-> 0])
    BY DEF Flattens
  <2> QED BY <1>1, <1>2, <2>1
<1>3. CASE m # 0
  <2>1. m - 1 \in 0..n /\ m - 1 \notin Bad /\ m \in 1..n
    BY <1>1, <1>3
  <2>2. PICK h : Flattens(q, m - 1, h)
    BY <2>1
  <2> DEFINE g == [i \in 1..m |-> IF i = m THEN (IF m = 1 THEN q[m] ELSE h[m - 1] \o q[m]) ELSE h[i]]
  <2>3. \A i \in 1..(m - 1) : h[i] = IF i = 1 THEN q[i] ELSE h[i - 1] \o q[i]
    BY <2>2 DEF Flattens
  <2>4. ASSUME NEW i \in 1..m PROVE g[i] = IF i = 1 THEN q[i] ELSE g[i - 1] \o q[i]
    <3>1. CASE i = m
      <4>1. i # 1 => g[i - 1] = h[i - 1]
        BY <2>1, <3>1
      <4> QED BY <3>1, <4>1
    <3>2. CASE i # m
      <4>1. i \in 1..(m - 1) /\ g[i] = h[i] /\ (i # 1 => g[i - 1] = h[i - 1])
        BY <2>1, <3>2
      <4> QED BY <2>3, <4>1
    <3> QED BY <3>1, <3>2
  <2>5. g = [i \in 1..m |-> g[i]]
    OBVIOUS
  <2> HIDE DEF g
  <2>6. g = [i \in 1..m |-> IF i = 1 THEN q[i] ELSE g[i - 1] \o q[i]]
    BY <2>4, <2>5
  <2>7. Flattens(q, m, g)
    BY <2>6 DEF Flattens
  <2> QED BY <1>1, <2>7
<1> QED BY <1>2, <1>3

\* A flattening is the last of those.
LEMMA FlattenIs ==
  ASSUME NEW q, NEW n \in Nat, n > 0, Len(q) = n
  PROVE  \E g : Flattens(q, n, g) /\ FlattenSeq(q) = g[n]
<1> DEFINE G == CHOOSE g : g = [i \in 1..Len(q) |-> IF i = 1 THEN q[i] ELSE g[i - 1] \o q[i]]
<1>1. FlattenSeq(q) = G[Len(q)]
  BY DEF FlattenSeq
<1>2. Flattens(q, n, G)
  BY FlattenSome DEF Flattens
<1> QED BY <1>1, <1>2

\* Rows in a row, each k times.
Flat(k, rs, n) == FlattenSeq([i \in 1..n |-> Repeated(k, rs[i])])

\* The lines of rows in order are in order, and each is there that counts.
LEMMA FlatIs ==
  ASSUME NEW S, NEW k \in [S -> Nat], NEW n \in Nat, NEW rs \in [1..n -> S],
         NEW down \in BOOLEAN, Sorted(rs, n, down)
  PROVE  Laid(Flat(k, rs, n), S, k, rs, n, down)
<1> DEFINE line(i) == Repeated(k, rs[i])
           q == [i \in 1..n |-> line(i)]
<1>0. Flat(k, rs, n) = FlattenSeq(q)
  BY DEF Flat
<1>1. Len(q) = n
  <2> HIDE DEF line
  <2> QED OBVIOUS
<1>2. CASE n = 0
  <2>1. FlattenSeq(q) = q
    BY <1>1, <1>2 DEF FlattenSeq
  <2>2. q = <<>>
    BY <1>2
  <2> HIDE DEF q
  <2>3. Laid(<<>>, S, k, rs, 0, down)
    BY DEF Laid
  <2> QED BY <1>0, <1>2, <2>1, <2>2, <2>3
<1>3. CASE n > 0
  <2>1. PICK g : Flattens(q, n, g) /\ FlattenSeq(q) = g[n]
    <3> HIDE DEF q
    <3> QED BY <1>1, <1>3, FlattenIs
  <2>2. \A i \in 1..n : g[i] = IF i = 1 THEN line(i) ELSE g[i - 1] \o line(i)
    <3>1. \A i \in 1..n : q[i] = line(i)
      OBVIOUS
    <3> HIDE DEF q, line
    <3> QED BY <2>1, <3>1 DEF Flattens
  <2> DEFINE Bad == {m \in 1..n : ~ Laid(g[m], S, k, rs, m, down)}
  <2>3. CASE Bad = {}
    <3>1. Laid(g[n], S, k, rs, n, down)
      BY <1>3, <2>3
    <3> HIDE DEF q
    <3> QED BY <1>0, <2>1, <3>1
  <2>4. CASE Bad # {}
    <3>1. PICK m \in Bad : \A l \in Bad : m <= l
      <4>1. Bad \in SUBSET Nat
        OBVIOUS
      <4> HIDE DEF Bad
      <4> QED BY <2>4, <4>1, Least
    <3>2. CASE m = 1
      <4>1. Laid(<<>>, S, k, rs, 0, down)
        BY DEF Laid
      <4>2. 0 \in 0..(n - 1) /\ 0 + 1 = 1
        BY <1>3
      <4>3. Laid(<<>> \o Repeated(k, rs[0 + 1]), S, k, rs, 0 + 1, down)
        BY <4>1, <4>2, LaidMore
      <4>4. Laid(<<>> \o line(1), S, k, rs, 1, down)
        BY <4>3
      <4>5. line(1) \in Seq(S)
        <5>1. rs[1] \in S /\ k[rs[1]] \in Nat
          BY <1>3
        <5> QED BY <5>1 DEF Repeated
      <4>6. <<>> \o line(1) = line(1)
        <5> HIDE DEF line
        <5> QED BY <4>5
      <4>7. g[1] = line(1)
        BY <1>3, <2>2
      <4> HIDE DEF line
      <4> QED BY <3>1, <3>2, <4>4, <4>6, <4>7
    <3>3. CASE m # 1
      <4>1. m - 1 \in 1..n /\ m - 1 \in 0..(n - 1) /\ (m - 1) + 1 = m /\ m \in 1..n
        BY <3>1, <3>3
      <4>2. Laid(g[m - 1], S, k, rs, m - 1, down)
        BY <3>1, <4>1
      <4>3. Laid(g[m - 1] \o Repeated(k, rs[(m - 1) + 1]), S, k, rs, (m - 1) + 1, down)
        BY <4>1, <4>2, LaidMore
      <4>4. Laid(g[m - 1] \o line(m), S, k, rs, m, down)
        BY <4>1, <4>3
      <4> HIDE DEF line
      <4>5. Laid(g[m], S, k, rs, m, down)
        BY <2>2, <3>3, <4>1, <4>4
      <4> QED BY <3>1, <4>5
    <3> QED BY <3>2, <3>3
  <2> QED BY <2>3, <2>4
<1> QED BY <1>2, <1>3

\* What a filter asks of a row, which is all in its item.
Meets(f, r) ==
  /\ f.provider \in {None, ProviderOfSource(r.item.source)} /\ Times(f, r) > 0
  /\ r.item.day \in f.first..f.last

\* What a query selects.
LEMMA SelectedIs ==
  ASSUME NEW f, NEW R PROVE Selected(f, R) = {r \in R : Meets(f, r)}
BY DEF Selected, Chosen, Meets

\* Rows of one item count alike.
LEMMA TimesOfItem ==
  ASSUME NEW f, NEW r, NEW s, r.item = s.item PROVE Times(f, r) = Times(f, s)
BY DEF Times, MeteredMatches, SameSource

\* Rows of one item meet the same filters.
LEMMA MeetsOfItem ==
  ASSUME NEW f, NEW r, NEW s, r.item = s.item PROVE Meets(f, r) <=> Meets(f, s)
BY TimesOfItem DEF Meets

\* A row counts some number of times.
LEMMA TimesTyped ==
  ASSUME NEW f \in Filters, NEW r PROVE Times(f, r) \in Nat
<1> DEFINE P == {p \in f.accounts : MeteredMatches(p, r) /\ ProjectOf[p].provider = ProviderOfSource(r.item.source)}
<1>1. P \in SUBSET Projects /\ IsFiniteSet(Projects)
  BY ReportsAssumption
<1>2. Cardinality(P) \in Nat
  <2> HIDE DEF P
  <2> QED BY <1>1, FS_Subset, FS_CardinalityType
<1> QED BY <1>2 DEF Times

\* The lines of a filter are its rows in their order.
LEMMA LinesAre ==
  ASSUME NEW f \in Filters, NEW R, Sortable(R), NEW down \in BOOLEAN
  PROVE  LET w == Lines(f, R, down)
             S == Selected(f, R)
         IN  /\ w \in Seq(S)
             /\ \A r \in S : \E i \in DOMAIN w : w[i] = r
             /\ \A r \in S : Cardinality(At(w, r)) = Times(f, r)
             /\ \A i, j \in DOMAIN w : i < j => Above(w[i], w[j], down) \/ (w[i] = w[j] /\ Times(f, w[i]) > 1)
<1> DEFINE S == Selected(f, R)
           n == Cardinality(S)
           rs == Ordered(S, down)
           k == [r \in S |-> Times(f, r)]
           w == Lines(f, R, down)
<1>1. S \in SUBSET R /\ \A r \in S : Times(f, r) > 0
  BY SelectedIs DEF Meets
<1>2. Sortable(S)
  BY <1>1, FS_Subset DEF Sortable
<1>3. k \in [S -> Nat]
  BY TimesTyped
<1>4. /\ n \in Nat /\ rs \in [1..n -> S]
      /\ \A r \in S : \E i \in 1..n : rs[i] = r
      /\ Sorted(rs, n, down)
  BY <1>2, OrderedSorts DEF Sorted
<1>5. w = Flat(k, rs, n)
  <2>1. w = FlattenSeq([i \in DOMAIN rs |-> [j \in 1..Times(f, rs[i]) |-> rs[i]]])
    BY DEF Lines
  <2>2. DOMAIN rs = 1..n /\ \A i \in 1..n : Times(f, rs[i]) = k[rs[i]]
    BY <1>4
  <2> HIDE DEF S, n, rs, k, w
  <2>3. [i \in DOMAIN rs |-> [j \in 1..Times(f, rs[i]) |-> rs[i]]] = [i \in 1..n |-> Repeated(k, rs[i])]
    BY <2>2 DEF Repeated
  <2> QED BY <2>1, <2>3 DEF Flat
<1>6. \A r \in S : k[r] = Times(f, r) /\ k[r] > 0
  BY <1>1
<1> HIDE DEF S, n, rs, k, w
<1>7. Laid(w, S, k, rs, n, down)
  <2>1. Laid(Flat(k, rs, n), S, k, rs, n, down)
    <3>1. k \in [S -> Nat] /\ n \in Nat /\ rs \in [1..n -> S] /\ Sorted(rs, n, down)
      BY <1>3, <1>4
    <3> QED BY <3>1, FlatIs
  <2> QED BY <1>5, <2>1
<1>8. ASSUME NEW r \in S PROVE \E i \in DOMAIN w : w[i] = r
  <2>1. PICK a \in 1..n : rs[a] = r
    BY <1>4
  <2>2. k[rs[a]] > 0
    BY <1>6, <2>1
  <2> QED BY <1>7, <2>1, <2>2 DEF Laid
<1>9. ASSUME NEW i \in DOMAIN w PROVE w[i] \in S
  BY <1>7 DEF Laid
<1>10. w \in Seq(S) /\ \A i, j \in DOMAIN w : i < j => Above(w[i], w[j], down) \/ (w[i] = w[j] /\ Times(f, w[i]) > 1)
  BY <1>6, <1>7, <1>9 DEF Laid
<1>11. ASSUME NEW r \in S PROVE Cardinality(At(w, r)) = Times(f, r)
  <2>1. PICK a \in 1..n : rs[a] = r
    BY <1>4
  <2> QED BY <1>6, <1>7, <2>1 DEF Laid
<1> QED BY <1>8, <1>10, <1>11 DEF S, w

-----------------------------------------------------------------------------
(* The billing under syncs, and the exports that read it a page at a time.     *)

\* The billing: ids drawn so far, items that can be billed, no two rows alike.
RowsInv ==
  /\ nextId \in Nat \ {0}
  /\ rows \subseteq [id : 1..(nextId - 1), item : Items, bill : Bills \cup {FirstBill}]
  /\ \A r, s \in rows : r # s => r.id # s.id /\ r.item # s.item

\* A line of the export, or a row, that does not sort after the last row sent.
Sent(x, last) == x.item.day > last.day \/ (x.item.day = last.day /\ x.id >= last.id)

\* An export is a record.
ExportShape ==
  export = [state |-> export.state, filter |-> export.filter, scope |-> export.scope, last |-> export.last,
            out |-> export.out, stood |-> export.stood]

\* What has been sent lies before the last row in the order, row by row with the ids the rows
\* had; an item that is there still has that id or a later one; an item is sent twice only if it
\* counts twice. What stood and still stands has been sent or is still to come.
ExportInv ==
  /\ ExportShape /\ export.state \in {"reading", "done"} /\ export.filter \in Filters
  /\ export.out \in Seq([id : 1..(nextId - 1), item : Items])
  /\ export.last = IF export.out = <<>> THEN NoRow
                   ELSE [day |-> Last(export.out).item.day, id |-> Last(export.out).id]
  /\ \A i \in DOMAIN export.out : Sent(export.out[i], export.last)
  /\ \A i \in DOMAIN export.out, r \in rows : r.item = export.out[i].item => r.id >= export.out[i].id
  /\ \A i, j \in DOMAIN export.out :
       i < j /\ export.out[i].item = export.out[j].item => Times(export.filter, export.out[i]) > 1
  /\ \A x \in export.stood : \E r \in rows :
       /\ r.id = x
       /\ \/ \E i \in DOMAIN export.out : export.out[i].id = x
          \/ /\ export.state = "reading" /\ Beyond(r, export.last)
             /\ r \in Within(rows, export.scope) /\ Meets(export.filter, r)

BillingInv == RowsInv /\ (export = NoExport \/ ExportInv)

\* The rows can be put in order.
LEMMA RowsSortable == ASSUME RowsInv, NEW R \in SUBSET rows PROVE Sortable(R)
<1> DEFINE f == [r \in R |-> r.id]
<1>1. /\ nextId \in Nat
      /\ \A r \in R : r.id \in 1..(nextId - 1) /\ r.item \in Items
      /\ \A r, s \in R : r # s => r.id # s.id
  BY DEF RowsInv
<1>2. f \in Injection(R, 1..(nextId - 1))
  BY <1>1 DEF Injection, IsInjective
<1>3. IsFiniteSet(1..(nextId - 1))
  BY <1>1, FS_Interval
<1>4. IsFiniteSet(R)
  <2> HIDE DEF f
  <2> QED BY <1>2, <1>3, FS_Injection
<1>5. \A i \in Items : i.day \in Nat
  BY ReportsAssumption
<1> QED BY <1>1, <1>4, <1>5 DEF Sortable

\* The first rows are right.
LEMMA BillingStart == Init => BillingInv
<1> SUFFICES ASSUME Init PROVE BillingInv
  OBVIOUS
<1> DEFINE n == Cardinality(FirstRows)
<1>1. IsFiniteSet(FirstRows) /\ FirstRows \subseteq Items /\ n \in Nat
  BY ReportsAssumption, FS_Subset, FS_CardinalityType
<1>2. rows = Numbered(FirstRows, 1, FirstBill) /\ nextId = n + 1 /\ export = NoExport
  BY DEF Init
<1>3. /\ \A r \in rows : /\ r = [id |-> r.id, item |-> r.item, bill |-> FirstBill]
                         /\ r.id \in 1..(1 + n - 1) /\ r.item \in FirstRows
      /\ \A r, s \in rows : r # s => r.id # s.id /\ r.item # s.item
  <2> DEFINE N == Numbered(FirstRows, 1, FirstBill)
  <2>1. /\ \A r \in N : /\ r = [id |-> r.id, item |-> r.item, bill |-> FirstBill]
                        /\ r.id \in 1..(1 + n - 1) /\ r.item \in FirstRows
        /\ \A r, s \in N : r # s => r.id # s.id /\ r.item # s.item
    BY <1>1, NumberedIs
  <2> QED BY <1>2, <2>1
<1>4. 1..(1 + n - 1) = 1..(nextId - 1)
  BY <1>1, <1>2
<1> HIDE DEF n
<1>5. \A r \in rows : r \in [id : 1..(nextId - 1), item : Items, bill : Bills \cup {FirstBill}]
  <2> TAKE r \in rows
  <2>1. r = [id |-> r.id, item |-> r.item, bill |-> FirstBill] /\ r.id \in 1..(nextId - 1) /\ r.item \in Items
    BY <1>1, <1>3, <1>4
  <2> QED BY <2>1
<1> QED BY <1>1, <1>2, <1>3, <1>5 DEF BillingInv, RowsInv

\* A sequence is one over a larger set.
LEMMA Wider ==
  ASSUME NEW T, NEW U, T \subseteq U, NEW q \in Seq(T)
  PROVE  q \in Seq(U)
OBVIOUS

\* What a row is.
LEMMA RowIs ==
  ASSUME RowsInv, NEW r \in rows
  PROVE  /\ r.id \in Nat /\ r.id >= 1 /\ r.id < nextId /\ r.item \in Items /\ r.item.day \in Nat
         /\ r = [id |-> r.id, item |-> r.item, bill |-> r.bill] /\ r.bill \in Bills \cup {FirstBill}
<1>1. r \in [id : 1..(nextId - 1), item : Items, bill : Bills \cup {FirstBill}] /\ nextId \in Nat \ {0}
  BY DEF RowsInv
<1>2. \A i \in Items : i.day \in Nat
  BY ReportsAssumption
<1> QED BY <1>1, <1>2

\* What a sync leaves of the rows: some that were there, with their ids and items, and new ones
\* with new ids.
LEMMA SyncIs ==
  ASSUME RowsInv, NEW s \in Sources, NEW bill \in Bills, NEW replace \in BOOLEAN,
         NEW items \in SUBSET {i \in Items : i.source = s}, Sync(s, items, bill, replace)
  PROVE  \E old \in SUBSET rows :
           /\ nextId' \in Nat /\ nextId' >= nextId
           /\ rows' \subseteq [id : 1..(nextId' - 1), item : Items, bill : Bills \cup {FirstBill}]
           /\ \A r, v \in rows' : r # v => r.id # v.id /\ r.item # v.item
           /\ \A r \in rows' : r.id >= nextId \/ \E v \in old : v.id = r.id /\ v.item = r.item
           /\ \A v \in old : \E r \in rows' : v.id = r.id /\ v.item = r.item
           /\ export' = IF export = NoExport THEN export
                        ELSE [export EXCEPT !.stood = @ \cap {r.id : r \in old}]
<1> DEFINE old == IF replace THEN {r \in rows : r.item.source # s} ELSE rows
           fresh == Fresh(items, old)
           now(r) == IF r.item \in items THEN [r EXCEPT !.bill = bill] ELSE r
           kept == {now(r) : r \in old}
           N == Numbered(fresh, nextId, bill)
           n == Cardinality(fresh)
<1>1. /\ rows' = kept \cup N /\ nextId' = nextId + n
      /\ export' = IF export = NoExport THEN export ELSE [export EXCEPT !.stood = @ \cap {r.id : r \in old}]
  BY DEF Sync
<1>2. old \in SUBSET rows
  OBVIOUS
<1>3. /\ fresh \in SUBSET Items /\ IsFiniteSet(fresh) /\ \A r \in old : r.item \notin fresh
  <2>1. fresh \in SUBSET Items /\ \A r \in old : r.item \notin fresh
    BY DEF Fresh
  <2> HIDE DEF fresh
  <2> QED BY <2>1, ReportsAssumption, FS_Subset
<1> HIDE DEF old, fresh
<1>4. n \in Nat
  BY <1>3, FS_CardinalityType
<1>5. nextId \in Nat
  BY DEF RowsInv
<1>6. /\ \A r \in N : /\ r = [id |-> r.id, item |-> r.item, bill |-> bill]
                      /\ r.id \in nextId..(nextId + n - 1) /\ r.item \in fresh
      /\ \A r, v \in N : r # v => r.id # v.id /\ r.item # v.item
  BY <1>3, <1>5, NumberedIs
<1>7. ASSUME NEW v \in old
      PROVE  /\ now(v).id = v.id /\ now(v).item = v.item
             /\ now(v) \in [id : 1..(nextId - 1), item : Items, bill : Bills \cup {FirstBill}]
  <2>1. /\ v = [id |-> v.id, item |-> v.item, bill |-> v.bill]
        /\ v.id \in 1..(nextId - 1) /\ v.item \in Items /\ v.bill \in Bills \cup {FirstBill}
    BY <1>2, <1>5, RowIs
  <2>2. now(v) = [id |-> v.id, item |-> v.item, bill |-> IF v.item \in items THEN bill ELSE v.bill]
    BY <2>1
  <2> HIDE DEF now
  <2> QED BY <2>1, <2>2
<1> HIDE DEF N, n, now
<1>8. ASSUME NEW r \in kept PROVE \E v \in old : r = now(v) /\ v.id = r.id /\ v.item = r.item
  BY <1>7
<1>9. ASSUME NEW r \in kept
      PROVE  r \in [id : 1..(nextId - 1), item : Items, bill : Bills \cup {FirstBill}]
  BY <1>7, <1>8
<1> HIDE DEF kept
<1>10. rows' \subseteq [id : 1..(nextId' - 1), item : Items, bill : Bills \cup {FirstBill}]
  <2> SUFFICES ASSUME NEW r \in rows'
               PROVE  r \in [id : 1..(nextId' - 1), item : Items, bill : Bills \cup {FirstBill}]
    OBVIOUS
  <2>1. CASE r \in kept
    <3>1. 1..(nextId - 1) \subseteq 1..(nextId' - 1)
      BY <1>1, <1>4, <1>5
    <3> QED BY <1>9, <2>1, <3>1
  <2>2. CASE r \in N
    <3>1. r.id \in nextId..(nextId + n - 1) /\ r.item \in Items /\ nextId >= 1
      BY <1>3, <1>6, <2>2 DEF RowsInv
    <3>2. r.id \in 1..(nextId' - 1)
      BY <1>1, <1>4, <1>5, <3>1
    <3>3. r = [id |-> r.id, item |-> r.item, bill |-> bill]
      BY <1>6, <2>2
    <3> QED BY <3>1, <3>2, <3>3
  <2> QED BY <1>1, <2>1, <2>2
<1>11. ASSUME NEW r \in rows', NEW v \in rows', r # v PROVE r.id # v.id /\ r.item # v.item
  <2>1. CASE r \in kept /\ v \in kept
    <3>1. PICK a \in old : r = now(a) /\ a.id = r.id /\ a.item = r.item
      BY <1>8, <2>1
    <3>2. PICK b \in old : v = now(b) /\ b.id = v.id /\ b.item = v.item
      BY <1>8, <2>1
    <3>3. a # b
      BY <1>11, <3>1, <3>2
    <3> QED BY <1>2, <3>1, <3>2, <3>3 DEF RowsInv
  <2>2. ASSUME NEW x \in kept, NEW y \in N PROVE x.id # y.id /\ x.item # y.item
    <3>1. PICK a \in old : a.id = x.id /\ a.item = x.item
      BY <1>8
    <3>2. a.id \in Nat /\ a.id < nextId /\ y.id >= nextId /\ y.id \in Int
      BY <1>2, <1>4, <1>5, <1>6, RowIs
    <3> QED BY <1>3, <1>5, <1>6, <3>1, <3>2
  <2>3. CASE r \in N /\ v \in N
    BY <1>6, <1>11, <2>3
  <2> QED BY <1>1, <2>1, <2>2, <2>3
<1>12. ASSUME NEW r \in rows' PROVE r.id >= nextId \/ \E v \in old : v.id = r.id /\ v.item = r.item
  <2>1. CASE r \in N
    <3>1. r.id \in nextId..(nextId + n - 1)
      BY <1>6, <2>1
    <3> QED BY <1>4, <1>5, <3>1
  <2> QED BY <1>1, <1>8, <2>1
<1>13. ASSUME NEW v \in old PROVE \E r \in rows' : v.id = r.id /\ v.item = r.item
  BY <1>1, <1>7 DEF kept
<1>14. nextId' \in Nat /\ nextId' >= nextId
  BY <1>1, <1>4, <1>5
<1> QED BY <1>1, <1>2, <1>10, <1>11, <1>12, <1>13, <1>14

\* A sync keeps the billing and the export right.
LEMMA SyncBilling ==
  ASSUME BillingInv, NEW s \in Sources, NEW bill \in Bills, NEW replace \in BOOLEAN,
         NEW items \in SUBSET {i \in Items : i.source = s}, Sync(s, items, bill, replace)
  PROVE  BillingInv'
<1>1. RowsInv
  BY DEF BillingInv
<1>2. PICK old \in SUBSET rows :
        /\ nextId' \in Nat /\ nextId' >= nextId
        /\ rows' \subseteq [id : 1..(nextId' - 1), item : Items, bill : Bills \cup {FirstBill}]
        /\ \A r, v \in rows' : r # v => r.id # v.id /\ r.item # v.item
        /\ \A r \in rows' : r.id >= nextId \/ \E v \in old : v.id = r.id /\ v.item = r.item
        /\ \A v \in old : \E r \in rows' : v.id = r.id /\ v.item = r.item
        /\ export' = IF export = NoExport THEN export ELSE [export EXCEPT !.stood = @ \cap {r.id : r \in old}]
  BY <1>1, SyncIs
<1>3. RowsInv' /\ nextId \in Nat \ {0}
  BY <1>1, <1>2 DEF RowsInv
<1>4. CASE export = NoExport
  BY <1>2, <1>3, <1>4 DEF BillingInv
<1>5. CASE export # NoExport
  <2>1. ExportInv
    BY <1>5 DEF BillingInv
  <2>2. /\ ExportShape' /\ export'.state = export.state /\ export'.filter = export.filter
        /\ export'.scope = export.scope /\ export'.last = export.last /\ export'.out = export.out
        /\ export'.stood = export.stood \cap {r.id : r \in old}
    BY <1>2, <1>5, <2>1 DEF ExportInv, ExportShape
  <2>3. export'.out \in Seq([id : 1..(nextId' - 1), item : Items])
    <3> DEFINE T == [id : 1..(nextId - 1), item : Items]
               U == [id : 1..(nextId' - 1), item : Items]
    <3>1. 1..(nextId - 1) \subseteq 1..(nextId' - 1)
      BY <1>2, <1>3
    <3>2. T \subseteq U
      BY <3>1
    <3>3. export.out \in Seq(T)
      BY <2>1 DEF ExportInv
    <3> HIDE DEF T, U
    <3>4. export.out \in Seq(U)
      BY <3>2, <3>3, Wider
    <3> QED BY <2>2, <3>4 DEF U
  <2>4. ASSUME NEW i \in DOMAIN export.out, NEW r \in rows', r.item = export.out[i].item
        PROVE  r.id >= export.out[i].id
    <3>1. export.out[i] \in [id : 1..(nextId - 1), item : Items]
      BY <2>1, Element DEF ExportInv
    <3>2. export.out[i].id \in Int /\ export.out[i].id < nextId /\ r.id \in Int
      BY <1>2, <1>3, <3>1
    <3>3. CASE r.id >= nextId
      BY <1>3, <3>2, <3>3
    <3>4. CASE \E v \in old : v.id = r.id /\ v.item = r.item
      BY <2>1, <2>4, <3>4 DEF ExportInv
    <3> QED BY <1>2, <3>3, <3>4
  <2>5. ASSUME NEW x \in export'.stood
        PROVE  \E r \in rows' :
                 /\ r.id = x
                 /\ \/ \E i \in DOMAIN export.out : export.out[i].id = x
                    \/ /\ export.state = "reading" /\ Beyond(r, export.last)
                       /\ r \in Within(rows', export.scope) /\ Meets(export.filter, r)
    <3>1. x \in export.stood /\ \E v \in old : v.id = x
      BY <2>2
    <3>2. PICK v \in old : v.id = x
      BY <3>1
    <3>3. PICK u \in rows :
            /\ u.id = x
            /\ \/ \E i \in DOMAIN export.out : export.out[i].id = x
               \/ /\ export.state = "reading" /\ Beyond(u, export.last)
                  /\ u \in Within(rows, export.scope) /\ Meets(export.filter, u)
      BY <2>1, <3>1 DEF ExportInv
    <3>4. u = v
      BY <1>1, <3>2, <3>3 DEF RowsInv
    <3>5. PICK r \in rows' : v.id = r.id /\ v.item = r.item
      BY <1>2
    <3>6. /\ Beyond(u, export.last) => Beyond(r, export.last)
          /\ u \in Within(rows, export.scope) => r \in Within(rows', export.scope)
      BY <3>4, <3>5 DEF Beyond, Within
    <3>7. Meets(export.filter, u) => Meets(export.filter, r)
      BY <3>4, <3>5, MeetsOfItem
    <3> QED BY <3>2, <3>3, <3>5, <3>6, <3>7
  <2>6. ExportInv'
    BY <2>1, <2>2, <2>3, <2>4, <2>5 DEF ExportInv
  <2> QED BY <1>3, <2>6 DEF BillingInv
<1> QED BY <1>4, <1>5

\* An export that opens has everything still to come.
LEMMA OpeningBilling ==
  ASSUME BillingInv, NEW p, NEW f \in Filters, Opening(p, f)
  PROVE  BillingInv'
<1>1. /\ export' = Opened(p, f) /\ rows' = rows /\ nextId' = nextId
  BY DEF Opening
<1>2. RowsInv'
  BY <1>1 DEF BillingInv, RowsInv
<1>3. /\ ExportShape' /\ export'.state = "reading" /\ export'.filter = f /\ export'.last = NoRow
      /\ export'.out = <<>> /\ export'.scope = ScopeOf(p)
      /\ export'.stood = {r.id : r \in Selected(f, Within(rows, ScopeOf(p)))}
  BY <1>1 DEF Opened, ExportShape
<1>4. ASSUME NEW x \in export'.stood
      PROVE  \E r \in rows : /\ r.id = x /\ Beyond(r, NoRow)
                             /\ r \in Within(rows, ScopeOf(p)) /\ Meets(f, r)
  <2>1. PICK r \in Selected(f, Within(rows, ScopeOf(p))) : r.id = x
    BY <1>3
  <2>2. r \in Within(rows, ScopeOf(p)) /\ Meets(f, r)
    BY SelectedIs
  <2>3. r \in rows
    BY <2>2 DEF Within
  <2> QED BY <2>1, <2>2, <2>3 DEF Beyond
<1>5. DOMAIN export'.out = {} /\ export'.out \in Seq([id : 1..(nextId' - 1), item : Items])
  BY <1>3
<1>6. ExportInv'
  BY <1>1, <1>3, <1>4, <1>5 DEF ExportInv
<1> QED BY <1>2, <1>6 DEF BillingInv

\* What is above something above is above.
LEMMA AboveIsTransitive ==
  ASSUME NEW r, NEW s, NEW v, Above(r, s, TRUE), Above(s, v, TRUE),
         r.item.day \in Nat, s.item.day \in Nat, v.item.day \in Nat, r.id \in Nat, s.id \in Nat, v.id \in Nat
  PROVE  Above(r, v, TRUE)
BY DEF Above

\* The next page: rows beyond the last one, in their order, and its own last row; the rows
\* beyond that one are what is left.
LEMMA PageIs ==
  ASSUME RowsInv, ExportInv
  PROVE  LET page == Page(rows)
         IN  /\ page \in Seq(rows)
             /\ \A i \in DOMAIN page : Beyond(page[i], export.last)
             /\ \A i, j \in DOMAIN page :
                  i < j => Above(page[i], page[j], TRUE) \/ (page[i] = page[j] /\ Times(export.filter, page[i]) > 1)
             /\ \A r \in Within(rows, export.scope) : Meets(export.filter, r) /\ Beyond(r, export.last) =>
                  \/ \E i \in DOMAIN page : page[i] = r
                  \/ Len(page) = Chunk /\ page # <<>> /\ Above(page[Len(page)], r, TRUE)
<1> DEFINE f == export.filter
           R == {r \in Within(rows, export.scope) : Beyond(r, export.last)}
           w == Lines(f, R, TRUE)
           page == Page(rows)
<1>1. f \in Filters /\ R \in SUBSET rows /\ Chunk \in Nat \ {0}
  BY ReportsAssumption DEF ExportInv, Within
<1>2. Sortable(R)
  BY <1>1, RowsSortable
<1>3. /\ w \in Seq(Selected(f, R))
      /\ \A r \in Selected(f, R) : \E i \in DOMAIN w : w[i] = r
      /\ \A i, j \in DOMAIN w : i < j => Above(w[i], w[j], TRUE) \/ (w[i] = w[j] /\ Times(f, w[i]) > 1)
  <2> DEFINE down == TRUE
             x == Lines(f, R, down)
             S == Selected(f, R)
  <2>1. down \in BOOLEAN
    OBVIOUS
  <2>2. w = x
    OBVIOUS
  <2> HIDE DEF f, R, down, w
  <2>3. /\ x \in Seq(S)
        /\ \A r \in S : \E i \in DOMAIN x : x[i] = r
        /\ \A i, j \in DOMAIN x : i < j => Above(x[i], x[j], down) \/ (x[i] = x[j] /\ Times(f, x[i]) > 1)
    BY <1>1, <1>2, <2>1, LinesAre
  <2> HIDE DEF x, S
  <2> QED BY <2>2, <2>3 DEF down, S
<1>4. page = Piece(w, 0, Chunk)
  BY DEF Page
<1>5. Selected(f, R) \subseteq rows /\ \A r \in Selected(f, R) : Beyond(r, export.last)
  BY <1>1, SelectedIs
<1>6. \A r \in Within(rows, export.scope) : Meets(f, r) /\ Beyond(r, export.last) => r \in Selected(f, R)
  BY SelectedIs
<1> HIDE DEF f, R, w, page
<1>7. /\ page \in Seq(Selected(f, R)) /\ Len(page) = (IF Len(w) < Chunk THEN Len(w) ELSE Chunk)
      /\ DOMAIN page = 1..Len(page)
      /\ \A i \in DOMAIN page : i \in DOMAIN w /\ page[i] = w[i]
  BY <1>1, <1>3, <1>4, FirstPiece
<1>8. ASSUME NEW i \in DOMAIN page PROVE Beyond(page[i], export.last)
  BY <1>5, <1>7, Element
<1>9. page \in Seq(rows)
  BY <1>5, <1>7, Wider
<1>10. ASSUME NEW i \in DOMAIN page, NEW j \in DOMAIN page, i < j
       PROVE  Above(page[i], page[j], TRUE) \/ (page[i] = page[j] /\ Times(f, page[i]) > 1)
  BY <1>3, <1>7, <1>10
<1>11. ASSUME NEW r \in Within(rows, export.scope), Meets(f, r), Beyond(r, export.last)
       PROVE  \/ \E i \in DOMAIN page : page[i] = r
              \/ Len(page) = Chunk /\ page # <<>> /\ Above(page[Len(page)], r, TRUE)
  <2>1. PICK m \in DOMAIN w : w[m] = r
    BY <1>3, <1>6, <1>11
  <2>2. Len(w) \in Nat /\ DOMAIN w = 1..Len(w)
    BY <1>3
  <2>3. CASE m <= Len(page)
    <3>1. m \in DOMAIN page /\ page[m] = r
      BY <1>7, <2>1, <2>2, <2>3
    <3> QED BY <3>1
  <2>4. CASE ~ (m <= Len(page))
    <3>1. Len(page) = Chunk /\ Chunk < m /\ Chunk \in DOMAIN page /\ Chunk \in DOMAIN w
      <4>1. m \in Nat /\ m >= 1 /\ m <= Len(w)
        BY <2>1, <2>2
      <4>2. Len(page) = Chunk /\ Chunk < m /\ Chunk \in Nat /\ Chunk >= 1
        <5>1. Chunk \in Nat /\ Chunk >= 1 /\ Len(w) \in Nat
          BY <1>1, <2>2
        <5>2. Len(page) = IF Len(w) < Chunk THEN Len(w) ELSE Chunk
          BY <1>7
        <5>3. ~ (Len(w) < Chunk)
          BY <2>4, <4>1, <5>2
        <5>4. Len(page) = Chunk
          BY <5>2, <5>3
        <5> QED BY <2>4, <4>1, <5>1, <5>4
      <4>3. Chunk \in 1..Len(w) /\ Chunk \in 1..Len(page)
        BY <2>2, <4>1, <4>2
      <4> QED BY <1>7, <2>2, <4>2, <4>3
    <3>2. page # <<>> /\ page[Chunk] = w[Chunk]
      BY <1>7, <3>1
    <3>3. Above(w[Chunk], r, TRUE) \/ w[Chunk] = r
      BY <1>3, <2>1, <3>1
    <3> QED BY <3>1, <3>2, <3>3
  <2> QED BY <2>3, <2>4
<1> QED BY <1>8, <1>9, <1>10, <1>11 DEF f, page

\* A page keeps the export right.
LEMMA PageBilling ==
  ASSUME BillingInv, ExportPage
  PROVE  BillingInv'
<1> DEFINE page == Page(rows)
           more == [i \in DOMAIN page |-> [id |-> page[i].id, item |-> page[i].item]]
           T == [id : 1..(nextId - 1), item : Items]
           old == export.out
           out == old \o more
           last == IF page = <<>> THEN export.last ELSE [day |-> Last(page).item.day, id |-> Last(page).id]
<1>1. RowsInv /\ rows' = rows /\ nextId' = nextId /\ nextId \in Nat
  BY DEF BillingInv, RowsInv, ExportPage
<1>2. RowsInv'
  BY <1>1 DEF RowsInv
<1>3. ExportInv /\ export.state = "reading"
  BY DEF BillingInv, ExportPage, NoExport
<1>4. /\ ExportShape' /\ export'.filter = export.filter /\ export'.scope = export.scope
      /\ export'.stood = export.stood /\ export'.out = out /\ export'.last = last
      /\ export'.state = IF Len(page) < Chunk THEN "done" ELSE "reading"
  BY <1>3 DEF ExportPage, ExportInv, ExportShape
<1>5. /\ page \in Seq(rows)
      /\ \A i \in DOMAIN page : Beyond(page[i], export.last)
      /\ \A i, j \in DOMAIN page :
           i < j => Above(page[i], page[j], TRUE) \/ (page[i] = page[j] /\ Times(export.filter, page[i]) > 1)
      /\ \A r \in Within(rows, export.scope) : Meets(export.filter, r) /\ Beyond(r, export.last) =>
           \/ \E i \in DOMAIN page : page[i] = r
           \/ Len(page) = Chunk /\ page # <<>> /\ Above(page[Len(page)], r, TRUE)
  BY <1>1, <1>3, PageIs
<1>6. Chunk \in Nat \ {0}
  BY ReportsAssumption
<1> HIDE DEF page
<1>7. Len(page) \in Nat /\ DOMAIN page = 1..Len(page) /\ \A i \in DOMAIN page : page[i] \in rows
  BY <1>5
<1>8. more \in Seq(T) /\ Len(more) = Len(page) /\ DOMAIN more = DOMAIN page
  <2>1. \A i \in DOMAIN page : page[i].id \in 1..(nextId - 1) /\ page[i].item \in Items
    BY <1>1, <1>7, RowIs
  <2>2. \A i \in DOMAIN page : [id |-> page[i].id, item |-> page[i].item] \in T
    BY <2>1
  <2> HIDE DEF T
  <2> QED BY <1>7, <2>2
<1>9. \A i \in DOMAIN page : more[i].id = page[i].id /\ more[i].item = page[i].item
  OBVIOUS
<1>10. old \in Seq(T)
  BY <1>3 DEF ExportInv
<1>11. \A x \in T : x.id \in Nat /\ x.id >= 1 /\ x.id < nextId /\ x.item \in Items /\ x.item.day \in Nat
  BY <1>1, ReportsAssumption
<1> HIDE DEF more, T, old
<1>12. /\ Len(old) \in Nat /\ DOMAIN old = 1..Len(old) /\ \A i \in DOMAIN old : old[i] \in T
  BY <1>10
<1>13. /\ out \in Seq(T) /\ DOMAIN out = 1..(Len(old) + Len(page)) /\ Len(out) = Len(old) + Len(page)
       /\ \A i \in DOMAIN out : out[i] = IF i <= Len(old) THEN old[i] ELSE more[i - Len(old)]
  BY <1>8, <1>10, Joint
<1>14. \A i \in DOMAIN out : /\ i <= Len(old) => i \in DOMAIN old
                             /\ ~ (i <= Len(old)) => i - Len(old) \in DOMAIN page
  BY <1>7, <1>12, <1>13
<1>15. \A i \in DOMAIN page : Len(old) + i \in DOMAIN out /\ out[Len(old) + i] = more[i]
  <2> TAKE i \in DOMAIN page
  <2>1. i \in 1..Len(page) /\ i \in Nat
    BY <1>7
  <2>2. Len(old) + i \in DOMAIN out /\ ~ (Len(old) + i <= Len(old)) /\ (Len(old) + i) - Len(old) = i
    BY <1>7, <1>12, <1>13, <2>1
  <2> QED BY <1>13, <2>2
<1>16. \A i \in DOMAIN old : i \in DOMAIN out /\ out[i] = old[i]
  BY <1>7, <1>12, <1>13
<1> HIDE DEF out
<1>17. \A i \in DOMAIN page : /\ page[i].id \in Nat /\ page[i].item.day \in Nat
                              /\ page[i].item \in Items
  BY <1>1, <1>7, RowIs
<1>18. \A i \in DOMAIN old : /\ old[i].id \in Nat /\ old[i].id >= 1 /\ old[i].item.day \in Nat
                             /\ export.last # NoRow /\ export.last.day \in Nat /\ export.last.id \in Nat
                             /\ Sent(old[i], export.last)
  <2> TAKE i \in DOMAIN old
  <2>1. old # <<>> /\ Len(old) \in DOMAIN old /\ Last(old) = old[Len(old)]
    BY <1>12 DEF Last
  <2>2. export.last = [day |-> Last(old).item.day, id |-> Last(old).id]
    BY <1>3, <2>1 DEF ExportInv, old
  <2>3. Last(old).id \in Nat /\ Last(old).id >= 1 /\ Last(old).item.day \in Nat
    BY <1>11, <1>12, <2>1
  <2>4. Sent(old[i], export.last)
    BY <1>3 DEF ExportInv, old
  <2>5. export.last.id >= 1 /\ NoRow.id = 0
    BY <2>2, <2>3 DEF NoRow
  <2> QED BY <1>11, <1>12, <2>2, <2>3, <2>4, <2>5
<1>19. page # <<>> => Len(page) \in DOMAIN page /\ Last(page) = page[Len(page)]
                      /\ last.day = page[Len(page)].item.day /\ last.id = page[Len(page)].id
  BY <1>5, <1>7 DEF Last
<1>20. page = <<>> => Len(page) = 0 /\ DOMAIN page = {} /\ last = export.last
  OBVIOUS
<1> HIDE DEF last
<1>21. last = IF out = <<>> THEN NoRow ELSE [day |-> Last(out).item.day, id |-> Last(out).id]
  <2>1. CASE page = <<>>
    <3>1. out = old
      <4>1. Len(out) = Len(old) /\ \A i \in 1..Len(old) : out[i] = old[i]
        BY <1>12, <1>13, <1>16, <1>20, <2>1
      <4> QED BY <1>10, <1>13, <4>1
    <3> QED BY <1>3, <1>20, <2>1, <3>1 DEF ExportInv, old
  <2>2. CASE page # <<>>
    <3>1. out # <<>> /\ Last(out) = more[Len(page)]
      BY <1>7, <1>12, <1>13, <1>15, <1>19, <2>2 DEF Last
    <3>2. Last(out).item = page[Len(page)].item /\ Last(out).id = page[Len(page)].id
      BY <1>9, <1>19, <2>2, <3>1
    <3>3. last = [day |-> page[Len(page)].item.day, id |-> page[Len(page)].id]
      BY <1>19, <2>2 DEF last
    <3> QED BY <3>1, <3>2, <3>3
  <2> QED BY <2>1, <2>2
<1>22. ASSUME NEW i \in DOMAIN page PROVE Sent(more[i], last)
  <2>1. /\ page # <<>> /\ Len(page) \in DOMAIN page
        /\ i = Len(page) \/ i < Len(page)
    BY <1>7, <1>19, <1>20
  <2>2. page[i] = page[Len(page)] \/ Above(page[i], page[Len(page)], TRUE)
    BY <1>5, <2>1
  <2> QED BY <1>9, <1>17, <1>19, <2>1, <2>2 DEF Sent, Above
<1>23. ASSUME NEW i \in DOMAIN old PROVE Sent(old[i], last)
  <2>1. CASE page = <<>>
    BY <1>18, <1>20, <2>1
  <2>2. CASE page # <<>>
    <3>1. Beyond(page[Len(page)], export.last)
      BY <1>5, <1>19, <2>2
    <3> QED BY <1>17, <1>18, <1>19, <2>2, <3>1 DEF Sent, Beyond
  <2> QED BY <2>1, <2>2
<1>24. \A i \in DOMAIN out : Sent(out[i], last)
  BY <1>13, <1>14, <1>22, <1>23
<1>25. ASSUME NEW i \in DOMAIN out, NEW r \in rows, r.item = out[i].item
       PROVE  r.id >= out[i].id
  <2>1. CASE i <= Len(old)
    BY <1>3, <1>13, <1>14, <1>25, <2>1 DEF ExportInv, old
  <2>2. CASE ~ (i <= Len(old))
    <3> DEFINE k == i - Len(old)
    <3>1. k \in DOMAIN page /\ out[i] = more[k]
      BY <1>13, <1>14, <2>2
    <3> HIDE DEF k
    <3>2. page[k] = r
      BY <1>1, <1>7, <1>9, <1>25, <3>1 DEF RowsInv
    <3> QED BY <1>9, <1>17, <3>1, <3>2
  <2> QED BY <2>1, <2>2
<1>26. ASSUME NEW i \in DOMAIN out, NEW j \in DOMAIN out, i < j, out[i].item = out[j].item
       PROVE  Times(export.filter, out[i]) > 1
  <2>1. i \in Nat /\ j \in Nat /\ Len(old) \in Nat
    BY <1>12, <1>13
  <2>2. CASE j <= Len(old)
    <3>1. i \in DOMAIN old /\ j \in DOMAIN old /\ out[i] = old[i] /\ out[j] = old[j]
      BY <1>13, <1>14, <1>26, <2>1, <2>2
    <3> QED BY <1>3, <1>26, <3>1 DEF ExportInv, old
  <2>3. CASE i <= Len(old) /\ ~ (j <= Len(old))
    <3> DEFINE k == j - Len(old)
    <3>1. i \in DOMAIN old /\ out[i] = old[i] /\ k \in DOMAIN page /\ out[j] = more[k]
      BY <1>13, <1>14, <2>3
    <3> HIDE DEF k
    <3>2. page[k].item = old[i].item
      BY <1>9, <1>26, <3>1
    <3>3. page[k].id >= old[i].id
      BY <1>3, <1>7, <3>1, <3>2 DEF ExportInv, old
    <3>4. Beyond(page[k], export.last) /\ Sent(old[i], export.last) /\ export.last # NoRow
      BY <1>5, <1>18, <3>1
    <3> QED BY <1>17, <1>18, <3>1, <3>2, <3>3, <3>4 DEF Beyond, Sent
  <2>4. CASE ~ (i <= Len(old)) /\ ~ (j <= Len(old))
    <3> DEFINE k == i - Len(old)
               l == j - Len(old)
    <3>1. /\ k \in DOMAIN page /\ out[i] = more[k] /\ l \in DOMAIN page /\ out[j] = more[l] /\ k < l
      BY <1>13, <1>14, <1>26, <2>1, <2>4
    <3> HIDE DEF k, l
    <3>2. page[k].item = page[l].item
      BY <1>9, <1>26, <3>1
    <3>3. page[k] = page[l]
      BY <1>1, <1>7, <3>1, <3>2 DEF RowsInv
    <3>4. ~ Above(page[k], page[k], TRUE)
      BY <1>17, <3>1 DEF Above
    <3>5. Times(export.filter, page[k]) > 1
      BY <1>5, <3>1, <3>3, <3>4
    <3>6. Times(export.filter, page[k]) = Times(export.filter, more[k])
      BY <1>9, <3>1, TimesOfItem
    <3> QED BY <3>1, <3>5, <3>6
  <2> QED BY <1>26, <2>1, <2>2, <2>3, <2>4
<1>27. ASSUME NEW x \in export.stood
       PROVE  \E r \in rows :
                /\ r.id = x
                /\ \/ \E i \in DOMAIN out : out[i].id = x
                   \/ /\ export'.state = "reading" /\ Beyond(r, last)
                      /\ r \in Within(rows, export.scope) /\ Meets(export.filter, r)
  <2>1. PICK r \in rows :
          /\ r.id = x
          /\ \/ \E i \in DOMAIN old : old[i].id = x
             \/ /\ Beyond(r, export.last)
                /\ r \in Within(rows, export.scope) /\ Meets(export.filter, r)
    BY <1>3 DEF ExportInv, old
  <2>2. CASE \E i \in DOMAIN old : old[i].id = x
    BY <1>16, <2>1, <2>2
  <2>3. ASSUME Beyond(r, export.last), r \in Within(rows, export.scope), Meets(export.filter, r)
        PROVE  \/ \E i \in DOMAIN out : out[i].id = x
               \/ export'.state = "reading" /\ Beyond(r, last)
    <3>1. CASE \E i \in DOMAIN page : page[i] = r
      <4>1. PICK i \in DOMAIN page : page[i] = r
        BY <3>1
      <4>2. Len(old) + i \in DOMAIN out /\ out[Len(old) + i].id = x
        BY <1>9, <1>15, <2>1, <4>1
      <4> QED BY <4>2
    <3>2. CASE Len(page) = Chunk /\ page # <<>> /\ Above(page[Len(page)], r, TRUE)
      <4>1. export'.state = "reading"
        BY <1>4, <1>6, <3>2
      <4>2. r.id \in Nat /\ r.item.day \in Nat
        BY <1>1, RowIs
      <4>3. Beyond(r, last)
        BY <1>17, <1>19, <3>2, <4>2 DEF Beyond, Above
      <4> QED BY <4>1, <4>3
    <3> QED BY <1>5, <2>3, <3>1, <3>2
  <2> QED BY <2>1, <2>2, <2>3
<1>28. ExportInv'
  BY <1>1, <1>3, <1>4, <1>13, <1>21, <1>24, <1>25, <1>26, <1>27 DEF ExportInv, T
<1> QED BY <1>2, <1>28 DEF BillingInv

\* Every step keeps the billing and the export right.
LEMMA BillingStep == BillingInv /\ [Next]_vars => BillingInv'
<1> SUFFICES ASSUME BillingInv, [Next]_vars PROVE BillingInv'
  OBVIOUS
<1>1. ASSUME UNCHANGED <<rows, nextId, export>> PROVE BillingInv'
  BY <1>1 DEF BillingInv, RowsInv, ExportInv, ExportShape
<1>2. CASE UNCHANGED vars
  BY <1>1, <1>2 DEF vars, reportVars
<1>3. CASE AccessNext /\ UNCHANGED reportVars
  BY <1>1, <1>3 DEF reportVars
<1>4. ASSUME NEW p \in Principals, NEW q \in Questions, Ask(p, q) PROVE BillingInv'
  BY <1>1, <1>4 DEF Ask
<1>5. ASSUME NEW p \in Principals, NEW f \in Filters, BillingExport(p, f) \/ MeteringExport(p, f) PROVE BillingInv'
  BY <1>5, OpeningBilling DEF BillingExport, MeteringExport
<1>6. ASSUME NEW key \in DOMAIN cache, CacheExpires(key) PROVE BillingInv'
  BY <1>1, <1>6 DEF CacheExpires
<1>7. CASE ExportPage
  BY <1>7, PageBilling
<1>8. ASSUME NEW s \in Sources, NEW bill \in Bills, NEW replace \in BOOLEAN,
             NEW items \in SUBSET {i \in Items : i.source = s}, Sync(s, items, bill, replace)
      PROVE  BillingInv'
  BY <1>8, SyncBilling
<1> QED BY <1>2, <1>3, <1>4, <1>5, <1>6, <1>7, <1>8 DEF Next

\* The variables of Reports and of Access keep their types, for any users, requests, items,
\* filters and syncs: the ids are below the sequence and no two rows share an id or an item.
THEOREM ReportsTypes == Spec => []TypeOK
<1>1. Init => SessionsInv /\ BillingInv
  BY SessionsStart, BillingStart DEF Init
<1>2. SessionsInv /\ BillingInv => TypeOK
  <2> SUFFICES ASSUME SessionsInv, BillingInv PROVE TypeOK
    OBVIOUS
  <2>1. AccessTypeOK
    BY DEF SessionsInv, Provisioned, Held, AccessTypeOK
  <2>2. /\ \A r \in rows : r.id \in 1..(nextId - 1) /\ r.item \in Items /\ r.bill \in Bills \cup {FirstBill}
        /\ \A r, s \in rows : r # s => r.id # s.id /\ r.item # s.item
    BY DEF BillingInv, RowsInv
  <2>3. ASSUME export # NoExport
        PROVE  /\ export.state \in {"reading", "done"}
               /\ export.stood \subseteq {r.id : r \in rows}
               /\ \A i \in DOMAIN export.out : export.out[i].item \in Items
    <3>1. ExportInv
      BY <2>3 DEF BillingInv
    <3>2. ASSUME NEW i \in DOMAIN export.out PROVE export.out[i].item \in Items
      <4>1. export.out[i] \in [id : 1..(nextId - 1), item : Items]
        BY <3>1, Element DEF ExportInv
      <4> QED BY <4>1
    <3> QED BY <3>1, <3>2 DEF ExportInv
  <2> QED BY <2>1, <2>2, <2>3 DEF TypeOK
<1> QED BY <1>1, <1>2, SessionsStep, BillingStep, PTL DEF Spec

\* However many syncs update, delete and insert rows between the pages of an export
\* (billing.py:209, metering.py:455), and however many rows a page has: a finished export has
\* every row that was there when it began and still is, and has no item twice unless two of the
\* chosen accounts match it.
THEOREM ExportsAreWhole == Spec => []ExportIsWhole
<1>1. Init => BillingInv
  BY BillingStart
<1>2. BillingInv => ExportIsWhole
  <2> SUFFICES ASSUME BillingInv, export # NoExport PROVE ExportIsWhole
    BY DEF ExportIsWhole
  <2>1. ExportInv
    BY DEF BillingInv
  <2>2. export.state = "done" => export.stood \subseteq {export.out[i].id : i \in DOMAIN export.out}
    BY <2>1 DEF ExportInv
  <2> QED BY <2>1, <2>2 DEF ExportInv, ExportIsWhole
<1> QED BY <1>1, <1>2, BillingStep, PTL DEF Spec

-----------------------------------------------------------------------------
(* What metering and the grouped queries of the dashboard add up, over any    *)
(* billing: each is a sum over groups, and the sum of its groups is a sum.    *)

\* Some billing, as large as you like.
Whole(bill) == bill.cost \in Int /\ {bill.usd, bill.cny} \subseteq Int \cup {None}
Billed(R) == IsFiniteSet(R) /\ \A r \in R : Whole(r.bill) /\ r.item.day \in Nat

\* Totals are sums.
LEMMA TotalIs ==
  ASSUME NEW R, NEW currency
  PROVE  Total(R, currency) = Sum([r \in R |-> Amount(r, currency)], R)
BY DEF Total, MapThenSumSet, MapThenFoldSet, Adds, Pick, Sum

\* So are the sums over an answer.
LEMMA SumOfIs == ASSUME NEW a PROVE SumOf(a) = Sum(a, DOMAIN a)
BY DEF SumOf, MapThenSumSet, MapThenFoldSet, Adds, Pick, Sum

\* And the figures of metering.
LEMMA SelectedCostIs ==
  ASSUME NEW f, NEW R
  PROVE  SelectedCost(f, R) = Sum([r \in Selected(f, R) |-> Times(f, r) * r.bill.cost], Selected(f, R))
BY DEF SelectedCost, MapThenSumSet, MapThenFoldSet, Adds, Pick, Sum

\* Amounts are whole.
LEMMA AmountInt ==
  ASSUME NEW r, Whole(r.bill), NEW currency PROVE Amount(r, currency) \in Int
BY DEF Amount, Whole

\* So are the days that months begin with.
LEMMA FirstDayInt == ASSUME NEW m \in Int PROVE FirstDay(m) \in Int
BY ReportsAssumption DEF FirstDay

\* The total of some of the rows.
LEMMA TotalWithin ==
  ASSUME NEW R, IsFiniteSet(R), NEW S \in SUBSET R, NEW currency
  PROVE  Total(S, currency) = Sum([r \in R |-> Amount(r, currency)], S)
<1>1. IsFiniteSet(S)
  BY FS_Subset
<1>2. \A r \in S : [x \in S |-> Amount(x, currency)][r] = [x \in R |-> Amount(x, currency)][r]
  OBVIOUS
<1>3. Sum([r \in S |-> Amount(r, currency)], S) = Sum([r \in R |-> Amount(r, currency)], S)
  BY <1>1, <1>2, SumSame
<1> QED BY <1>3, TotalIs

\* Days are what metering and the dashboard make of the same months.
LEMMA MonthSelected ==
  ASSUME NEW R, Billed(R), NEW m \in Int, NEW k \in Int
  PROVE  /\ Selected(MonthFilter(m, k), R) = During(R, FirstDay(m), FirstDay(m + k))
         /\ \A r : Times(MonthFilter(m, k), r) = 1
<1> DEFINE f == MonthFilter(m, k)
<1>1. f.first = FirstDay(m) /\ f.last = FirstDay(m + k) - 1 /\ f.provider = None /\ f.accounts = {}
  BY DEF MonthFilter
<1>2. FirstDay(m) \in Int /\ FirstDay(m + k) \in Int
  BY FirstDayInt
<1> HIDE DEF f
<1>3. \A r : Times(f, r) = 1
  BY <1>1 DEF Times
<1>4. \A r \in R : r.item.day \in f.first..f.last <=> r.item.day >= FirstDay(m) /\ r.item.day < FirstDay(m + k)
  BY <1>1, <1>2 DEF Billed
<1>5. Selected(f, R) = During(R, FirstDay(m), FirstDay(m + k))
  BY <1>1, <1>3, <1>4 DEF Selected, Chosen, During
<1> QED BY <1>3, <1>5 DEF f

\* Without accounts, metering adds up the costs of the invoices.
LEMMA PlainCost ==
  ASSUME NEW f, f.accounts = {}, NEW R, Billed(R)
  PROVE  SelectedCost(f, R) = Sum([r \in Selected(f, R) |-> r.bill.cost], Selected(f, R))
<1> DEFINE S == Selected(f, R)
<1>1. S \in SUBSET R
  BY DEF Selected, Chosen
<1>2. ASSUME NEW r \in S PROVE Times(f, r) * r.bill.cost = r.bill.cost
  <2>1. Times(f, r) = 1
    BY DEF Times
  <2>2. r.bill.cost \in Int
    BY <1>1 DEF Billed, Whole
  <2> QED BY <2>1, <2>2
<1>3. SelectedCost(f, R) = Sum([r \in S |-> Times(f, r) * r.bill.cost], S)
  BY SelectedCostIs
<1> HIDE DEF S
<1>4. [r \in S |-> Times(f, r) * r.bill.cost] = [r \in S |-> r.bill.cost]
  BY <1>2
<1> QED BY <1>3, <1>4 DEF S

\* Of rows whose dollars are their cost, this is the total in dollars.
LEMMA DollarsAre ==
  ASSUME NEW S, NEW currency, currency # "cny", Alike(S, currency)
  PROVE  Sum([r \in S |-> r.bill.cost], S) = Total(S, currency)
<1>1. ASSUME NEW r \in S PROVE Amount(r, currency) = r.bill.cost
  BY DEF Amount, Alike
<1>2. [r \in S |-> r.bill.cost] = [r \in S |-> Amount(r, currency)]
  BY <1>1
<1> QED BY <1>2, TotalIs

\* Of rows at one rate, the yuan are the costs at that rate.
LEMMA YuanAre ==
  ASSUME NEW S, Billed(S), Alike(S, "cny")
  PROVE  LET P == {r \in S : r.bill.cny # None}
         IN  Yuan * Sum([r \in P |-> r.bill.cost], P) = Total(S, "cny")
<1> DEFINE P == {r \in S : r.bill.cny # None}
           a == [r \in P |-> r.bill.cost]
           b == [r \in S |-> Amount(r, "cny")]
<1>1. IsFiniteSet(S) /\ IsFiniteSet(P) /\ P \in SUBSET S
  BY FS_Subset DEF Billed
<1>2. \A r \in S : r.bill.cost \in Int /\ Amount(r, "cny") \in Int
  BY AmountInt DEF Billed, Whole
<1>3. /\ \A r \in P : Amount(r, "cny") = Yuan * r.bill.cost
      /\ \A r \in S \ P : Amount(r, "cny") = 0
  BY DEF Amount, Alike
<1> HIDE DEF P
<1>4. /\ \A r \in P : a[r] \in Int /\ b[r] = Yuan * a[r] /\ b[r] \in Int
      /\ \A r \in S \ P : b[r] = 0
  BY <1>1, <1>2, <1>3
<1>5. Total(S, "cny") = Sum(b, S)
  BY TotalIs
<1>6. Yuan \in Int
  BY ReportsAssumption
<1> HIDE DEF a, b
<1>7. Sum(b, P) = Yuan * Sum(a, P)
  BY <1>1, <1>4, <1>6, SumScaled
<1>8. Sum(b, S) = Sum(b, P)
  BY <1>1, <1>4, SumSome
<1> QED BY <1>5, <1>7, <1>8 DEF P, a

\* Both add up the same, if the rows of the months are alike.
LEMMA MeteredIs ==
  ASSUME NEW R, Billed(R), NEW m \in Int, NEW k \in Int, NEW currency
  PROVE  AgreesOn(Total(During(R, FirstDay(m), FirstDay(m + k)), currency), MonthFilter(m, k), R, currency)
<1> DEFINE f == MonthFilter(m, k)
           D(S) == During(S, FirstDay(m), FirstDay(m + k))
           bare(S) == Sum([r \in S |-> r.bill.cost], S)
<1>1. ASSUME NEW S \in SUBSET R
      PROVE  Billed(D(S)) /\ Selected(f, S) = D(S) /\ SelectedCost(f, S) = bare(D(S))
  <2>1. Billed(S) /\ Billed(D(S))
    BY FS_Subset DEF Billed, During
  <2>2. Selected(f, S) = D(S)
    BY <2>1, MonthSelected
  <2>3. f.accounts = {}
    BY DEF MonthFilter
  <2> HIDE DEF f, D
  <2> QED BY <2>1, <2>2, <2>3, PlainCost
<1> SUFFICES ASSUME Alike(D(R), currency) PROVE Total(D(R), currency) = Metered(f, R, currency)
  BY <1>1 DEF AgreesOn
<1>2. CASE currency # "cny"
  <2>1. Metered(f, R, currency) = SelectedCost(f, R)
    BY <1>2 DEF Metered
  <2>2. SelectedCost(f, R) = bare(D(R))
    BY <1>1
  <2> HIDE DEF f, D
  <2>3. bare(D(R)) = Total(D(R), currency)
    BY <1>2, DollarsAre
  <2> HIDE DEF bare
  <2> QED BY <2>1, <2>2, <2>3
<1>3. CASE currency = "cny"
  <2> DEFINE P == {r \in R : r.bill.cny # None}
             Q == {r \in D(R) : r.bill.cny # None}
  <2>1. Metered(f, R, currency) = Yuan * SelectedCost(f, P)
    BY <1>3 DEF Metered
  <2>2. SelectedCost(f, P) = bare(D(P)) /\ Billed(D(R))
    BY <1>1
  <2>3. D(P) = Q
    BY DEF During
  <2> HIDE DEF f, D, P
  <2>4. Yuan * bare(Q) = Total(D(R), "cny")
    BY <1>3, <2>2, YuanAre
  <2> HIDE DEF bare, Q
  <2> QED BY <1>3, <2>1, <2>2, <2>3, <2>4
<1> QED BY <1>2, <1>3

\* The amounts of some rows.
LEMMA AmountsInt ==
  ASSUME NEW R, Billed(R), NEW currency
  PROVE  \A S \in SUBSET R : Billed(S) /\ \A r \in S : Amount(r, currency) \in Int
BY AmountInt, FS_Subset DEF Billed

\* What a function makes of a finite set is finite.
LEMMA ImageFinite ==
  ASSUME NEW f, IsFiniteSet(DOMAIN f)
  PROVE  IsFiniteSet({f[x] : x \in DOMAIN f})
<1> DEFINE T == {f[x] : x \in DOMAIN f}
           h == [x \in DOMAIN f |-> f[x]]
<1>1. h \in Surjection(DOMAIN f, T)
  BY DEF Surjection
<1> HIDE DEF h, T
<1>2. IsFiniteSet(T)
  BY <1>1, FS_Surjection
<1> QED BY <1>2 DEF T

\* The rows of a group, of some groups, and of a project.
InGroup(group, g) == Part(group, DOMAIN group, g)
InGroups(group, G) == Parts(group, DOMAIN group, G)
OfProject(R, g) == {r \in R : r.item.project = g}

\* What a grouped query answers: a group has the total of its rows, and some of the groups what
\* the rows of these groups add up to.
LEMMA ByIs ==
  ASSUME NEW group, NEW currency, Billed(DOMAIN group)
  PROVE  LET a == By(group, currency)  R == DOMAIN group
         IN  /\ DOMAIN a = {group[r] : r \in R}
             /\ \A g \in DOMAIN a : a[g] = Total(InGroup(group, g), currency)
             /\ \A G \in SUBSET DOMAIN a : Sum(a, G) = Total(InGroups(group, G), currency)
<1> DEFINE a == By(group, currency)
           R == DOMAIN group
           f == [r \in R |-> Amount(r, currency)]
           D == {group[r] : r \in R}
<1>1. a = [g \in D |-> Total({r \in R : group[r] = g}, currency)]
  BY DEF By, Range
<1>2. IsFiniteSet(R) /\ \A r \in R : f[r] \in Int
  BY AmountsInt DEF Billed
<1>3. IsFiniteSet(D)
  BY <1>2, ImageFinite
<1>4. \A S \in SUBSET R : Total(S, currency) = Sum(f, S)
  BY <1>2, TotalWithin
<1> HIDE DEF f, R, D, a
<1>5. \A g \in D : a[g] = Total(Part(group, R, g), currency) /\ a[g] = Sum(f, Part(group, R, g))
  <2>1. \A g \in D : a[g] = Total({r \in R : group[r] = g}, currency)
    BY <1>1
  <2>2. \A g : {r \in R : group[r] = g} = Part(group, R, g) /\ Part(group, R, g) \in SUBSET R
    BY DEF Part
  <2> QED BY <1>4, <2>1, <2>2
<1>6. ASSUME NEW G \in SUBSET D PROVE Sum(a, G) = Total(Parts(group, R, G), currency)
  <2>1. IsFiniteSet(G)
    BY <1>3, FS_Subset
  <2>2. \A g \in G : a[g] = Sum(f, Part(group, R, g))
    BY <1>5
  <2>3. Sum(a, G) = Sum(f, Parts(group, R, G))
    BY <1>2, <2>1, <2>2, SumGroups
  <2>4. Parts(group, R, G) \in SUBSET R
    BY DEF Parts
  <2> QED BY <1>4, <2>3, <2>4
<1>7. DOMAIN a = D
  BY <1>1
<1> QED BY <1>5, <1>6, <1>7 DEF R, D, a, InGroup, InGroups

\* All groups add up to all rows.
LEMMA ByAll ==
  ASSUME NEW group, NEW currency, Billed(DOMAIN group)
  PROVE  SumOf(By(group, currency)) = Total(DOMAIN group, currency)
<1> DEFINE a == By(group, currency)
           R == DOMAIN group
<1>1. DOMAIN a = {group[r] : r \in R} /\ Sum(a, DOMAIN a) = Total(InGroups(group, DOMAIN a), currency)
  BY ByIs
<1>2. InGroups(group, DOMAIN a) = R
  BY <1>1 DEF InGroups, Parts
<1> HIDE DEF a, R
<1> QED BY <1>1, <1>2, SumOfIs DEF a, R

\* A limited answer has some of the groups, as they are.
LEMMA LimitedIs ==
  ASSUME NEW f, NEW n, NEW a \in Limited(f, n)
  PROVE  DOMAIN a \subseteq DOMAIN f /\ \A g \in DOMAIN a : a[g] = f[g]
BY DEF Limited, Restrict

\* A joined query adds up the amounts as often as the join makes copies.
LEMMA JoinedIs ==
  ASSUME NEW copies, NEW currency, Billed(DOMAIN copies)
  PROVE  LET a == ByJoined(copies, currency)  R == DOMAIN copies
         IN  /\ DOMAIN a = {r.item.project : r \in R}
             /\ \A g \in DOMAIN a : (\A r \in R : r.item.project = g => copies[r] = 1)
                  => a[g] = Total(OfProject(R, g), currency)
<1> DEFINE a == ByJoined(copies, currency)
           R == DOMAIN copies
           D == {r.item.project : r \in R}
           C(g) == {r \in R : r.item.project = g}
<1>1. a = [g \in D |-> MapThenSumSet(LAMBDA r : copies[r] * Amount(r, currency), C(g))]
  BY DEF ByJoined
<1>2. ASSUME NEW g \in D, \A r \in R : r.item.project = g => copies[r] = 1
      PROVE  a[g] = Total(C(g), currency)
  <2>1. IsFiniteSet(C(g)) /\ \A r \in C(g) : Amount(r, currency) \in Int /\ copies[r] = 1
    BY <1>2, AmountsInt, FS_Subset DEF Billed
  <2>2. \A r \in C(g) : 1 * Amount(r, currency) = Amount(r, currency)
    BY <2>1
  <2> HIDE DEF C, R, D, a
  <2>3. \A r \in C(g) : copies[r] * Amount(r, currency) = Amount(r, currency)
    BY <2>1, <2>2
  <2>4. [r \in C(g) |-> copies[r] * Amount(r, currency)] = [r \in C(g) |-> Amount(r, currency)]
    BY <2>3
  <2>5. Total(C(g), currency) = Sum([r \in C(g) |-> Amount(r, currency)], C(g))
    BY TotalIs
  <2>6. a[g] = MapThenSumSet(LAMBDA r : copies[r] * Amount(r, currency), C(g))
    BY <1>1
  <2>7. MapThenSumSet(LAMBDA r : copies[r] * Amount(r, currency), C(g))
          = Sum([r \in C(g) |-> copies[r] * Amount(r, currency)], C(g))
    BY DEF MapThenSumSet, MapThenFoldSet, Adds, Pick, Sum
  <2> QED BY <2>4, <2>5, <2>6, <2>7
<1>3. DOMAIN a = D
  BY <1>1
<1> QED BY <1>2, <1>3 DEF OfProject

-----------------------------------------------------------------------------
(* Each query of the dashboard against the figure of metering.                *)

\* The rows of some months.
LEMMA DuringIs ==
  ASSUME NEW R, Billed(R), NEW from, NEW before
  PROVE  Billed(During(R, from, before)) /\ During(R, from, before) \in SUBSET R
<1>1. During(R, from, before) \in SUBSET R
  BY DEF During
<1> QED BY <1>1, AmountsInt

\* What metering says of a month.
LEMMA MeteredMonth ==
  ASSUME NEW R, Billed(R), NEW m \in Int, NEW currency
  PROVE  AgreesOn(Total(OfMonth(R, m), currency), MonthFilter(m, 1), R, currency)
BY MeteredIs DEF OfMonth

\* get_overview
LEMMA OverviewAgrees ==
  ASSUME NEW q, q.fn = "overview", q.month \in Nat, NEW R, Billed(R), NEW scope, NEW a \in Overview(q, R, scope)
  PROVE  AgreesWithMetering(q, a, R)
<1>1. a.total = Total(OfMonth(R, q.month), q.currency) /\ a.previous = Total(OfMonth(R, q.month - 1), q.currency)
  BY DEF Overview
<1>2. q.month \in Int /\ q.month - 1 \in Int
  OBVIOUS
<1>3. /\ AgreesOn(Total(OfMonth(R, q.month), q.currency), MonthFilter(q.month, 1), R, q.currency)
      /\ AgreesOn(Total(OfMonth(R, q.month - 1), q.currency), MonthFilter(q.month - 1, 1), R, q.currency)
  BY <1>2, MeteredMonth
<1> QED BY <1>1, <1>3 DEF AgreesWithMetering

\* get_trend
LEMMA TrendAgrees ==
  ASSUME NEW q, q.fn = "trend", q.month \in Nat, q.to \in Nat, NEW R, Billed(R), NEW a \in Trend(q, R)
  PROVE  AgreesWithMetering(q, a, R)
<1> DEFINE W(S) == During(S, FirstDay(q.month), FirstDay(q.to + 1))
           period(r) == IF q.granularity = "daily" THEN r.item.day ELSE (r.item.day - 1) \div MonthLength
           group == [r \in W(R) |-> <<period(r), ProviderOfSource(r.item.source)>>]
           months == MonthFilter(q.month, q.to - q.month + 1)
           onDay(d) == MapThenSumSet(LAMBDA g : a[g], {g \in DOMAIN a : g[1] = d})
<1>1. a = By(group, q.currency)
  BY DEF Trend
<1>2. Billed(W(R)) /\ DOMAIN group = W(R)
  BY DuringIs
<1>3. ASSUME NEW S \in SUBSET R, NEW currency PROVE AgreesOn(Total(W(S), currency), months, S, currency)
  <2>1. Billed(S)
    BY AmountsInt
  <2>2. q.month \in Int /\ q.to - q.month + 1 \in Int /\ q.month + (q.to - q.month + 1) = q.to + 1
    OBVIOUS
  <2>3. AgreesOn(Total(During(S, FirstDay(q.month), FirstDay(q.month + (q.to - q.month + 1))), currency),
                 months, S, currency)
    BY <2>1, <2>2, MeteredIs
  <2> QED BY <2>2, <2>3
<1>4. SumOf(a) = Total(W(R), q.currency)
  <2> HIDE DEF group, W
  <2> QED BY <1>1, <1>2, ByAll
<1>5. ASSUME NEW d \in DOMAIN Daily(months, R), q.granularity = "daily", q.currency = "usd",
             Alike(Selected(months, {r \in R : r.item.day = d}), "usd")
      PROVE  onDay(d) = Daily(months, R)[d]
  <2> DEFINE G == {g \in DOMAIN a : g[1] = d}
             P == {r \in R : r.item.day = d}
  <2>1. onDay(d) = Sum(a, G)
    BY DEF MapThenSumSet, MapThenFoldSet, Adds, Pick, Sum
  <2>2. Sum(a, G) = Total(InGroups(group, G), q.currency)
    <3>1. G \in SUBSET DOMAIN a
      OBVIOUS
    <3> HIDE DEF group, W, G
    <3> QED BY <1>1, <1>2, <3>1, ByIs
  <2>3. InGroups(group, G) = W(P)
    <3>1. \A r \in W(R) : group[r][1] = r.item.day
      BY <1>5
    <3>2. \A r \in W(R) : group[r] \in DOMAIN a
      <4>1. DOMAIN a = {group[r] : r \in W(R)}
        <5> HIDE DEF group, W
        <5> QED BY <1>1, <1>2, ByIs
      <4> HIDE DEF group, W
      <4> QED BY <4>1
    <3>3. InGroups(group, G) = {r \in W(R) : r.item.day = d}
      <4> HIDE DEF group, W
      <4> QED BY <1>2, <3>1, <3>2 DEF InGroups, Parts
    <3>4. {r \in W(R) : r.item.day = d} = W(P)
      BY DEF During
    <3> HIDE DEF group, W, G, P
    <3> QED BY <3>3, <3>4
  <2>4. Daily(months, R)[d] = SelectedCost(months, P)
    BY DEF Daily
  <2>5. SelectedCost(months, P) = Total(W(P), "usd")
    <3>1. AgreesOn(Total(W(P), "usd"), months, P, "usd")
      BY <1>3
    <3>2. Alike(Selected(months, P), "usd")
      BY <1>5
    <3> HIDE DEF W, P, months
    <3> QED BY <3>1, <3>2 DEF AgreesOn, Metered
  <2> HIDE DEF group, W, G, P, months
  <2> QED BY <1>5, <2>1, <2>2, <2>3, <2>4, <2>5
<1>6. AgreesOn(Total(W(R), q.currency), months, R, q.currency)
  BY <1>3
<1> HIDE DEF W, group
<1> QED BY <1>4, <1>5, <1>6 DEF AgreesWithMetering

\* A query that groups some rows of the month.
LEMMA MonthAgrees ==
  ASSUME NEW q, q.month \in Nat, NEW R, Billed(R), NEW P \in SUBSET R, NEW group,
         DOMAIN group = OfMonth(P, q.month)
  PROVE  AgreesOn(SumOf(By(group, q.currency)), MonthFilter(q.month, 1), P, q.currency)
<1>1. q.month \in Int /\ Billed(P)
  BY AmountsInt
<1>2. Billed(OfMonth(P, q.month))
  BY <1>1, DuringIs DEF OfMonth
<1> QED BY <1>1, <1>2, ByAll, MeteredMonth

\* get_by_provider
LEMMA ByProviderAgrees ==
  ASSUME NEW q, q.fn = "by_provider", q.month \in Nat, NEW R, Billed(R), NEW a \in ByProvider(q, R)
  PROVE  AgreesWithMetering(q, a, R)
<1> DEFINE group == [r \in OfMonth(R, q.month) |-> ProviderOfSource(r.item.source)]
<1>1. a = By(group, q.currency) /\ DOMAIN group = OfMonth(R, q.month)
  BY DEF ByProvider
<1> HIDE DEF group
<1>2. AgreesOn(SumOf(a), MonthFilter(q.month, 1), R, q.currency)
  BY <1>1, MonthAgrees
<1> QED BY <1>2 DEF AgreesWithMetering

\* get_by_category
LEMMA ByCategoryAgrees ==
  ASSUME NEW q, q.fn = "by_category", q.month \in Nat, NEW R, Billed(R), NEW a \in ByCategory(q, R)
  PROVE  AgreesWithMetering(q, a, R)
<1> DEFINE P == {r \in R : CategoryOf[r.item.source] # None}
           joined == {r \in OfMonth(R, q.month) : CategoryOf[r.item.source] # None}
           group == [r \in joined |-> CategoryOf[r.item.source]]
<1>1. a = By(group, q.currency) /\ DOMAIN group = joined
  BY DEF ByCategory
<1>2. joined = OfMonth(P, q.month)
  BY DEF OfMonth, During
<1>3. P \in SUBSET R
  OBVIOUS
<1> HIDE DEF group, joined, P
<1>4. AgreesOn(SumOf(a), MonthFilter(q.month, 1), P, q.currency)
  BY <1>1, <1>2, <1>3, MonthAgrees
<1> QED BY <1>4 DEF AgreesWithMetering, P

\* get_by_region
LEMMA ByRegionAgrees ==
  ASSUME NEW q, q.fn = "by_region", q.month \in Nat, NEW R, Billed(R), NEW a \in ByRegion(q, R)
  PROVE  AgreesWithMetering(q, a, R)
<1> DEFINE P == {r \in R : r.item.region # None}
           placed == {r \in OfMonth(R, q.month) : r.item.region # None}
           group == [r \in placed |-> <<r.item.region, ProviderOfSource(r.item.source)>>]
<1>1. a = By(group, q.currency) /\ DOMAIN group = placed
  BY DEF ByRegion
<1>2. placed = OfMonth(P, q.month)
  BY DEF OfMonth, During
<1>3. P \in SUBSET R
  OBVIOUS
<1> HIDE DEF group, placed, P
<1>4. AgreesOn(SumOf(a), MonthFilter(q.month, 1), P, q.currency)
  BY <1>1, <1>2, <1>3, MonthAgrees
<1> QED BY <1>4 DEF AgreesWithMetering, P

\* get_by_service
LEMMA ByServiceAgrees ==
  ASSUME NEW q, q.fn = "by_service", q.month \in Nat, NEW R, Billed(R), NEW a \in ByService(q, R)
  PROVE  AgreesWithMetering(q, a, R)
<1> DEFINE mine == {r \in OfMonth(R, q.month) : q.provider \in {None, ProviderOfSource(r.item.source)}}
           group == [r \in mine |-> r.item.product]
           month == MonthFilter(q.month, 1)
           f == [month EXCEPT !.provider = q.provider]
<1> SUFFICES ASSUME q.currency = "usd", NEW g \in DOMAIN a,
                    Alike(Selected(f, {r \in R : r.item.product = g}), "usd")
             PROVE  a[g] = ByMeteredService(f, R)[g]
  BY DEF AgreesWithMetering
<1>1. a \in Limited(By(group, "usd"), q.limit) /\ DOMAIN group = mine
  BY DEF ByService
<1>2. mine \in SUBSET R /\ Billed(mine)
  <2>1. mine \in SUBSET R
    BY DEF OfMonth, During
  <2> HIDE DEF mine
  <2> QED BY <2>1, AmountsInt
<1>3. g \in DOMAIN By(group, "usd") /\ a[g] = By(group, "usd")[g]
  <2> HIDE DEF group
  <2> QED BY <1>1, LimitedIs
<1>4. g \in {group[r] : r \in mine} /\ a[g] = Total(InGroup(group, g), "usd")
  <2> HIDE DEF group, mine
  <2> QED BY <1>1, <1>2, <1>3, ByIs
<1>5. f.first = FirstDay(q.month) /\ f.last = FirstDay(q.month + 1) - 1 /\ f.provider = q.provider /\ f.accounts = {}
  <2>1. month = [first |-> FirstDay(q.month), last |-> FirstDay(q.month + 1) - 1, provider |-> None, accounts |-> {}]
    BY DEF MonthFilter
  <2> HIDE DEF month
  <2> QED BY <2>1
<1>6. ASSUME NEW S \in SUBSET R PROVE Selected(f, S) = {r \in S : r \in mine}
  <2>1. \A r : Times(f, r) = 1
    BY <1>5 DEF Times
  <2>2. FirstDay(q.month) \in Int /\ FirstDay(q.month + 1) \in Int
    BY FirstDayInt
  <2>3. \A r \in S : r.item.day \in f.first..f.last <=> r.item.day >= FirstDay(q.month) /\ r.item.day < FirstDay(q.month + 1)
    BY <1>5, <2>2 DEF Billed
  <2>4. \A r \in S : r \in mine <=> /\ q.provider \in {None, ProviderOfSource(r.item.source)}
                                    /\ r.item.day >= FirstDay(q.month) /\ r.item.day < FirstDay(q.month + 1)
    BY DEF OfMonth, During
  <2>5. f.provider = q.provider
    BY <1>5
  <2> HIDE DEF f, mine
  <2> QED BY <2>1, <2>3, <2>4, <2>5 DEF Selected, Chosen
<1>7. g \in {r.item.product : r \in Selected(f, R)}
  <2>1. Selected(f, R) = mine
    BY <1>2, <1>6
  <2>2. {group[r] : r \in mine} = {r.item.product : r \in mine}
    OBVIOUS
  <2> HIDE DEF mine, f, group
  <2> QED BY <1>4, <2>1, <2>2
<1> DEFINE P == {r \in R : r.item.product = g}
<1>8. ByMeteredService(f, R)[g] = SelectedCost(f, P)
  <2> HIDE DEF f
  <2> QED BY <1>7 DEF ByMeteredService
<1>9. SelectedCost(f, P) = Total(Selected(f, P), "usd")
  <2>1. Billed(P) /\ f.accounts = {}
    BY <1>5, AmountsInt
  <2>2. Alike(Selected(f, P), "usd")
    OBVIOUS
  <2> HIDE DEF f, P
  <2>3. Sum([r \in Selected(f, P) |-> r.bill.cost], Selected(f, P)) = Total(Selected(f, P), "usd")
    BY <2>2, DollarsAre
  <2> QED BY <2>1, <2>3, PlainCost
<1>10. Selected(f, P) = InGroup(group, g)
  <2>1. Selected(f, P) = {r \in P : r \in mine}
    BY <1>6
  <2>2. {r \in P : r \in mine} = {r \in mine : r.item.product = g}
    BY <1>2
  <2>3. \A r \in mine : group[r] = r.item.product
    OBVIOUS
  <2> HIDE DEF mine, group, P, f
  <2> QED BY <1>1, <2>1, <2>2, <2>3 DEF InGroup, Part
<1> HIDE DEF mine, group, P, f
<1> QED BY <1>4, <1>8, <1>9, <1>10

\* get_by_project
LEMMA ByProjectAgrees ==
  ASSUME NEW q, q.fn = "by_project", q.month \in Nat, NEW R, Billed(R), NEW a \in ByProject(q, R)
  PROVE  AgreesWithMetering(q, a, R)
<1> DEFINE D == OfMonth(R, q.month)
           copies == Joined(D)
<1> SUFFICES ASSUME NEW g \in DOMAIN a, \A r \in R : r.item.project = g => Copies(r) = 1
             PROVE  AgreesOn(a[g], MonthFilter(q.month, 1), {r \in R : r.item.project = g}, q.currency)
  BY DEF AgreesWithMetering
<1>1. a \in Limited(ByJoined(copies, q.currency), q.limit)
  BY DEF ByProject
<1>2. DOMAIN copies = D /\ \A r \in D : copies[r] = Copies(r)
  BY DEF Joined
<1>3. D \in SUBSET R /\ Billed(D)
  BY DuringIs DEF OfMonth
<1> DEFINE P == {r \in R : r.item.project = g}
<1>4. OfMonth(P, q.month) = {r \in D : r.item.project = g}
  BY DEF OfMonth, During
<1>5. AgreesOn(Total(OfMonth(P, q.month), q.currency), MonthFilter(q.month, 1), P, q.currency)
  <2>1. Billed(P) /\ q.month \in Int
    BY AmountsInt
  <2> HIDE DEF P
  <2> QED BY <2>1, MeteredMonth
<1> HIDE DEF D, copies
<1>6. g \in DOMAIN ByJoined(copies, q.currency) /\ a[g] = ByJoined(copies, q.currency)[g]
  BY <1>1, LimitedIs
<1>7. \A r \in DOMAIN copies : r.item.project = g => copies[r] = 1
  BY <1>2, <1>3
<1>8. ByJoined(copies, q.currency)[g] = Total(OfProject(DOMAIN copies, g), q.currency)
  <2>1. Billed(DOMAIN copies)
    BY <1>2, <1>3
  <2> QED BY <1>6, <1>7, <2>1, JoinedIs
<1> HIDE DEF P
<1> QED BY <1>2, <1>4, <1>5, <1>6, <1>8 DEF P, OfProject

\* get_unassigned
LEMMA UnassignedAgrees ==
  ASSUME NEW q, q.fn = "unassigned", q.month \in Nat, NEW R, Billed(R), NEW a \in Unassigned(q, R)
  PROVE  AgreesWithMetering(q, a, R)
<1> DEFINE count(r) == IF Matching(r) = {} THEN 1
                       ELSE Cardinality({p \in Matching(r) : ProjectOf[p].status # "active"})
           D == {r \in OfMonth(R, q.month) : count(r) > 0}
           copies == [r \in D |-> count(r)]
           P == {r \in R : \A p \in Matching(r) : ProjectOf[p].status # "active"}
           names == [r \in D |-> r.item.project]
<1> SUFFICES ASSUME \A r \in R : Copies(r) = 1
             PROVE  AgreesOn(SumOf(a), MonthFilter(q.month, 1), P, q.currency)
  BY DEF AgreesWithMetering
<1>1. a = ByJoined(copies, q.currency)
  BY DEF Unassigned
<1>2. ASSUME NEW r \in R
      PROVE  /\ count(r) > 0 <=> \A p \in Matching(r) : ProjectOf[p].status # "active"
             /\ count(r) > 0 => count(r) = 1
  <2>1. CASE Matching(r) = {}
    BY <2>1
  <2>2. CASE Matching(r) # {}
    <3> DEFINE M == Matching(r)
               N == {p \in M : ProjectOf[p].status # "active"}
    <3>1. IsFiniteSet(M) /\ Cardinality(M) = 1
      <4>1. M \in SUBSET Projects
        BY DEF Matching
      <4>2. IsFiniteSet(M)
        BY <4>1, FS_Subset, ReportsAssumption
      <4>3. Copies(r) = Cardinality(M)
        BY <2>2 DEF Copies
      <4> QED BY <4>2, <4>3
    <3>2. PICK m : M = {m}
      <4> HIDE DEF M
      <4> QED BY <3>1, FS_Singleton
    <3>3. count(r) = Cardinality(N)
      BY <2>2
    <3> HIDE DEF count
    <3>4. CASE ProjectOf[m].status # "active"
      <4>1. N = {m}
        BY <3>2, <3>4
      <4>2. Cardinality(N) = 1
        BY <4>1, FS_Singleton
      <4> QED BY <3>2, <3>3, <3>4, <4>2
    <3>5. CASE ProjectOf[m].status = "active"
      <4>1. N = {}
        BY <3>2, <3>5
      <4>2. Cardinality(N) = 0
        BY <4>1, FS_EmptySet
      <4> QED BY <3>2, <3>3, <3>5, <4>2
    <3> QED BY <3>4, <3>5
  <2> QED BY <2>1, <2>2
<1>3. D = OfMonth(P, q.month) /\ D \in SUBSET R
  <2>1. OfMonth(R, q.month) \in SUBSET R
    BY DEF OfMonth, During
  <2>2. D = {r \in OfMonth(R, q.month) : r \in P}
    <3> HIDE DEF count
    <3> QED BY <1>2, <2>1
  <2>3. {r \in OfMonth(R, q.month) : r \in P} = OfMonth(P, q.month)
    BY DEF OfMonth, During
  <2> HIDE DEF D, P
  <2> QED BY <2>1, <2>2, <2>3
<1>4. Billed(D) /\ DOMAIN copies = D /\ \A r \in D : copies[r] = 1
  <2>1. Billed(D)
    <3> HIDE DEF D
    <3> QED BY <1>3, AmountsInt
  <2>2. \A r \in D : count(r) > 0
    OBVIOUS
  <2> HIDE DEF count
  <2> QED BY <1>2, <1>3, <2>1, <2>2
<1>5. P \in SUBSET R
  OBVIOUS
<1>6. DOMAIN names = D /\ \A r \in D : names[r] = r.item.project
  OBVIOUS
<1> HIDE DEF count, D, copies, P, names
<1>7. /\ DOMAIN a = {r.item.project : r \in D}
      /\ \A g \in DOMAIN a : a[g] = Total(OfProject(D, g), q.currency)
  <2>1. Billed(DOMAIN copies) /\ \A r \in DOMAIN copies : copies[r] = 1
    BY <1>4
  <2>2. DOMAIN a = {r.item.project : r \in DOMAIN copies}
    BY <1>1, <2>1, JoinedIs
  <2>3. ASSUME NEW g \in DOMAIN a PROVE a[g] = Total(OfProject(DOMAIN copies, g), q.currency)
    <3>1. g \in DOMAIN ByJoined(copies, q.currency)
      BY <1>1
    <3>2. \A r \in DOMAIN copies : r.item.project = g => copies[r] = 1
      BY <2>1
    <3>3. ByJoined(copies, q.currency)[g] = Total(OfProject(DOMAIN copies, g), q.currency)
      BY <2>1, <3>1, <3>2, JoinedIs
    <3> QED BY <1>1, <3>3
  <2> QED BY <1>4, <2>2, <2>3
<1> DEFINE b == By(names, q.currency)
<1>8. /\ DOMAIN b = {names[r] : r \in D}
      /\ \A g \in DOMAIN b : b[g] = Total(InGroup(names, g), q.currency)
      /\ AgreesOn(SumOf(b), MonthFilter(q.month, 1), P, q.currency)
  <2>1. Billed(DOMAIN names) /\ DOMAIN names = OfMonth(P, q.month)
    BY <1>3, <1>4, <1>6
  <2>2. AgreesOn(SumOf(b), MonthFilter(q.month, 1), P, q.currency)
    BY <1>5, <2>1, MonthAgrees
  <2>3. /\ DOMAIN b = {names[r] : r \in DOMAIN names}
        /\ \A g \in DOMAIN b : b[g] = Total(InGroup(names, g), q.currency)
    BY <2>1, ByIs
  <2> QED BY <1>6, <2>2, <2>3
<1> HIDE DEF b
<1>9. DOMAIN a = DOMAIN b /\ \A g \in DOMAIN a : a[g] = b[g]
  <2>1. DOMAIN a = DOMAIN b
    BY <1>6, <1>7, <1>8
  <2>2. \A g : OfProject(D, g) = InGroup(names, g)
    BY <1>6 DEF OfProject, InGroup, Part
  <2> QED BY <1>7, <1>8, <2>1, <2>2
<1>10. IsFiniteSet(DOMAIN a)
  <2>1. IsFiniteSet({names[r] : r \in DOMAIN names})
    BY <1>4, <1>6, ImageFinite DEF Billed
  <2> QED BY <1>6, <1>8, <1>9, <2>1
<1>11. Sum(a, DOMAIN a) = Sum(b, DOMAIN a)
  BY <1>9, <1>10, SumSame
<1> QED BY <1>8, <1>9, <1>11, SumOfIs

-----------------------------------------------------------------------------
(* The cache: what it holds was computed, of some billing, for a scope that   *)
(* its key names.                                                             *)

\* What the cache holds is what its query answered its scope over some billing.
CacheInv ==
  \A key \in DOMAIN cache :
    /\ key = <<key[1], key[2]>> /\ key[1] \in Questions
    /\ cache[key].answer \in Computed(key[1], key[2], cache[key].of)
    /\ Billed(cache[key].of)

\* So are the rows.
LEMMA RowsBilled == ASSUME RowsInv PROVE Billed(rows)
<1>1. IsFiniteSet(rows)
  BY RowsSortable DEF Sortable
<1>2. \A r \in rows : Whole(r.bill) /\ r.item.day \in Nat
  BY RowIs, ReportsAssumption DEF Whole
<1> QED BY <1>1, <1>2 DEF Billed

\* An answer is kept under its own key.
LEMMA AskCache ==
  ASSUME RowsInv, CacheInv, NEW p, NEW q \in Questions, Ask(p, q)
  PROVE  CacheInv'
<1> DEFINE k == <<q, ScopeOf(p)>>
<1>1. PICK a \in Computed(q, ScopeOf(p), rows) :
        cache' = [key \in DOMAIN cache \cup {k} |-> IF key = k THEN [answer |-> a, of |-> rows] ELSE cache[key]]
  BY DEF Ask, CacheKey
<1> DEFINE e == [answer |-> a, of |-> rows]
<1>2. /\ DOMAIN cache' = {k} \cup DOMAIN cache /\ cache'[k] = e
      /\ \A key \in DOMAIN cache : key # k => cache'[key] = cache[key]
  BY <1>1
<1>3. Billed(rows)
  BY RowsBilled
<1>4. e.answer = a /\ e.of = rows
  OBVIOUS
<1>5. k = <<k[1], k[2]>> /\ k[1] = q /\ k[2] = ScopeOf(p)
  OBVIOUS
<1> HIDE DEF k, e
<1>6. ASSUME NEW key \in DOMAIN cache'
      PROVE  /\ key = <<key[1], key[2]>> /\ key[1] \in Questions
             /\ cache'[key].answer \in Computed(key[1], key[2], cache'[key].of)
             /\ Billed(cache'[key].of)
  <2>1. CASE key = k
    <3>1. cache'[key].answer = a /\ cache'[key].of = rows /\ key[1] = q /\ key[2] = ScopeOf(p)
      BY <1>2, <1>4, <1>5, <2>1
    <3> QED BY <1>1, <1>3, <1>5, <2>1, <3>1
  <2>2. CASE key # k
    <3>1. key \in DOMAIN cache /\ cache'[key] = cache[key]
      BY <1>2, <2>2
    <3> QED BY <3>1 DEF CacheInv
  <2> QED BY <2>1, <2>2
<1> QED BY <1>6 DEF CacheInv

\* Every step keeps the cache right.
LEMMA CacheStep == RowsInv /\ CacheInv /\ [Next]_vars => CacheInv'
<1> SUFFICES ASSUME RowsInv, CacheInv, [Next]_vars PROVE CacheInv'
  OBVIOUS
<1>1. ASSUME UNCHANGED cache PROVE CacheInv'
  BY <1>1 DEF CacheInv
<1>2. CASE UNCHANGED vars
  BY <1>1, <1>2 DEF vars, reportVars
<1>3. CASE AccessNext /\ UNCHANGED reportVars
  BY <1>1, <1>3 DEF reportVars
<1>4. ASSUME NEW p \in Principals, NEW q \in Questions, Ask(p, q) PROVE CacheInv'
  BY <1>4, AskCache
<1>5. ASSUME NEW p \in Principals, NEW f \in Filters, BillingExport(p, f) \/ MeteringExport(p, f) PROVE CacheInv'
  BY <1>1, <1>5 DEF BillingExport, MeteringExport, Opening
<1>6. ASSUME NEW key \in DOMAIN cache, CacheExpires(key) PROVE CacheInv'
  <2>1. /\ DOMAIN cache' = DOMAIN cache \ {key}
        /\ \A k \in DOMAIN cache' : cache'[k] = cache[k]
    BY <1>6 DEF CacheExpires, Restrict
  <2> QED BY <2>1 DEF CacheInv
<1>7. CASE ExportPage
  BY <1>1, <1>7 DEF ExportPage
<1>8. ASSUME NEW s \in Sources, NEW bill \in Bills, NEW replace \in BOOLEAN,
             NEW items \in SUBSET {i \in Items : i.source = s}, Sync(s, items, bill, replace)
      PROVE  CacheInv'
  BY <1>1, <1>8 DEF Sync
<1> QED BY <1>2, <1>3, <1>4, <1>5, <1>6, <1>7, <1>8 DEF Next

\* What a query answers, metering says too.
LEMMA ComputedAgrees ==
  ASSUME NEW q \in Questions, NEW scope, NEW R, Billed(R), NEW a \in Computed(q, scope, R), DOMAIN a # {}
  PROVE  AgreesWithMetering(q, a, Within(R, scope))
<1> DEFINE mine == Within(R, scope)
<1>1. Billed(mine)
  <2>1. mine \in SUBSET R
    BY DEF Within
  <2> HIDE DEF mine
  <2> QED BY <2>1, AmountsInt
<1>2. (q.fn # "top_growth" => q.month \in Nat) /\ (q.fn = "trend" => q.to \in Nat)
  BY ReportsAssumption
<1>3. scope # {} \/ q.fn = "overview"
  <2>1. CASE scope = {} /\ q.fn # "overview"
    <3>1. Computed(q, scope, R) = {Nothing}
      BY <2>1 DEF Computed
    <3>2. DOMAIN Nothing = {}
      BY DEF Nothing
    <3> QED BY <3>1, <3>2
  <2> QED BY <2>1
<1>4. /\ q.fn = "overview" => a \in Overview(q, mine, scope)
      /\ q.fn = "trend" => a \in Trend(q, mine)
      /\ q.fn = "by_provider" => a \in ByProvider(q, mine)
      /\ q.fn = "by_category" => a \in ByCategory(q, mine)
      /\ q.fn = "by_project" => a \in ByProject(q, mine)
      /\ q.fn = "by_service" => a \in ByService(q, mine)
      /\ q.fn = "by_region" => a \in ByRegion(q, mine)
      /\ q.fn = "unassigned" => a \in Unassigned(q, mine)
  BY <1>3 DEF Computed
<1> HIDE DEF mine
<1>5. CASE q.fn = "overview"
  BY <1>1, <1>2, <1>4, <1>5, OverviewAgrees DEF mine
<1>6. CASE q.fn = "trend"
  BY <1>1, <1>2, <1>4, <1>6, TrendAgrees DEF mine
<1>7. CASE q.fn = "by_provider"
  BY <1>1, <1>2, <1>4, <1>7, ByProviderAgrees DEF mine
<1>8. CASE q.fn = "by_category"
  BY <1>1, <1>2, <1>4, <1>8, ByCategoryAgrees DEF mine
<1>9. CASE q.fn = "by_project"
  BY <1>1, <1>2, <1>4, <1>9, ByProjectAgrees DEF mine
<1>10. CASE q.fn = "by_service"
  BY <1>1, <1>2, <1>4, <1>10, ByServiceAgrees DEF mine
<1>11. CASE q.fn = "by_region"
  BY <1>1, <1>2, <1>4, <1>11, ByRegionAgrees DEF mine
<1>12. CASE q.fn = "unassigned"
  BY <1>1, <1>2, <1>4, <1>12, UnassignedAgrees DEF mine
<1>13. CASE /\ q.fn # "overview" /\ q.fn # "trend" /\ q.fn # "by_provider" /\ q.fn # "by_category"
            /\ q.fn # "by_project" /\ q.fn # "by_service" /\ q.fn # "by_region" /\ q.fn # "unassigned"
  BY <1>13 DEF AgreesWithMetering
<1> QED BY <1>5, <1>6, <1>7, <1>8, <1>9, <1>10, <1>11, <1>12, <1>13

\* The cache answers what metering says.
LEMMA CacheAgrees == CacheInv => DashboardAgrees
<1> SUFFICES ASSUME CacheInv, NEW scope, NEW q \in Questions, Hit(q, scope)
             PROVE  AgreesWithMetering(q, cache[CacheKey(q, scope)].answer, Within(cache[CacheKey(q, scope)].of, scope))
  BY DEF DashboardAgrees
<1> DEFINE key == CacheKey(q, scope)
<1>1. key \in DOMAIN cache /\ DOMAIN cache[key].answer # {} /\ key[1] = q /\ key[2] = scope
  BY DEF Hit, CacheKey
<1>2. cache[key].answer \in Computed(q, scope, cache[key].of) /\ Billed(cache[key].of)
  BY <1>1 DEF CacheInv
<1> HIDE DEF key
<1>3. AgreesWithMetering(q, cache[key].answer, Within(cache[key].of, scope))
  BY <1>1, <1>2, ComputedAgrees
<1> QED BY <1>3 DEF key

-----------------------------------------------------------------------------
(* What an account's sheet and the lists of the accounts show.                *)

\* As many different members of a set as it has are all of it.
LEMMA AllOfThem ==
  ASSUME NEW S, IsFiniteSet(S), NEW n, n = Cardinality(S), NEW q \in [1..n -> S],
         \A i, j \in 1..n : q[i] = q[j] => i = j
  PROVE  n \in Nat /\ Len(q) = n /\ Range(q) = S
<1>1. n \in Nat
  BY FS_CardinalityType
<1>2. Len(q) = n
  BY <1>1
<1>3. IsFiniteSet(1..n) /\ Cardinality(1..n) = n
  <2>1. 1 \in Int /\ n \in Int /\ (1 > n <=> n = 0) /\ n - 1 + 1 = n
    BY <1>1
  <2> QED BY <2>1, FS_Interval
<1>4. q \in Injection(1..n, S)
  BY DEF Injection, IsInjective
<1>5. q \in Surjection(1..n, S)
  BY <1>3, <1>4, FS_Injection
<1>6. Range(q) = S
  BY <1>5 DEF Surjection, Range
<1> QED BY <1>1, <1>2, <1>6

\* Rows can be written down by their days.
LEMMA SheetExists ==
  ASSUME NEW S, Sortable(S)
  PROVE  LET n == Cardinality(S)
         IN  \E q \in [1..n -> S] : /\ \A i, j \in 1..n : q[i] = q[j] => i = j
                                    /\ \A i, j \in 1..n : i < j => q[i].item.day <= q[j].item.day
<1> DEFINE n == Cardinality(S)
           down == TRUE
           o == Ordered(S, down)
           q == [i \in 1..n |-> o[n + 1 - i]]
<1>1. down \in BOOLEAN
  OBVIOUS
<1> HIDE DEF down
<1>2. /\ n \in Nat /\ o \in [1..n -> S]
      /\ \A i, j \in 1..n : i < j => Above(o[i], o[j], down) /\ o[i] # o[j]
  BY <1>1, OrderedSorts
<1> HIDE DEF o, n
<1>3. \A i \in 1..n : n + 1 - i \in 1..n /\ q[i] = o[n + 1 - i]
  BY <1>2
<1>4. q \in [1..n -> S]
  BY <1>2, <1>3
<1> HIDE DEF q
<1>5. ASSUME NEW i \in 1..n, NEW j \in 1..n, i < j PROVE q[i] # q[j] /\ q[i].item.day <= q[j].item.day
  <2>1. n + 1 - j < n + 1 - i
    BY <1>2, <1>5
  <2>2. Above(q[j], q[i], down) /\ q[j] # q[i]
    BY <1>2, <1>3, <2>1
  <2>3. q[i].item.day \in Nat /\ q[j].item.day \in Nat
    BY <1>4 DEF Sortable
  <2> QED BY <2>2, <2>3 DEF Above
<1>6. ASSUME NEW i \in 1..n, NEW j \in 1..n, q[i] = q[j] PROVE i = j
  BY <1>2, <1>5, <1>6
<1> QED BY <1>4, <1>5, <1>6 DEF n

\* The sheet has each row of an account once.
LEMMA SheetIs ==
  ASSUME RowsInv, NEW p, NEW first, NEW last
  PROVE  LET mine == {r \in During(rows, first, last + 1) :
                        AccountMatches(p, r) /\ ProviderOfSource(r.item.source) = ProjectOf[p].provider}
             q == AccountSheet(p, first, last, rows)
         IN  Range(q) = mine /\ Len(q) = Cardinality(mine)
<1> DEFINE mine == {r \in During(rows, first, last + 1) :
                      AccountMatches(p, r) /\ ProviderOfSource(r.item.source) = ProjectOf[p].provider}
           n == Cardinality(mine)
           q == AccountSheet(p, first, last, rows)
           Good(x) == IsInjective(x) /\ \A i, j \in DOMAIN x : i < j => x[i].item.day <= x[j].item.day
<1>1. mine \in SUBSET rows
  BY DEF During
<1>2. q = CHOOSE x \in [1..n -> mine] : Good(x)
  BY DEF AccountSheet
<1> HIDE DEF mine, q
<1>3. Sortable(mine)
  BY <1>1, RowsSortable
<1>4. PICK x \in [1..n -> mine] : /\ \A i, j \in 1..n : x[i] = x[j] => i = j
                                  /\ \A i, j \in 1..n : i < j => x[i].item.day <= x[j].item.day
  BY <1>3, SheetExists
<1>5. Good(x)
  BY <1>4 DEF IsInjective
<1> HIDE DEF Good, n
<1>6. q \in [1..n -> mine] /\ Good(q)
  BY <1>2, <1>5
<1>7. \A i, j \in 1..n : q[i] = q[j] => i = j
  BY <1>6 DEF Good, IsInjective
<1>8. IsFiniteSet(mine) /\ n = Cardinality(mine)
  BY <1>3 DEF Sortable, n
<1>9. Len(q) = n /\ Range(q) = mine
  BY <1>6, <1>7, <1>8, AllOfThem
<1> QED BY <1>9 DEF n, q, mine

\* Three queries ask for the same rows, a fourth for those of them without blanks.
LEMMA AccountsFollow == RowsInv => AccountsAgree
<1> SUFFICES ASSUME RowsInv, NEW f \in Filters, f.accounts = {},
                    NEW p \in DOMAIN DailyReport(f.first, f.last, f.provider, rows)
             PROVE  LET report == DailyReport(f.first, f.last, f.provider, rows)
                        costs == AccountCosts(p, f.first, f.last, rows)
                        sheet == AccountSheet(p, f.first, f.last, rows)
                    IN  /\ costs = report[p] /\ costs = Range(sheet) /\ Len(sheet) = Cardinality(costs)
                        /\ Selected([f EXCEPT !.accounts = {p}], rows)
                             = {r \in costs : Trimmed[r.item.project] = r.item.project}
  BY DEF AccountsAgree
<1> DEFINE report == DailyReport(f.first, f.last, f.provider, rows)
           costs == AccountCosts(p, f.first, f.last, rows)
           sheet == AccountSheet(p, f.first, f.last, rows)
           g == [f EXCEPT !.accounts = {p}]
           D == During(rows, f.first, f.last + 1)
           mine == {r \in D : AccountMatches(p, r) /\ ProviderOfSource(r.item.source) = ProjectOf[p].provider}
<1>1. p \in Projects /\ f.provider \in {None, ProjectOf[p].provider} /\ report[p] = mine
  <2>1. p \in {a \in Projects : f.provider \in {None, ProjectOf[a].provider}}
    BY DEF DailyReport
  <2>2. report[p] = {r \in D : AccountMatches(p, r) /\ ProjectOf[p].provider = ProviderOfSource(r.item.source)}
    BY <2>1 DEF DailyReport
  <2> HIDE DEF report, D
  <2> QED BY <2>1, <2>2
<1>2. costs = mine
  <2>1. \A r : AccountMatches(p, r) <=> /\ Trimmed[r.item.project] = Trimmed[ProjectOf[p].ext]
                                        /\ ProjectOf[p].source # None => r.item.source = ProjectOf[p].source
    BY DEF AccountMatches, SameSource
  <2> HIDE DEF D
  <2>2. costs = {r \in D : /\ Trimmed[r.item.project] = Trimmed[ProjectOf[p].ext]
                           /\ ProviderOfSource(r.item.source) = ProjectOf[p].provider
                           /\ ProjectOf[p].source # None => r.item.source = ProjectOf[p].source}
    BY DEF AccountCosts, D
  <2> QED BY <2>1, <2>2
<1>3. Selected(g, rows) = {r \in mine : Trimmed[r.item.project] = r.item.project}
  <2>1. g.first = f.first /\ g.last = f.last /\ g.provider = f.provider /\ g.accounts = {p}
    <3>1. f = [first |-> f.first, last |-> f.last, provider |-> f.provider, accounts |-> f.accounts]
      BY ReportsAssumption
    <3> QED BY <3>1
  <2> HIDE DEF g, D
  <2>2. ASSUME NEW r PROVE Times(g, r) > 0 <=> MeteredMatches(p, r) /\ ProjectOf[p].provider = ProviderOfSource(r.item.source)
    <3> DEFINE P == {x \in {p} : MeteredMatches(x, r) /\ ProjectOf[x].provider = ProviderOfSource(r.item.source)}
    <3>1. Times(g, r) = Cardinality(P)
      BY <2>1 DEF Times
    <3>2. CASE MeteredMatches(p, r) /\ ProjectOf[p].provider = ProviderOfSource(r.item.source)
      <4>1. P = {p}
        BY <3>2
      <4>2. Cardinality({p}) = 1
        BY FS_Singleton
      <4> QED BY <3>1, <3>2, <4>1, <4>2
    <3>3. CASE ~ (MeteredMatches(p, r) /\ ProjectOf[p].provider = ProviderOfSource(r.item.source))
      <4>1. P = {}
        BY <3>3
      <4>2. Cardinality({}) = 0
        BY FS_EmptySet
      <4> HIDE DEF P
      <4> QED BY <3>1, <3>3, <4>1, <4>2
    <3> QED BY <3>2, <3>3
  <2>3. ASSUME NEW r \in rows PROVE r.item.day \in g.first..g.last <=> r \in D
    <3>1. r.item.day \in Nat /\ f.first \in Nat /\ f.last \in Nat
      BY RowIs, ReportsAssumption
    <3> QED BY <2>1, <3>1 DEF D, During
  <2>4. D \in SUBSET rows
    BY DEF D, During
  <2>5. ASSUME NEW r
        PROVE  MeteredMatches(p, r) <=> AccountMatches(p, r) /\ Trimmed[r.item.project] = r.item.project
    BY <1>1, ReportsAssumption DEF MeteredMatches, AccountMatches
  <2>6. Selected(g, rows)
          = {r \in D : MeteredMatches(p, r) /\ ProviderOfSource(r.item.source) = ProjectOf[p].provider}
    BY <1>1, <2>1, <2>2, <2>3, <2>4, SelectedIs DEF Meets
  <2> QED BY <2>5, <2>6
<1>4. Range(sheet) = mine /\ Len(sheet) = Cardinality(mine)
  BY SheetIs
<1> HIDE DEF report, costs, sheet, g, D, mine
<1> QED BY <1>1, <1>2, <1>3, <1>4 DEF report, costs, sheet, g

\* One failed source for each account that has one.
LEMMA FailedOnce ==
  ASSUME NEW mine, IsFiniteSet(mine)
  PROVE  Cardinality({x \in mine \X Failed : ProjectOf[x[1]].source = x[2]}) = Cardinality({a \in mine : ShowsError(a)})
<1> DEFINE S == {a \in mine : ShowsError(a)}
           T == {x \in mine \X Failed : ProjectOf[x[1]].source = x[2]}
           h == [a \in S |-> <<a, ProjectOf[a].source>>]
<1>1. \A a \in S : a \in mine /\ ProjectOf[a].source \in Failed
  BY DEF ShowsError
<1>2. h \in [S -> T]
  BY <1>1
<1>3. \A x \in T : x[1] \in S /\ h[x[1]] = x
  BY DEF ShowsError
<1>4. h \in Bijection(S, T)
  <2>1. \A a, b \in S : h[a] = h[b] => a = b
    OBVIOUS
  <2> HIDE DEF h, S, T
  <2> QED BY <1>2, <1>3, <2>1 DEF Bijection, Injection, Surjection, IsInjective
<1>5. IsFiniteSet(S)
  BY FS_Subset
<1>6. ExistsBijection(S, T)
  <2> HIDE DEF h, S, T
  <2> QED BY <1>4 DEF ExistsBijection
<1> HIDE DEF S, T
<1>7. Cardinality(T) = Cardinality(S)
  BY <1>5, <1>6, FS_Bijection
<1> QED BY <1>7 DEF S, T

\* Three handlers count the same accounts.
LEMMA ListsFollow == ListsAgree
<1> SUFFICES ASSUME NEW p \in Principals, CloudRole(p)
             PROVE  LET summary == Summary(p)
                        active == Cardinality(Listed(p, None, "active"))
                    IN  /\ summary.total = Cardinality(Listed(p, None, None))
                        /\ \A s \in DOMAIN summary.status_counts :
                             summary.status_counts[s] = Cardinality(Listed(p, None, s))
                        /\ summary.failed = Cardinality({a \in Listed(p, None, None) : ShowsError(a)})
                        /\ ActiveProjects(ScopeOf(p)) <= active
                        /\ (/\ p.accounts = Unrestricted
                            /\ \A a \in Projects : \E s \in Sources : ProviderOfSource(s) = ProjectOf[a].provider)
                           => ActiveProjects(ScopeOf(p)) = active
  BY DEF ListsAgree
<1> DEFINE mine == {a \in Projects : ProviderVisible(p, ProjectOf[a].provider)}
           counts == [s \in {ProjectOf[a].status : a \in mine} |-> Cardinality({a \in mine : ProjectOf[a].status = s})]
           failed == Cardinality({x \in mine \X Failed : ProjectOf[x[1]].source = x[2]})
           mark == {a \in mine : ProjectOf[a].status = "active"}
           scope == ScopeOf(p)
           seen == {a \in Projects : /\ ProjectOf[a].status = "active"
                                     /\ scope = All \/ \E s \in scope : ProviderOfSource(s) = ProjectOf[a].provider}
<1>1. Summary(p).total = Cardinality(mine) /\ Summary(p).status_counts = counts /\ Summary(p).failed = failed
  BY DEF Summary
<1>2. Listed(p, None, None) = mine
  BY DEF Listed
<1>3. \A s : s # None => Listed(p, None, s) = {a \in mine : ProjectOf[a].status = s}
  BY DEF Listed
<1>4. IsFiniteSet(mine) /\ IsFiniteSet(Projects) /\ \A a \in mine : ProjectOf[a].status # None
  BY FS_Subset, ReportsAssumption
<1>5. Summary(p).total = Cardinality(Listed(p, None, None))
  BY <1>1, <1>2
<1>6. ASSUME NEW s \in DOMAIN Summary(p).status_counts
      PROVE  Summary(p).status_counts[s] = Cardinality(Listed(p, None, s))
  <2>1. s \in {ProjectOf[a].status : a \in mine} /\ Summary(p).status_counts[s] = Cardinality({a \in mine : ProjectOf[a].status = s})
    BY <1>1
  <2>2. s # None
    BY <1>4, <2>1
  <2> HIDE DEF mine
  <2> QED BY <1>3, <2>1, <2>2
<1>7. Summary(p).failed = Cardinality({a \in Listed(p, None, None) : ShowsError(a)})
  <2> HIDE DEF mine
  <2>1. failed = Cardinality({a \in mine : ShowsError(a)})
    BY <1>4, FailedOnce
  <2> HIDE DEF failed
  <2> QED BY <1>1, <1>2, <2>1
<1>8. Listed(p, None, "active") = mark /\ ActiveProjects(scope) = Cardinality(seen)
  BY <1>3, ReportsAssumption DEF ActiveProjects
<1>9. All \notin SUBSET Sources /\ DOMAIN AccountOf = Sources /\ \A s \in Sources : AccountOf[s] \in DOMAIN ProviderOf
  BY ReportsAssumption DEF All
<1>10. scope = All => FullAccess(p)
  <2>1. VisibleSources(p, ProviderOf, AccountOf) \in SUBSET Sources
    BY <1>9 DEF VisibleSources
  <2> QED BY <1>9, <2>1 DEF ScopeOf
<1>11. ASSUME scope # All, NEW s \in scope PROVE ProviderVisible(p, ProviderOfSource(s))
  <2>1. s \in VisibleSources(p, ProviderOf, AccountOf)
    BY <1>11 DEF ScopeOf
  <2> QED BY <2>1 DEF VisibleSources, VisibleAccounts, ProviderVisible, ProviderOfSource
<1>12. seen \subseteq mark
  <2>1. ASSUME NEW a \in seen PROVE a \in mark
    <3>1. CASE scope = All
      BY <1>10, <3>1 DEF ProviderVisible
    <3>2. CASE scope # All
      <4>1. PICK s \in scope : ProviderOfSource(s) = ProjectOf[a].provider
        BY <3>2
      <4>2. ProviderVisible(p, ProjectOf[a].provider)
        BY <1>11, <3>2, <4>1
      <4> QED BY <4>2
    <3> QED BY <3>1, <3>2
  <2> QED BY <2>1
<1>13. ASSUME p.accounts = Unrestricted,
              \A a \in Projects : \E s \in Sources : ProviderOfSource(s) = ProjectOf[a].provider
       PROVE  mark \subseteq seen
  <2>1. ASSUME NEW a \in mark PROVE a \in seen
    <3>1. CASE FullAccess(p)
      BY <1>13, <3>1 DEF ScopeOf
    <3>2. CASE ~ FullAccess(p)
      <4>1. PICK s \in Sources : ProviderOfSource(s) = ProjectOf[a].provider
        BY <1>13
      <4>2. ProjectOf[a].provider \in ProvidersOf(p)
        BY <3>2 DEF ProviderVisible
      <4>3. s \in scope
        BY <1>9, <1>13, <3>2, <4>1, <4>2 DEF ScopeOf, VisibleSources, VisibleAccounts, ProviderOfSource
      <4> QED BY <4>1, <4>3
    <3> QED BY <3>1, <3>2
  <2> QED BY <2>1
<1>14. IsFiniteSet(mark)
  BY <1>4, FS_Subset
<1>15. Cardinality(seen) <= Cardinality(mark)
  <2> HIDE DEF seen, mark
  <2> QED BY <1>12, <1>14, FS_Subset
<1>16. ASSUME p.accounts = Unrestricted,
              \A a \in Projects : \E s \in Sources : ProviderOfSource(s) = ProjectOf[a].provider
       PROVE  Cardinality(seen) = Cardinality(mark)
  BY <1>12, <1>13, <1>16
<1> HIDE DEF mine, seen, mark, counts, failed
<1> QED BY <1>5, <1>6, <1>7, <1>8, <1>15, <1>16

-----------------------------------------------------------------------------
(* The details, a page at a time: as many lines as metering counts, and the   *)
(* cost that it gives.                                                        *)

\* The numbers up to some are as many.
LEMMA UpTo == ASSUME NEW n \in Nat PROVE IsFiniteSet(1..n) /\ Cardinality(1..n) = n
<1>1. 1 \in Int /\ n \in Int /\ (1 > n <=> n = 0) /\ n - 1 + 1 = n
  OBVIOUS
<1> QED BY <1>1, FS_Interval

\* What the members of a sequence bring, and what those of a set bring, each k times.
Along(w, c) == [i \in DOMAIN w |-> c[w[i]]]
Weighed(S, k, c) == [r \in S |-> k[r] * c[r]]

\* A sequence that has each member of a set k times is as long as all k, and adds up what each
\* brings as often.
LEMMA CountedIs ==
  ASSUME NEW S, IsFiniteSet(S), NEW w \in Seq(S), NEW k, NEW c, \A r \in S : c[r] \in Int,
         \A r \in S : Cardinality(At(w, r)) = k[r]
  PROVE  /\ Len(w) = Sum(k, S)
         /\ Sum(Along(w, c), DOMAIN w) = Sum(Weighed(S, k, c), S)
<1> DEFINE D == DOMAIN w
<1>1. Len(w) \in Nat /\ D = 1..Len(w) /\ \A i \in D : w[i] \in S
  OBVIOUS
<1> HIDE DEF D
<1>2. IsFiniteSet(D) /\ Cardinality(D) = Len(w)
  BY <1>1, UpTo
<1>3. \A r : At(w, r) = Part(w, D, r) /\ IsFiniteSet(At(w, r))
  BY <1>2, FS_Subset DEF At, D, Part
<1>4. Parts(w, D, S) = D
  BY <1>1 DEF Parts
<1>5. ASSUME NEW f, NEW h, NEW v, \A r \in S : v[r] \in Int, \A i \in D : f[i] = v[w[i]], \A r \in S : h[r] = k[r] * v[r]
      PROVE  Sum(f, D) = Sum(h, S)
  <2>1. ASSUME NEW r \in S PROVE h[r] = Sum(f, Part(w, D, r))
    <3>1. \A i \in At(w, r) : f[i] = v[r]
      BY <1>3, <1>5 DEF Part
    <3>2. Sum(f, At(w, r)) = Cardinality(At(w, r)) * v[r]
      BY <1>3, <1>5, <3>1, SumConst
    <3> QED BY <1>3, <1>5, <3>2
  <2>2. \A i \in D : f[i] \in Int
    BY <1>1, <1>5
  <2>3. Sum(h, S) = Sum(f, Parts(w, D, S))
    <3>1. \A r \in S : h[r] = Sum(f, Part(w, D, r))
      BY <2>1
    <3> QED BY <1>2, <2>2, <3>1, SumGroups
  <2> QED BY <1>4, <2>3
<1>6. Len(w) = Sum(k, S)
  <2> DEFINE f == [i \in D |-> 1]
             v == [r \in S |-> 1]
             h == [r \in S |-> k[r] * 1]
  <2>1. Sum(f, D) = Sum(h, S)
    <3>1. (\A r \in S : v[r] \in Int) /\ (\A i \in D : f[i] = v[w[i]]) /\ \A r \in S : h[r] = k[r] * v[r]
      BY <1>1
    <3> HIDE DEF f, v, h
    <3> QED BY <1>5, <3>1
  <2>2. Sum(f, D) = Cardinality(D) * 1
    <3>1. \A i \in D : f[i] = 1
      OBVIOUS
    <3> HIDE DEF f
    <3> QED BY <1>2, <3>1, SumConst
  <2>3. \A r \in S : h[r] = k[r]
    <3>1. \A r \in S : k[r] \in Nat
      BY <1>3, FS_CardinalityType
    <3>2. \A r \in S : k[r] * 1 = k[r]
      BY <3>1
    <3> QED BY <3>2
  <2> HIDE DEF f, h
  <2>4. Sum(h, S) = Sum(k, S)
    BY <2>3, SumSame
  <2>5. Cardinality(D) * 1 = Len(w)
    BY <1>1, <1>2
  <2> QED BY <2>1, <2>2, <2>4, <2>5
<1>7. Sum([i \in D |-> c[w[i]]], D) = Sum([r \in S |-> k[r] * c[r]], S)
  <2> DEFINE f == [i \in D |-> c[w[i]]]
             h == [r \in S |-> k[r] * c[r]]
  <2>1. (\A i \in D : f[i] = c[w[i]]) /\ \A r \in S : h[r] = k[r] * c[r]
    OBVIOUS
  <2> HIDE DEF f, h
  <2>2. Sum(f, D) = Sum(h, S)
    BY <1>5, <2>1
  <2> QED BY <2>2 DEF f, h
<1> QED BY <1>6, <1>7 DEF D, Along, Weighed

\* A part of a sequence and the next are a longer part.
LEMMA NextPart ==
  ASSUME NEW S, NEW w \in Seq(S), NEW a \in Nat, NEW b \in Nat, a <= b, b <= Len(w)
  PROVE  SubSeq(w, 1, a) \o SubSeq(w, a + 1, b) = SubSeq(w, 1, b)
<1> DEFINE x == SubSeq(w, 1, a)
           y == SubSeq(w, a + 1, b)
           z == SubSeq(w, 1, b)
<1>0. Len(w) \in Nat /\ DOMAIN w = 1..Len(w) /\ \A i \in 1..Len(w) : w[i] \in S
  OBVIOUS
<1>1. x \in Seq(S) /\ Len(x) = a /\ \A i \in 1..a : x[i] = w[i]
  BY <1>0
<1>2. y \in Seq(S) /\ Len(y) = b - a /\ \A i \in 1..(b - a) : y[i] = w[a + i]
  BY <1>0
<1>3. z \in Seq(S) /\ Len(z) = b /\ \A i \in 1..b : z[i] = w[i]
  BY <1>0
<1> HIDE DEF x, y, z
<1>4. x \o y \in Seq(S) /\ Len(x \o y) = b
  <2>1. x \in Seq(S) /\ y \in Seq(S) /\ Len(x) = a /\ Len(y) = b - a
    BY <1>1, <1>2
  <2>2. x \o y \in Seq(S) /\ Len(x \o y) = Len(x) + Len(y)
    BY <2>1
  <2> QED BY <2>1, <2>2
<1>5. ASSUME NEW i \in 1..b PROVE (x \o y)[i] = z[i]
  <2>1. CASE i <= a
    <3>1. (x \o y)[i] = x[i]
      BY <1>1, <1>2, <2>1
    <3> QED BY <1>1, <1>3, <2>1, <3>1
  <2>2. CASE ~ (i <= a)
    <3>1. (x \o y)[i] = y[i - a] /\ i - a \in 1..(b - a)
      BY <1>1, <1>2, <2>2
    <3>2. a + (i - a) = i
      OBVIOUS
    <3> QED BY <1>2, <1>3, <3>1, <3>2
  <2> QED BY <2>1, <2>2
<1>6. x \o y = z
  BY <1>3, <1>4, <1>5
<1> QED BY <1>6 DEF x, y, z

\* All the pages of a sequence, of two each, one after the other.
Pages(w) == FlattenSeq([n \in 1..((Len(w) + 1) \div 2) |-> Piece(w, (n - 1) * 2, 2)])

\* Who turns all the pages has seen it all.
LEMMA PagesAre ==
  ASSUME NEW S, NEW w \in Seq(S)
  PROVE  Pages(w) = w
<1> DEFINE N == Len(w)
           P == (N + 1) \div 2
           to(n) == IF N < 2 * n THEN N ELSE 2 * n
           piece(n) == Piece(w, (n - 1) * 2, 2)
           q == [n \in 1..P |-> piece(n)]
<1>1. N \in Nat /\ P \in Nat /\ 2 * P >= N /\ 2 * P <= N + 1
  OBVIOUS
<1>2. Pages(w) = FlattenSeq(q)
  BY DEF Pages
<1>3. SubSeq(w, 1, N) = w
  OBVIOUS
<1> HIDE DEF N, P
<1>4. Len(q) = P
  <2> HIDE DEF piece
  <2> QED BY <1>1
<1>5. ASSUME NEW n \in 1..P
      PROVE  /\ piece(n) = SubSeq(w, 2 * (n - 1) + 1, to(n)) /\ to(n) \in Nat /\ 2 * (n - 1) \in Nat
             /\ 2 * (n - 1) <= to(n) /\ to(n) <= N
  <2>1. 2 * (n - 1) \in Nat /\ (n - 1) * 2 = 2 * (n - 1) /\ (n - 1) * 2 + 2 = 2 * n /\ 2 * (n - 1) < N
    BY <1>1
  <2>2. piece(n) = SubSeq(w, (n - 1) * 2 + 1, IF N < (n - 1) * 2 + 2 THEN N ELSE (n - 1) * 2 + 2)
    BY DEF Piece, N
  <2> QED BY <1>1, <2>1, <2>2
<1>6. CASE P = 0
  <2>1. FlattenSeq(q) = q
    BY <1>4, <1>6 DEF FlattenSeq
  <2>2. q = <<>>
    BY <1>6
  <2>3. w = <<>>
    BY <1>1, <1>6 DEF N
  <2> QED BY <1>2, <2>1, <2>2, <2>3
<1>7. CASE P > 0
  <2>1. PICK g : Flattens(q, P, g) /\ FlattenSeq(q) = g[P]
    <3> HIDE DEF q
    <3> QED BY <1>1, <1>4, <1>7, FlattenIs
  <2>2. \A i \in 1..P : g[i] = IF i = 1 THEN piece(i) ELSE g[i - 1] \o piece(i)
    <3>1. \A i \in 1..P : q[i] = piece(i)
      OBVIOUS
    <3> HIDE DEF q, piece
    <3> QED BY <2>1, <3>1 DEF Flattens
  <2> DEFINE Bad == {m \in 1..P : g[m] # SubSeq(w, 1, to(m))}
  <2> HIDE DEF piece, q, to
  <2>3. CASE Bad = {}
    <3>1. g[P] = SubSeq(w, 1, to(P))
      BY <1>1, <1>7, <2>3
    <3>2. to(P) = N
      BY <1>1 DEF to
    <3> QED BY <1>2, <1>3, <2>1, <3>1, <3>2
  <2>4. CASE Bad # {}
    <3>1. PICK m \in Bad : \A l \in Bad : m <= l
      <4>1. Bad \in SUBSET Nat
        OBVIOUS
      <4> HIDE DEF Bad
      <4> QED BY <2>4, <4>1, Least
    <3>2. CASE m = 1
      <4>1. g[1] = piece(1) /\ piece(1) = SubSeq(w, 2 * (1 - 1) + 1, to(1))
        BY <1>5, <2>2, <3>1, <3>2
      <4>2. 2 * (1 - 1) + 1 = 1
        OBVIOUS
      <4> QED BY <3>1, <3>2, <4>1, <4>2
    <3>3. CASE m # 1
      <4>1. m - 1 \in 1..P /\ m \in 1..P /\ m - 1 \notin Bad
        <5>1. m \in 1..P
          OBVIOUS
        <5>2. m - 1 \in 1..P /\ ~ (m <= m - 1)
          BY <1>1, <3>3, <5>1
        <5> HIDE DEF Bad
        <5> QED BY <3>1, <5>1, <5>2
      <4>2. g[m - 1] = SubSeq(w, 1, to(m - 1))
        BY <4>1
      <4>3. to(m - 1) = 2 * (m - 1)
        <5>1. 2 * (m - 1) <= N /\ 2 * (m - 1) \in Nat
          BY <1>1, <1>5, <4>1
        <5> QED BY <1>1, <5>1 DEF to
      <4>4. g[m] = g[m - 1] \o piece(m)
        BY <2>2, <3>3, <4>1
      <4>5. piece(m) = SubSeq(w, 2 * (m - 1) + 1, to(m))
        BY <1>5, <4>1
      <4>6. SubSeq(w, 1, 2 * (m - 1)) \o SubSeq(w, 2 * (m - 1) + 1, to(m)) = SubSeq(w, 1, to(m))
        <5> DEFINE a == 2 * (m - 1)
                   b == to(m)
        <5>1. a \in Nat /\ b \in Nat /\ a <= b /\ b <= Len(w)
          BY <1>5, <4>1 DEF N
        <5> HIDE DEF a, b
        <5>2. SubSeq(w, 1, a) \o SubSeq(w, a + 1, b) = SubSeq(w, 1, b)
          BY <5>1, NextPart
        <5> QED BY <5>2 DEF a, b
      <4>7. g[m] = SubSeq(w, 1, to(m))
        BY <4>2, <4>3, <4>4, <4>5, <4>6
      <4> QED BY <3>1, <4>7
    <3> QED BY <3>2, <3>3
  <2> QED BY <2>3, <2>4
<1> QED BY <1>1, <1>6, <1>7

\* Counts of lines are sums.
LEMMA DetailCountIs ==
  ASSUME NEW f, NEW R
  PROVE  DetailCount(f, R) = Sum([r \in Selected(f, R) |-> Times(f, r)], Selected(f, R))
BY DEF DetailCount, MapThenSumSet, MapThenFoldSet, Adds, Pick, Sum

\* What is added up along a sequence is the sum over its places.
LEMMA FoldIs ==
  ASSUME NEW w
  PROVE  FoldSeq(LAMBDA r, sum : r.bill.cost + sum, 0, w) = Sum([i \in DOMAIN w |-> w[i].bill.cost], DOMAIN w)
BY DEF FoldSeq, FoldFunction, FoldFunctionOnSet, MapThenFoldSet, Adds, Pick, Sum

\* The lines of a filter: as many as counted, adding up to the cost.
LEMMA LinesCount ==
  ASSUME RowsInv, NEW f \in Filters, NEW down \in BOOLEAN
  PROVE  LET w == Lines(f, rows, down)
             S == Selected(f, rows)
         IN  /\ w \in Seq(S) /\ Len(w) = DetailCount(f, rows)
             /\ SelectedCost(f, rows) = Sum([i \in DOMAIN w |-> w[i].bill.cost], DOMAIN w)
             /\ \A r \in S : \E i \in DOMAIN w : w[i] = r
             /\ \A r \in S : Cardinality(At(w, r)) = Times(f, r)
<1> DEFINE w == Lines(f, rows, down)
           S == Selected(f, rows)
           k == [r \in S |-> Times(f, r)]
           c == [r \in S |-> r.bill.cost]
<1>1. Sortable(rows) /\ Billed(rows)
  BY RowsSortable, RowsBilled
<1>2. /\ w \in Seq(S)
      /\ \A r \in S : \E i \in DOMAIN w : w[i] = r
      /\ \A r \in S : Cardinality(At(w, r)) = Times(f, r)
  BY <1>1, LinesAre
<1>3. S \in SUBSET rows
  BY SelectedIs
<1>4. IsFiniteSet(S) /\ \A r \in S : c[r] \in Int
  BY <1>1, <1>3, FS_Subset DEF Billed, Whole
<1>5. DetailCount(f, rows) = Sum(k, S)
  BY DetailCountIs
<1>6. SelectedCost(f, rows) = Sum([r \in S |-> Times(f, r) * r.bill.cost], S)
  BY SelectedCostIs
<1>7. [r \in S |-> Times(f, r) * r.bill.cost] = Weighed(S, k, c)
  BY DEF Weighed
<1>8. \A r \in S : k[r] = Times(f, r) /\ c[r] = r.bill.cost
  OBVIOUS
<1> HIDE DEF w, S, k, c
<1>9. \A r \in S : Cardinality(At(w, r)) = k[r]
  BY <1>2, <1>8
<1>10. Len(w) = Sum(k, S) /\ Sum(Along(w, c), DOMAIN w) = Sum(Weighed(S, k, c), S)
  BY <1>2, <1>4, <1>9, CountedIs
<1>11. Along(w, c) = [i \in DOMAIN w |-> w[i].bill.cost]
  BY <1>2, <1>8, Element DEF Along
<1> QED BY <1>2, <1>5, <1>6, <1>7, <1>10, <1>11 DEF w, S

\* The pages of the details are the lines.
LEMMA PagesOfLines ==
  ASSUME RowsInv, NEW f \in Filters, NEW down \in BOOLEAN
  PROVE  FlattenSeq([n \in 1..((DetailCount(f, rows) + 1) \div 2) |-> Piece(Lines(f, rows, down), (n - 1) * 2, 2)])
           = Lines(f, rows, down)
<1> DEFINE w == Lines(f, rows, down)
           S == Selected(f, rows)
<1>1. w \in Seq(S) /\ Len(w) = DetailCount(f, rows)
  BY LinesCount
<1> HIDE DEF w, S
<1>2. Pages(w) = w
  BY <1>1, PagesAre
<1> QED BY <1>1, <1>2 DEF Pages, w

\* The details are the figures, row by row.
LEMMA DetailsFollow == RowsInv => DetailsAgree
<1> SUFFICES ASSUME RowsInv, NEW f \in Filters
             PROVE  LET pages == 1..((DetailCount(f, rows) + 1) \div 2)
                        shown == FlattenSeq([n \in pages |-> MeteringDetail(f, rows, n, 2)])
                        billed == FlattenSeq([n \in pages |-> BillingDetail(f, rows, n, 2)])
                    IN  /\ Len(shown) = DetailCount(f, rows)
                        /\ SelectedCost(f, rows) = FoldSeq(LAMBDA r, sum : r.bill.cost + sum, 0, shown)
                        /\ Range([i \in DOMAIN shown |-> shown[i].item.product]) \subseteq Products(f, rows)
                        /\ f.accounts = {} => Range(billed) = Range(shown) /\ IsInjective(billed)
  BY DEF DetailsAgree
<1> DEFINE pages == 1..((DetailCount(f, rows) + 1) \div 2)
           shown == FlattenSeq([n \in pages |-> MeteringDetail(f, rows, n, 2)])
           billed == FlattenSeq([n \in pages |-> BillingDetail(f, rows, n, 2)])
           down == TRUE
           up == FALSE
           S == Selected(f, rows)
<1>1. down \in BOOLEAN /\ up \in BOOLEAN
  OBVIOUS
<1>2. shown = FlattenSeq([n \in pages |-> Piece(Lines(f, rows, down), (n - 1) * 2, 2)])
  BY DEF MeteringDetail
<1>3. billed = FlattenSeq([n \in pages |-> Piece(Lines(f, rows, up), (n - 1) * 2, 2)])
  BY DEF BillingDetail
<1> HIDE DEF shown, billed, down, up
<1>4. shown = Lines(f, rows, down)
  BY <1>1, <1>2, PagesOfLines
<1>5. billed = Lines(f, rows, up)
  BY <1>1, <1>3, PagesOfLines
<1> HIDE DEF S, pages
<1>6. /\ shown \in Seq(S) /\ Len(shown) = DetailCount(f, rows)
      /\ SelectedCost(f, rows) = Sum([i \in DOMAIN shown |-> shown[i].bill.cost], DOMAIN shown)
      /\ \A r \in S : \E i \in DOMAIN shown : shown[i] = r
  BY <1>1, <1>4, LinesCount DEF S
<1>7. /\ billed \in Seq(S)
      /\ \A r \in S : \E i \in DOMAIN billed : billed[i] = r
      /\ \A r \in S : Cardinality(At(billed, r)) = Times(f, r)
  BY <1>1, <1>5, LinesCount DEF S
<1>8. SelectedCost(f, rows) = FoldSeq(LAMBDA r, sum : r.bill.cost + sum, 0, shown)
  BY <1>6, FoldIs
<1>9. Range([i \in DOMAIN shown |-> shown[i].item.product]) \subseteq Products(f, rows)
  <2>1. \A i \in DOMAIN shown : shown[i] \in Chosen(f, rows)
    BY <1>6, Element DEF S, Selected
  <2> QED BY <2>1 DEF Range, Products
<1>10. Range(shown) = S /\ Range(billed) = S
  <2>1. (\A i \in DOMAIN shown : shown[i] \in S) /\ \A i \in DOMAIN billed : billed[i] \in S
    BY <1>6, <1>7, Element
  <2> QED BY <1>6, <1>7, <2>1 DEF Range
<1>11. ASSUME f.accounts = {} PROVE IsInjective(billed)
  <2>1. ASSUME NEW i \in DOMAIN billed, NEW j \in DOMAIN billed, billed[i] = billed[j] PROVE i = j
    <3> DEFINE r == billed[i]
               A == At(billed, r)
    <3>1. r \in S /\ i \in A /\ j \in A
      BY <1>7, <2>1, Element DEF At
    <3>2. Cardinality(A) = 1
      BY <1>7, <1>11, <3>1 DEF Times
    <3>3. IsFiniteSet(A)
      <4>1. Len(billed) \in Nat /\ DOMAIN billed = 1..Len(billed)
        BY <1>7
      <4>2. A \in SUBSET (1..Len(billed)) /\ IsFiniteSet(1..Len(billed))
        BY <4>1, UpTo DEF At
      <4> HIDE DEF A
      <4> QED BY <4>2, FS_Subset
    <3>4. PICK x : A = {x}
      <4> HIDE DEF A
      <4> QED BY <3>2, <3>3, FS_Singleton
    <3> QED BY <3>1, <3>4
  <2> QED BY <2>1 DEF IsInjective
<1> HIDE DEF S
<1> QED BY <1>6, <1>8, <1>9, <1>10, <1>11 DEF shown, billed, pages

-----------------------------------------------------------------------------
(* The figures agree.                                                         *)

\* In any state the figures of one billing are the same wherever they are asked for: what an account's
\* sheet, its lists and its details show, and what the dashboard answers from its cache whoever filled
\* it, where the rows of a figure cost in the currency asked for what their invoices say. That holds
\* for any billing, currencies, blanks, callers, questions and filters, and whatever export there is.
THEOREM EveryFigureAgrees ==
  Spec => [](AccountsAgree /\ ListsAgree /\ DetailsAgree /\ DashboardAgrees)
<1> DEFINE Figures == AccountsAgree /\ ListsAgree /\ DetailsAgree /\ DashboardAgrees
<1>1. Init => BillingInv /\ CacheInv
  BY BillingStart DEF Init, CacheInv
<1>2. BillingInv /\ CacheInv => Figures
  BY AccountsFollow, ListsFollow, DetailsFollow, CacheAgrees DEF BillingInv
<1>3. BillingInv /\ CacheInv /\ [Next]_vars => BillingInv' /\ CacheInv'
  BY BillingStep, CacheStep DEF BillingInv
<1> HIDE DEF Figures
<1>4. Spec => []Figures
  BY <1>1, <1>2, <1>3, PTL DEF Spec
<1> QED BY <1>4 DEF Figures

\* What the run checks of it in each state.
THEOREM FiguresAlwaysAgree == Spec => []FiguresAgree
<1>1. AccountsAgree /\ ListsAgree /\ DetailsAgree /\ DashboardAgrees => FiguresAgree
  BY DEF FiguresAgree
<1> QED BY <1>1, EveryFigureAgrees, PTL
=============================================================================
