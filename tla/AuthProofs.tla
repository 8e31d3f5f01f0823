------------------------------- MODULE AuthProofs -------------------------------
(***************************************************************************)
(* AuthSession for any number of tokens, commands, ticks and faults: its    *)
(* types, that no login ever has two usable refresh tokens, that the app is *)
(* never taken for a thief without an excuse, and that crossed logins and   *)
(* logouts leave no usable token behind.                                    *)
(***************************************************************************)
EXTENDS AuthSession, FiniteSetTheorems, TLAPS

\* A row that was not issued is no login's, every login's number was issued, and a rotated row has
\* a successor.
IssuedInOrder == \A t \in TokenId :
    /\ t > issued => rows[t].state = "none"
    /\ rows[t].login <= issued
    /\ rows[t].state = "rotated" => rows[t].next \in TokenId

\* A refresh under way is for a token that was issued.
FlightHasToken == flight.at \in {"sent", "write"} => flight.token \in TokenId

AuthInv == AuthTypeOK /\ IssuedInOrder /\ FlightHasToken /\ OneLivePerLogin

LEMMA AuthInitially == AuthInit => AuthInv
<1> SUFFICES ASSUME AuthInit PROVE AuthInv
    OBVIOUS
<1>1. [state |-> "none", next |-> 0, login |-> 0] \in Row
    BY AuthBounds DEF Row, RowState
<1>2. NoFlight \in Flight
    BY AuthBounds DEF NoFlight, Flight
<1>3. NoCommand \in Command
    BY DEF NoCommand, Command
<1>4. Launch \in Restore
    BY DEF Launch, NoRestore, Restore
<1>5. rows \in [TokenId -> Row] /\ issued \in 0..MaxTokens
    BY <1>1, AuthBounds DEF AuthInit
<1>6. AuthTypeOK
    BY <1>2, <1>3, <1>4, <1>5 DEF AuthInit, AuthTypeOK
<1> QED
    BY <1>6, AuthBounds DEF AuthInit, AuthInv, IssuedInOrder, FlightHasToken, OneLivePerLogin, Live,
        NoFlight

\* What a step must show that issues nothing: no row comes to life, no row changes its login.
LEMMA RowsOnlyEnd ==
    ASSUME AuthInv, issued' = issued, rows' \in [TokenId -> Row],
           \A t \in TokenId : /\ rows'[t].login = rows[t].login
                              /\ \/ rows'[t].state = rows[t].state /\ rows'[t].next = rows[t].next
                                 \/ rows[t].state # "none" /\ rows'[t].state \notin {"live", "rotated"}
    PROVE  IssuedInOrder' /\ OneLivePerLogin'
BY DEF AuthInv, IssuedInOrder, OneLivePerLogin, Live

\* Issuing to a login that has no live row, or to a new one.
LEMMA Issues ==
    ASSUME AuthInv, issued < MaxTokens, issued' = issued + 1,
           NEW login \in 0..issued', rows' \in [TokenId -> Row],
           \A t \in TokenId \ {issued'} :
               /\ rows'[t].login = rows[t].login
               /\ \/ rows'[t].state = rows[t].state /\ rows'[t].next = rows[t].next
                  \/ rows[t].state # "none" /\ rows'[t].state = "rotated" /\ rows'[t].next \in TokenId,
           rows'[issued'] = Issue(login),
           \A t \in TokenId \ {issued'} : rows'[t].login = login => rows'[t].state # "live"
    PROVE  IssuedInOrder' /\ OneLivePerLogin'
<1>1. issued \in Nat /\ MaxTokens \in Nat /\ \A t \in TokenId : rows[t] \in Row
    BY AuthBounds DEF AuthInv, AuthTypeOK
<1>2. \A t \in TokenId : rows[t].login \in Nat /\ t \in Nat
    BY <1>1, AuthBounds DEF Row, TokenId
<1>0. Issue(login).login = login /\ Issue(login).state = "live"
    BY DEF Issue
<1>3. IssuedInOrder'
    BY <1>0, <1>1, <1>2, AuthBounds DEF AuthInv, IssuedInOrder, TokenId
<1>4. OneLivePerLogin'
    BY <1>0 DEF AuthInv, OneLivePerLogin, Live
<1> QED
    BY <1>3, <1>4

LEMMA RequestIsMessage ==
    ASSUME NEW kind \in {"refresh", "logout"}, NEW t \in TokenId
    PROVE  Request(kind, t) \in Message
BY DEF Request, Message

LEMMA AnswerIsMessage ==
    ASSUME NEW kind \in {"rotated", "dead"}, NEW t \in TokenId
    PROVE  [kind |-> kind, token |-> t, waiting |-> TRUE] \in Message
BY DEF Message

LEMMA ReplyKeepsNet ==
    ASSUME net \subseteq Message, NEW q, NEW kind \in {"rotated", "dead"}, NEW t \in TokenId, Reply(q, kind, t)
    PROVE  net' \subseteq Message
BY AnswerIsMessage DEF Reply

LEMMA RevokeIsMessages ==
    ASSUME NEW s \in Session \cup {NoSession}
    PROVE  Revoke(s) \subseteq Message
<1>1. CASE s = NoSession
    BY <1>1 DEF Revoke
<1>2. CASE s \in Session /\ s # NoSession
    <2>1. s.token \in TokenId
        BY <1>2 DEF Session
    <2> QED
        BY <1>2, <2>1, RequestIsMessage DEF Revoke
<1> QED
    BY <1>1, <1>2

\* A row that takes another state.
LEMMA RowEnds ==
    ASSUME NEW row \in Row, NEW state \in RowState
    PROVE  LET new == [row EXCEPT !.state = state]
           IN new \in Row /\ new.login = row.login /\ new.state = state
BY DEF Row

-----------------------------------------------------------------------------
\* The server.
LEMMA ServeRefreshKeeps ==
    ASSUME AuthInv, NEW q \in net, ServeRefresh(q)
    PROVE  AuthInv'
<1>1. q \in Message /\ q.token \in TokenId /\ rows[q.token] \in Row /\ issued \in 0..MaxTokens
      /\ net \subseteq Message /\ MaxTokens \in Nat
    BY AuthBounds DEF AuthInv, AuthTypeOK, Message
<1>2. UNCHANGED <<excused, innerVars, file, taskVars, overtaken, countVars>>
    BY DEF ServeRefresh
<1>3. CASE /\ Rotates(q.token) /\ issued < MaxTokens
           /\ issued' = issued + 1
           /\ rows' = [rows EXCEPT ![q.token].state = "rotated", ![q.token].next = issued + 1,
                                   ![issued + 1] = Issue(rows[q.token].login)]
           /\ Reply(q, "rotated", issued + 1)
           /\ UNCHANGED stolen
    <2> DEFINE t0 == q.token
               n == issued + 1
               login == rows[t0].login
               old == [rows[t0] EXCEPT !.state = "rotated", !.next = n]
    <2>1. t0 # n /\ login <= issued /\ login \in 0..MaxTokens /\ rows[t0].state = "live"
        BY <1>1, <1>3 DEF AuthInv, IssuedInOrder, Rotates, Live, TokenId, Row
    <2>2. n \in TokenId /\ n \in 0..MaxTokens /\ issued' = n
        BY <1>1, <1>3 DEF TokenId
    <2>3. Issue(login) \in Row /\ Issue(login).login = login /\ Issue(login).state = "live"
        BY <1>1, <2>1 DEF Issue, Row, RowState
    <2>4. old \in Row /\ old.login = login /\ old.state = "rotated" /\ old.next = n
        BY <1>1, <2>2 DEF Row, RowState
    <2>5. /\ DOMAIN rows' = TokenId /\ rows'[n] = Issue(login)
          /\ \A t \in TokenId : t # n => rows'[t] = IF t = t0 THEN old ELSE rows[t]
        BY <1>1, <1>3, <2>1, <2>2 DEF AuthInv, AuthTypeOK
    <2>6. rows' \in [TokenId -> Row]
        <3>1. \A t \in TokenId : rows'[t] \in Row
            BY <2>3, <2>4, <2>5 DEF AuthInv, AuthTypeOK
        <3>2. rows' = [t \in DOMAIN rows' |-> rows'[t]]
            BY <1>3 DEF AuthInv, AuthTypeOK
        <3> QED
            BY <2>5, <3>1, <3>2
    <2> HIDE DEF t0, n, login, old
    <2>7. \A t \in TokenId \ {issued'} :
             /\ rows'[t].login = rows[t].login
             /\ \/ rows'[t].state = rows[t].state /\ rows'[t].next = rows[t].next
                \/ rows[t].state # "none" /\ rows'[t].state = "rotated" /\ rows'[t].next \in TokenId
        <3>1. rows[t0].login = login
            BY DEF login
        <3> QED
            BY <2>1, <2>2, <2>4, <2>5, <3>1
    <2>8. \A t \in TokenId \ {issued'} : rows'[t].login = login => rows'[t].state # "live"
        BY <1>1, <2>1, <2>2, <2>4, <2>5 DEF login, t0, AuthInv, OneLivePerLogin, Live
    <2>9. login \in 0..issued'
        BY <1>1, <2>1, <2>2 DEF n
    <2>10. IssuedInOrder' /\ OneLivePerLogin'
        BY <1>3, <2>2, <2>3, <2>5, <2>6, <2>7, <2>8, <2>9, Issues DEF n
    <2>11. net' \subseteq Message
        BY <1>1, <1>3, <2>2, ReplyKeepsNet DEF n
    <2> QED
        BY <1>2, <1>3, <2>2, <2>6, <2>10, <2>11 DEF AuthInv, AuthTypeOK, FlightHasToken, innerVars, taskVars, countVars
<1>4. CASE /\ Replays(q.token) /\ UNCHANGED serverVars
           /\ Reply(q, "rotated", rows[q.token].next)
    <2>1. rows[q.token].next \in TokenId
        BY <1>1, <1>4 DEF Replays, AuthInv, IssuedInOrder
    <2>2. net' \subseteq Message
        BY <1>1, <1>4, <2>1, ReplyKeepsNet
    <2>3. IssuedInOrder' /\ OneLivePerLogin'
        BY <1>4 DEF serverVars, AuthInv, IssuedInOrder, OneLivePerLogin, Live
    <2> QED
        BY <1>2, <1>4, <2>2, <2>3 DEF AuthInv, AuthTypeOK, FlightHasToken, serverVars, innerVars, taskVars,
           countVars
<1>5. CASE /\ rows' = [t \in TokenId |-> IF rows[t].state \in {"live", "expired"}
                                         THEN [rows[t] EXCEPT !.state = "ended"] ELSE rows[t]]
           /\ stolen' = TRUE /\ Reply(q, "dead", q.token) /\ UNCHANGED issued
    <2>1. \A t \in TokenId : LET new == [rows[t] EXCEPT !.state = "ended"]
                             IN new \in Row /\ new.login = rows[t].login /\ new.state = "ended"
        BY RowEnds DEF AuthInv, AuthTypeOK, RowState
    <2>2. rows' \in [TokenId -> Row]
        BY <1>5, <2>1 DEF AuthInv, AuthTypeOK
    <2>3. IssuedInOrder' /\ OneLivePerLogin'
        BY <1>5, <2>1, <2>2, RowsOnlyEnd
    <2>4. net' \subseteq Message
        BY <1>1, <1>5, ReplyKeepsNet
    <2> QED
        BY <1>2, <1>5, <2>2, <2>3, <2>4 DEF AuthInv, AuthTypeOK, FlightHasToken, innerVars, taskVars, countVars
<1>6. CASE Reply(q, "dead", q.token) /\ UNCHANGED serverVars
    <2>1. net' \subseteq Message
        BY <1>1, <1>6, ReplyKeepsNet
    <2>2. IssuedInOrder' /\ OneLivePerLogin'
        BY <1>6 DEF serverVars, AuthInv, IssuedInOrder, OneLivePerLogin, Live
    <2> QED
        BY <1>2, <1>6, <2>1, <2>2 DEF AuthInv, AuthTypeOK, FlightHasToken, serverVars, innerVars, taskVars,
           countVars
<1> QED
    BY <1>3, <1>4, <1>5, <1>6 DEF ServeRefresh

\* One row changes its state, and never to live.
LEMMA OneRowEnds ==
    ASSUME AuthInv, NEW t \in TokenId, NEW state \in {"ended", "expired"}, rows[t].state # "none",
           rows' = [rows EXCEPT ![t].state = state], issued' = issued
    PROVE  rows' \in [TokenId -> Row] /\ IssuedInOrder' /\ OneLivePerLogin'
<1>1. LET new == [rows[t] EXCEPT !.state = state]
      IN new \in Row /\ new.login = rows[t].login /\ new.state = state
    <2>1. rows[t] \in Row /\ state \in RowState
        BY DEF AuthInv, AuthTypeOK, RowState
    <2> QED
        BY <2>1, RowEnds
<1>2. rows' = [rows EXCEPT ![t] = [rows[t] EXCEPT !.state = state]]
    BY DEF AuthInv, AuthTypeOK
<1>3. rows' \in [TokenId -> Row]
      /\ \A u \in TokenId : rows'[u] = IF u = t THEN [rows[t] EXCEPT !.state = state] ELSE rows[u]
    BY <1>1, <1>2 DEF AuthInv, AuthTypeOK
<1>4. IssuedInOrder' /\ OneLivePerLogin'
    BY <1>1, <1>3, RowsOnlyEnd
<1> QED
    BY <1>3, <1>4

LEMMA ServeLogoutKeeps ==
    ASSUME AuthInv, NEW q \in net, ServeLogout(q)
    PROVE  AuthInv'
<1>1. q.token \in TokenId
    BY DEF AuthInv, AuthTypeOK, Message
<1>2. rows' \in [TokenId -> Row] /\ IssuedInOrder' /\ OneLivePerLogin'
    <2>1. CASE rows[q.token].state \in {"live", "expired"}
        BY <1>1, <2>1, OneRowEnds DEF ServeLogout
    <2>2. CASE UNCHANGED <<rows, issued>>
        BY <2>2 DEF AuthInv, AuthTypeOK, IssuedInOrder, OneLivePerLogin, Live
    <2> QED
        BY <2>1, <2>2 DEF ServeLogout
<1>3. excused' \in BOOLEAN
    BY DEF ServeLogout, AuthInv, AuthTypeOK
<1> QED
    BY <1>2, <1>3 DEF ServeLogout, AuthInv, AuthTypeOK, FlightHasToken, innerVars, taskVars, countVars

LEMMA TokenExpiresKeeps ==
    ASSUME AuthInv, NEW t \in TokenId, TokenExpires(t)
    PROVE  AuthInv'
<1>1. rows' \in [TokenId -> Row] /\ IssuedInOrder' /\ OneLivePerLogin'
    BY OneRowEnds DEF TokenExpires, Live
<1> QED
    BY <1>1 DEF TokenExpires, AuthFault, AuthInv, AuthTypeOK, FlightHasToken, innerVars, taskVars

LEMMA TimePassesKeeps ==
    ASSUME AuthInv, TimePasses
    PROVE  AuthInv'
<1>1. \A t \in TokenId : LET new == [rows[t] EXCEPT !.state = "lapsed"]
                         IN new \in Row /\ new.login = rows[t].login /\ new.state = "lapsed"
    BY RowEnds DEF AuthInv, AuthTypeOK, RowState
<1>2. rows' \in [TokenId -> Row]
    BY <1>1 DEF TimePasses, AuthInv, AuthTypeOK
<1>3. IssuedInOrder' /\ OneLivePerLogin'
    BY <1>1, <1>2, RowsOnlyEnd DEF TimePasses
<1>4. \A s \in Session \cup {NoSession} : Stale(s) \in Session \cup {NoSession}
    BY DEF Stale, Session
<1>5. memory' \in Session \cup {NoSession} /\ file' \in Session \cup {NoSession} /\ excused' \in BOOLEAN
      /\ ticks' \in Nat
    BY <1>4 DEF TimePasses, AuthInv, AuthTypeOK
<1> QED
    BY <1>2, <1>3, <1>5 DEF TimePasses, AuthInv, AuthTypeOK, FlightHasToken, taskVars

LEMMA SetSessionKeeps ==
    ASSUME AuthInv, SetSession
    PROVE  AuthInv'
<1> DEFINE live == {t \in TokenId : Live(t)}
<1>1. Cardinality(live) \in Nat
    <2>1. IsFiniteSet(TokenId)
        BY FS_Interval, AuthBounds DEF TokenId
    <2> QED
        BY <2>1, FS_Subset, FS_CardinalityType
<1>2. issued \in Nat /\ MaxTokens \in Nat /\ issued' = issued + 1 /\ issued < MaxTokens
    <2> HIDE DEF live
    <2>1. issued + 1 + Cardinality(live) <= MaxTokens
        BY DEF SetSession, Room, live
    <2> QED
        BY <1>1, <2>1, AuthBounds DEF SetSession, AuthInv, AuthTypeOK
<1>3. issued' \in TokenId /\ issued' \in 0..MaxTokens /\ issued' \notin {0}
    BY <1>2 DEF TokenId
<1>4. rows' = [rows EXCEPT ![issued'] = Issue(issued')] /\ Issue(issued') \in Row
    BY <1>2, <1>3 DEF SetSession, Issue, Row, RowState
<1>5. /\ rows' \in [TokenId -> Row] /\ rows'[issued'] = Issue(issued')
      /\ \A t \in TokenId \ {issued'} : rows'[t] = rows[t]
    BY <1>3, <1>4 DEF AuthInv, AuthTypeOK
<1>6. \A t \in TokenId : rows[t].login < issued'
    <2>1. \A t \in TokenId : rows[t].login \in Nat /\ rows[t].login <= issued
        BY <1>2 DEF AuthInv, AuthTypeOK, IssuedInOrder, Row
    <2> QED
        BY <1>2, <2>1
<1>7. issued' \in 0..issued'
    BY <1>2
<1>8. IssuedInOrder' /\ OneLivePerLogin'
    BY <1>2, <1>5, <1>6, <1>7, Issues
<1>9. memory' \in Session /\ net' \subseteq Message
    BY <1>2, <1>3, RevokeIsMessages DEF SetSession, Session, AuthInv, AuthTypeOK
<1>10. command' \in Command
    BY <1>9 DEF SetSession, Command
<1> QED
    BY <1>3, <1>5, <1>8, <1>9, <1>10 DEF SetSession, NewCommand, AuthInv, AuthTypeOK, FlightHasToken

-----------------------------------------------------------------------------
\* The client: its steps change no row.
LEMMA SameRows ==
    ASSUME AuthInv, UNCHANGED <<rows, issued>>, AuthTypeOK', FlightHasToken'
    PROVE  AuthInv'
BY DEF AuthInv, IssuedInOrder, OneLivePerLogin, Live

LEMMA IdleTasks == NoFlight \in Flight /\ NoCommand \in Command /\ NoRestore \in Restore /\ Launch \in Restore
<1>1. NoFlight \in Flight
    BY AuthBounds DEF NoFlight, Flight
<1>2. NoCommand \in Command
    BY DEF NoCommand, Command
<1>3. NoRestore \in Restore /\ Launch \in Restore
    BY DEF NoRestore, Launch, Restore
<1> QED
    BY <1>1, <1>2, <1>3

LEMMA FlightGoesOn ==
    ASSUME NEW f \in Flight, NEW at \in {"idle", "sent", "write", "dead", "delete"}
    PROVE  LET new == [f EXCEPT !.at = at] IN new \in Flight /\ new.token = f.token /\ new.at = at
BY DEF Flight

\* The refresh.
LEMMA StartRefreshKeeps ==
    ASSUME AuthInv, NEW restores \in BOOLEAN, StartRefresh(restores)
    PROVE  AuthInv'
<1>1. memory.token \in TokenId /\ epoch \in Nat
    BY DEF StartRefresh, AuthInv, AuthTypeOK, Session
<1>2. flight' \in Flight /\ flight'.token \in TokenId
    BY <1>1, AuthBounds DEF StartRefresh, Flight, TokenId
<1>3. net' \subseteq Message
    BY <1>1, RequestIsMessage DEF StartRefresh, AuthInv, AuthTypeOK
<1> QED
    BY <1>2, <1>3, SameRows
    DEF StartRefresh, AuthInv, AuthTypeOK, FlightHasToken, serverVars, innerVars, countVars

LEMMA RefreshedKeeps ==
    ASSUME AuthInv, NEW m \in net, Refreshed(m)
    PROVE  AuthInv'
<1>1. m.token \in TokenId /\ net \subseteq Message /\ flight \in Flight
    BY DEF AuthInv, AuthTypeOK, Message
<1>2. CASE /\ memory' = [token |-> m.token, fresh |-> TRUE]
           /\ flight' = [flight EXCEPT !.at = "write", !.token = m.token]
           /\ net' = net \ {m}
    <2>1. memory' \in Session
        BY <1>1, <1>2 DEF Session
    <2>2. flight' \in Flight /\ flight'.token = m.token
        <3>1. flight' = [at |-> "write", token |-> m.token, epoch |-> flight.epoch, restores |-> flight.restores]
            BY <1>1, <1>2 DEF Flight
        <3> QED
            BY <1>1, <3>1, AuthBounds DEF Flight, TokenId
    <2> QED
        BY <1>1, <1>2, <2>1, <2>2, SameRows DEF Refreshed, AuthInv, AuthTypeOK, FlightHasToken, serverVars, countVars
<1>3. CASE flight' = NoFlight /\ net' = (net \ {m}) \cup {Request("logout", m.token)} /\ UNCHANGED memory
    <2>1. net' \subseteq Message
        BY <1>1, <1>3, RequestIsMessage
    <2> QED
        BY <1>3, <2>1, IdleTasks, SameRows
        DEF Refreshed, AuthInv, AuthTypeOK, FlightHasToken, NoFlight, serverVars, countVars
<1> QED
    BY <1>2, <1>3 DEF Refreshed

LEMMA RefreshEndsKeeps ==
    ASSUME AuthInv, (\E m \in net : Rejected(m)) \/ RefreshPersists \/ Expire \/ ExpireDeletes
    PROVE  AuthInv'
<1> USE DEF serverVars, innerVars, countVars
<1>1. ASSUME NEW m \in net, Rejected(m) PROVE AuthInv'
    <2>1. LET new == [flight EXCEPT !.at = "dead"] IN new \in Flight /\ new.token = flight.token /\ new.at = "dead"
        BY FlightGoesOn DEF AuthInv, AuthTypeOK
    <2>2. flight' \in Flight /\ FlightHasToken'
        <3>1. CASE flight' = [flight EXCEPT !.at = "dead"]
            BY <2>1, <3>1 DEF FlightHasToken
        <3>2. CASE flight' = NoFlight
            BY <3>2, IdleTasks DEF FlightHasToken, NoFlight
        <3> QED
            BY <1>1, <3>1, <3>2 DEF Rejected
    <2> QED
        BY <1>1, <2>2, SameRows DEF Rejected, AuthInv, AuthTypeOK
<1>2. CASE RefreshPersists
    <2>1. [token |-> flight.token, fresh |-> TRUE] \in Session
        BY <1>2 DEF RefreshPersists, AuthInv, FlightHasToken, Session
    <2>2. file' \in Session \cup {NoSession} /\ overtaken' \in BOOLEAN /\ authFaults' \in Nat
        <3> DEFINE s == [token |-> flight.token, fresh |-> TRUE]
        <3>1. CASE file' = s /\ overtaken' = (overtaken \/ memory # s) /\ UNCHANGED authFaults
            <4> HIDE DEF s
            <4>1. overtaken' \in BOOLEAN
                BY <3>1, Zenon
            <4> QED
                BY <2>1, <3>1, <4>1 DEF s, AuthInv, AuthTypeOK
        <3>2. CASE authFaults' = authFaults + 1 /\ UNCHANGED <<file, overtaken>>
            BY <3>2 DEF AuthInv, AuthTypeOK
        <3> QED
            BY <1>2, <3>1, <3>2 DEF RefreshPersists, AuthFault
    <2>3. flight' \in Flight /\ FlightHasToken'
        BY <1>2, IdleTasks DEF RefreshPersists, FlightHasToken, NoFlight
    <2> QED
        BY <1>2, <2>2, <2>3, SameRows DEF RefreshPersists, AuthInv, AuthTypeOK
<1>3. CASE Expire
    <2>1. LET new == [flight EXCEPT !.at = "delete"] IN new \in Flight /\ new.token = flight.token /\ new.at = "delete"
        BY FlightGoesOn DEF AuthInv, AuthTypeOK
    <2> QED
        BY <1>3, <2>1, SameRows DEF Expire, AuthInv, AuthTypeOK, FlightHasToken
<1>4. CASE ExpireDeletes
    BY <1>4, IdleTasks, SameRows DEF ExpireDeletes, AuthInv, AuthTypeOK, FlightHasToken, NoFlight
<1> QED
    BY <1>1, <1>2, <1>3, <1>4


\* A refresh or a revocation that is lost.
LEMMA LossKeeps ==
    ASSUME AuthInv, NEW m \in net, RefreshFails(m) \/ LogoutLost(m)
    PROVE  AuthInv'
<1>1. CASE RefreshFails(m)
    <2>1. m \in Message /\ [m EXCEPT !.waiting = FALSE] \in Message
        BY DEF AuthInv, AuthTypeOK, Message
    <2>2. net' \subseteq Message
        BY <1>1, <2>1 DEF RefreshFails, AuthInv, AuthTypeOK
    <2>3. restore' \in Restore
        <3>1. [restore EXCEPT !.at = "drop"] \in Restore
            BY DEF AuthInv, AuthTypeOK, Restore
        <3> QED
            BY <1>1, <3>1 DEF RefreshFails, AuthInv, AuthTypeOK
    <2> QED
        BY <1>1, <2>2, <2>3, IdleTasks, SameRows
        DEF RefreshFails, AuthFault, AuthInv, AuthTypeOK, FlightHasToken, NoFlight, serverVars, innerVars
<1>2. CASE LogoutLost(m)
    BY <1>2, SameRows
    DEF LogoutLost, AuthFault, AuthInv, AuthTypeOK, FlightHasToken, serverVars, innerVars, taskVars
<1> QED
    BY <1>1, <1>2

\* The commands.
LEMMA CommandKeeps ==
    ASSUME AuthInv, SetUser \/ Logout \/ CommandWrites \/ CommandDeletes
    PROVE  AuthInv'
<1> USE DEF serverVars, innerVars, NewCommand, FlightHasToken
<1>1. CASE SetUser
    <2>1. command' \in Command
        BY <1>1 DEF SetUser, Command, AuthInv, AuthTypeOK
    <2> QED
        BY <1>1, <2>1, SameRows DEF SetUser, AuthInv, AuthTypeOK
<1>2. CASE Logout
    <2>1. command' \in Command
        BY <1>2 DEF Logout, Command, AuthInv, AuthTypeOK
    <2> QED
        BY <1>2, <2>1, SameRows DEF Logout, AuthInv, AuthTypeOK
<1>3. CASE CommandWrites
    <2>1. command.session \in Session \cup {NoSession}
        BY DEF AuthInv, AuthTypeOK, Command
    <2>2. file' \in Session \cup {NoSession} /\ overtaken' \in BOOLEAN /\ authFaults' \in Nat
        <3>1. CASE file' = command.session /\ overtaken' = (overtaken \/ memory # command.session)
                   /\ UNCHANGED authFaults
            <4>1. overtaken' \in BOOLEAN
                BY <3>1, Zenon
            <4> QED
                BY <2>1, <3>1, <4>1 DEF AuthInv, AuthTypeOK
        <3>2. CASE authFaults' = authFaults + 1 /\ UNCHANGED <<file, overtaken>>
            BY <3>2 DEF AuthInv, AuthTypeOK
        <3> QED
            BY <1>3, <3>1, <3>2 DEF CommandWrites, AuthFault
    <2> QED
        BY <1>3, <2>2, IdleTasks, SameRows DEF CommandWrites, AuthInv, AuthTypeOK
<1>4. CASE CommandDeletes
    <2>1. command.session \in Session \cup {NoSession}
        BY DEF AuthInv, AuthTypeOK, Command
    <2>2. net' \subseteq Message
        BY <1>4, <2>1, RevokeIsMessages DEF CommandDeletes, AuthInv, AuthTypeOK
    <2> QED
        BY <1>4, <2>2, IdleTasks, SameRows DEF CommandDeletes, AuthInv, AuthTypeOK, countVars
<1> QED
    BY <1>1, <1>2, <1>3, <1>4

\* auth_restore, and the app's end.
LEMMA RestoreKeeps ==
    ASSUME AuthInv, RestoreReads \/ RestoreAdopts \/ RestoreSucceeds \/ RestoreDrops
    PROVE  AuthInv'
<1> USE DEF serverVars, countVars, FlightHasToken
<1>0. restore.session \in Session \cup {NoSession}
    BY DEF AuthInv, AuthTypeOK, Restore
<1>1. CASE RestoreReads
    <2>1. [restore EXCEPT !.at = "read", !.session = file] \in Restore
        <3>1. restore \in Restore /\ file \in Session \cup {NoSession}
            BY DEF AuthInv, AuthTypeOK
        <3> QED
            BY <3>1 DEF Restore
    <2> QED
        BY <1>1, <2>1, SameRows DEF RestoreReads, innerVars, AuthInv, AuthTypeOK
<1>2. CASE RestoreAdopts
    <2>1. [restore EXCEPT !.at = "check"] \in Restore
        BY DEF AuthInv, AuthTypeOK, Restore
    <2>2. restore' \in Restore
        BY <1>2, <2>1, IdleTasks DEF RestoreAdopts
    <2>3. memory' \in Session \cup {NoSession} /\ epoch' \in Nat /\ loaded' \in BOOLEAN
        BY <1>0, <1>2 DEF RestoreAdopts, AuthInv, AuthTypeOK
    <2> QED
        BY <1>2, <2>2, <2>3, SameRows DEF RestoreAdopts, AuthInv, AuthTypeOK
<1>3. CASE RestoreSucceeds
    BY <1>3, IdleTasks, SameRows DEF RestoreSucceeds, innerVars, AuthInv, AuthTypeOK
<1>4. CASE RestoreDrops
    <2>1. overtaken' = (overtaken \/ memory # restore.session)
        BY <1>4 DEF RestoreDrops
    <2>2. overtaken' \in BOOLEAN
        BY <2>1, Zenon
    <2> QED
        <3>1. memory' \in Session \cup {NoSession} /\ epoch' \in Nat /\ loaded' \in BOOLEAN /\ restore' \in Restore
            <4>1. memory' = NoSession /\ epoch' = epoch + 1 /\ loaded' = FALSE /\ restore' = NoRestore
                BY <1>4 DEF RestoreDrops
            <4>2. epoch \in Nat
                BY DEF AuthInv, AuthTypeOK
            <4> QED
                <5>1. epoch' \in Nat
                    BY <4>1, <4>2
                <5>2. loaded' \in BOOLEAN /\ memory' \in Session \cup {NoSession} /\ restore' \in Restore
                    BY <4>1, IdleTasks, Zenon
                <5> QED
                    BY <5>1, <5>2
        <3>2. UNCHANGED <<rows, issued, stolen, excused, file, flight, command, net, commands, ticks, authFaults>>
            BY <1>4 DEF RestoreDrops
        <3> QED
            BY <2>2, <3>1, <3>2, SameRows DEF AuthInv, AuthTypeOK
<1> QED
    BY <1>1, <1>2, <1>3, <1>4

LEMMA RelaunchKeeps ==
    ASSUME AuthInv, Relaunch
    PROVE  AuthInv'
<1>1. net' \subseteq Message
    <2>1. \A m \in Message : [m EXCEPT !.waiting = FALSE] \in Message
        BY DEF Message
    <2> QED
        BY <2>1 DEF Relaunch, AuthInv, AuthTypeOK
<1>2. authFaults' \in Nat
    BY DEF Relaunch, AuthFault, AuthInv, AuthTypeOK
<1> QED
    BY <1>1, <1>2, IdleTasks, SameRows
    DEF Relaunch, AuthInv, AuthTypeOK, FlightHasToken, NoFlight, serverVars

-----------------------------------------------------------------------------
\* The types hold in every state, and what one live token per login rests on.
THEOREM AuthInvariance == AuthSpec => []AuthInv
<1>1. ASSUME AuthInv, [AuthNext]_authVars PROVE AuthInv'
    <2>1. CASE UNCHANGED authVars
        BY <1>1, <2>1 DEF authVars, AuthInv, AuthTypeOK, IssuedInOrder, FlightHasToken, OneLivePerLogin, Live
    <2> QED
        BY <1>1, <2>1, ServeRefreshKeeps, ServeLogoutKeeps, StartRefreshKeeps, RefreshedKeeps, RefreshEndsKeeps,
           LossKeeps, SetSessionKeeps, CommandKeeps, RestoreKeeps, TimePassesKeeps, TokenExpiresKeeps, RelaunchKeeps
        DEF AuthNext
<1> QED
    BY <1>1, AuthInitially, PTL DEF AuthSpec

\* No login ever forks into two usable refresh tokens, whatever is lost, retried or replayed.
THEOREM OneLivePerLoginAlways == AuthSpec => []OneLivePerLogin
<1>1. AuthInv => OneLivePerLogin
    BY DEF AuthInv
<1> QED
    BY <1>1, AuthInvariance, PTL

-----------------------------------------------------------------------------
(* NoFalseTheft. A rotation makes a successor that only its answer carries; *)
(* the app takes it up with a fresh access token and so does not present it *)
(* before an access token's life has passed. Hence nothing that rotates has *)
(* a predecessor in its window, and what the app may still present rotates, *)
(* is replayed or has ended, unless it was excused.                         *)
Successor(t) == \E u \in TokenId : rows[u].state = "rotated" /\ rows[u].next = t
Held == {memory, file, restore.session, command.session} \ {NoSession}

\* Every token anyone knows was issued.
Known ==
    /\ \A s \in Held : s.token <= issued
    /\ \A m \in net : m.token <= issued
    /\ flight.token <= issued
    /\ \A t \in TokenId : rows[t].state = "rotated" => rows[t].next <= issued

\* What is presented, or could be now, is nobody's successor.
Unused ==
    /\ \A s \in Held : ~s.fresh => ~Successor(s.token)
    /\ \A q \in net : q.kind = "refresh" => ~Successor(q.token)

\* An answer under way, or taken up but not written yet, carries a successor nobody used.
Given(t) == Successor(t) /\ rows[t].state \in {"live", "ended"}
Answers ==
    /\ \A m \in net : m.kind = "rotated" => Given(m.token)
    /\ flight.at = "write" => Given(flight.token)

\* What may still be presented is inside its window, with a live successor, if it was rotated.
InTime(t) == rows[t].state # "lapsed" /\ (rows[t].state = "rotated" => Live(rows[t].next))
InWindow == ~excused => \A t \in Presentable : InTime(t)

TheftInv == Known /\ Unused /\ Answers /\ InWindow /\ NoFalseTheft

LEMMA HeldIsSessions ==
    ASSUME AuthInv
    PROVE  \A s \in Held : s \in Session /\ s.token \in TokenId
BY DEF AuthInv, AuthTypeOK, Restore, Command, Held, Session

LEMMA HeldIsPresentable ==
    ASSUME NEW t
    PROVE  t \in Presentable <=> \/ \E q \in net : q.kind = "refresh" /\ q.token = t
                                 \/ \E s \in Held : s.token = t
BY DEF Presentable, Held

LEMMA TheftInitially == AuthInit => TheftInv
BY DEF AuthInit, TheftInv, Known, Unused, Answers, InWindow, NoFalseTheft, Held, Launch, NoRestore, NoCommand,
   NoFlight, Presentable

\* A step of the client: it presents what it held stale, and holds what an answer brought.
LEMMA ClientKeepsTheft ==
    ASSUME AuthInv, TheftInv, UNCHANGED <<rows, issued, stolen, excused>>,
           \A s \in Held' : s \in Held \/ (s.fresh /\ Given(s.token) /\ s.token <= issued),
           \A m \in net' : \/ \E n \in net : n.kind = m.kind /\ n.token = m.token
                           \/ m.kind = "refresh" /\ (\E s \in Held : ~s.fresh /\ s.token = m.token)
                           \/ m.kind = "logout" /\ m.token <= issued,
           flight'.token <= issued, flight'.at = "write" => Given(flight'.token)
    PROVE  TheftInv'
<1>1. \A t : /\ Successor(t)' <=> Successor(t)
             /\ Given(t)' <=> Given(t)
             /\ InTime(t)' <=> InTime(t)
    BY DEF Successor, Given, InTime, Live
<1>2. Known'
    BY DEF TheftInv, Known
<1>3. Unused'
    <2>1. ASSUME NEW s \in Held', ~s.fresh PROVE ~Successor(s.token)'
        BY <1>1, <2>1 DEF TheftInv, Unused
    <2>2. ASSUME NEW q \in net', q.kind = "refresh" PROVE ~Successor(q.token)'
        BY <1>1, <2>2 DEF TheftInv, Unused
    <2> QED
        BY <2>1, <2>2 DEF Unused
<1>4. Answers'
    <2>1. ASSUME NEW m \in net', m.kind = "rotated" PROVE Given(m.token)'
        BY <1>1, <2>1 DEF TheftInv, Answers
    <2>2. ASSUME flight'.at = "write" PROVE Given(flight'.token)
        BY <2>2
    <2>3. flight'.at = "write" => Given(flight.token)'
        BY <2>2 DEF Given, Successor
    <2> QED
        BY <2>1, <2>3 DEF Answers
<1>5. InWindow'
    <2> SUFFICES ASSUME ~excused', NEW t \in Presentable' PROVE InTime(t)'
        BY DEF InWindow
    <2>1. t \in Presentable \/ Given(t)
        BY HeldIsPresentable DEF Presentable, Held
    <2>2. CASE t \in Presentable
        BY <1>1, <2>2 DEF TheftInv, InWindow
    <2>3. CASE Given(t)
        BY <1>1, <2>3 DEF Given, InTime
    <2> QED
        BY <2>1, <2>2, <2>3
<1>6. NoFalseTheft'
    BY DEF TheftInv, NoFalseTheft
<1> QED
    BY <1>2, <1>3, <1>4, <1>5, <1>6 DEF TheftInv

LEMMA StaleIsUnused ==
    ASSUME AuthInv, TheftInv, memory # NoSession
    PROVE  memory \in Held /\ memory.token <= issued
BY DEF TheftInv, Known, Held

LEMMA StartRefreshKeepsTheft ==
    ASSUME AuthInv, TheftInv, NEW restores \in BOOLEAN, StartRefresh(restores)
    PROVE  TheftInv'
<1>1. memory \in Held /\ memory.token <= issued /\ ~memory.fresh
    BY StaleIsUnused DEF StartRefresh
<1>2. UNCHANGED <<rows, issued, stolen, excused>> /\ Held' = Held
    BY DEF StartRefresh, serverVars, innerVars, Held
<1>3. flight'.at = "sent" /\ flight'.token = memory.token
    BY DEF StartRefresh
<1>4. \A m \in net' : m \in net \/ (m.kind = "refresh" /\ m.token = memory.token)
    <2>1. Request("refresh", memory.token).kind = "refresh" /\ Request("refresh", memory.token).token = memory.token
        BY DEF Request
    <2> QED
        BY <2>1 DEF StartRefresh
<1> QED
    BY <1>1, <1>2, <1>3, <1>4, ClientKeepsTheft

LEMMA RefreshedKeepsTheft ==
    ASSUME AuthInv, TheftInv, NEW m \in net, Refreshed(m)
    PROVE  TheftInv'
<1>1. Given(m.token) /\ m.token <= issued
    BY DEF Refreshed, TheftInv, Answers, Known
<1>2. UNCHANGED <<rows, issued, stolen, excused, file, command, restore>>
    BY DEF Refreshed, serverVars
<1>3. CASE /\ memory' = [token |-> m.token, fresh |-> TRUE]
           /\ flight' = [flight EXCEPT !.at = "write", !.token = m.token]
           /\ net' = net \ {m}
    <2>1. memory'.token = m.token /\ memory'.fresh
        BY <1>3
    <2>2. \A s \in Held' : s \in Held \/ s = memory'
        BY <1>2 DEF Held
    <2>3. flight'.at = "write" /\ flight'.token = m.token
        BY <1>3 DEF AuthInv, AuthTypeOK, Flight
    <2> QED
        BY <1>1, <1>2, <1>3, <2>1, <2>2, <2>3, ClientKeepsTheft
<1>4. CASE flight' = NoFlight /\ net' = (net \ {m}) \cup {Request("logout", m.token)} /\ UNCHANGED memory
    <2>1. Held' = Held /\ flight'.at = "idle"
        BY <1>2, <1>4 DEF Held, NoFlight
    <2>2. \A n \in net' : n \in net \/ (n.kind = "logout" /\ n.token = m.token)
        <3>1. Request("logout", m.token).kind = "logout" /\ Request("logout", m.token).token = m.token
            BY DEF Request
        <3> QED
            BY <1>4, <3>1
    <2>3. flight'.token <= issued
        BY <1>4 DEF NoFlight, AuthInv, AuthTypeOK
    <2> QED
        BY <1>1, <1>2, <2>1, <2>2, <2>3, ClientKeepsTheft
<1> QED
    BY <1>3, <1>4 DEF Refreshed

LEMMA RefreshEndsKeepsTheft ==
    ASSUME AuthInv, TheftInv, (\E m \in net : Rejected(m)) \/ RefreshPersists \/ Expire \/ ExpireDeletes
    PROVE  TheftInv'
<1> USE DEF serverVars, innerVars
<1>1. ASSUME NEW m \in net, Rejected(m) PROVE TheftInv'
    <2>1. UNCHANGED <<rows, issued, stolen, excused>> /\ Held' = Held /\ net' \subseteq net
        BY <1>1 DEF Rejected, Held
    <2>2. flight'.token <= issued /\ flight'.at # "write"
        <3>1. flight.token <= issued /\ issued \in Nat /\ flight \in Flight
            BY DEF TheftInv, Known, AuthInv, AuthTypeOK
        <3>2. flight' = NoFlight \/ flight' = [flight EXCEPT !.at = "dead"]
            BY <1>1 DEF Rejected
        <3>3. CASE flight' = NoFlight
            BY <3>1, <3>3 DEF NoFlight
        <3>4. CASE flight' = [flight EXCEPT !.at = "dead"]
            <4>1. flight'.at = "dead" /\ flight'.token = flight.token
                BY <3>1, <3>4 DEF Flight
            <4> QED
                BY <3>1, <4>1
        <3> QED
            BY <3>2, <3>3, <3>4
    <2> QED
        BY <2>1, <2>2, ClientKeepsTheft
<1>2. CASE RefreshPersists
    <2>1. UNCHANGED <<rows, issued, stolen, excused, net>> /\ flight' = NoFlight
        BY <1>2 DEF RefreshPersists
    <2>2. Given(flight.token) /\ flight.token <= issued
        BY <1>2 DEF RefreshPersists, TheftInv, Answers, Known
    <2>3. \A s \in Held' : s \in Held \/ (s.fresh /\ s.token = flight.token)
        BY <1>2 DEF RefreshPersists, Held
    <2>4. flight'.token <= issued /\ flight'.at # "write"
        BY <2>1 DEF NoFlight, AuthInv, AuthTypeOK
    <2> QED
        BY <2>1, <2>2, <2>3, <2>4, ClientKeepsTheft
<1>3. CASE Expire
    <2>1. UNCHANGED <<rows, issued, stolen, excused, net>> /\ flight' = [flight EXCEPT !.at = "delete"]
        BY <1>3 DEF Expire
    <2>2. flight'.token <= issued /\ flight'.at # "write"
        BY <2>1, FlightGoesOn DEF TheftInv, Known, AuthInv, AuthTypeOK
    <2>3. Held' \subseteq Held
        BY <1>3 DEF Expire, Held
    <2> QED
        BY <2>1, <2>2, <2>3, ClientKeepsTheft
<1>4. CASE ExpireDeletes
    <2>1. UNCHANGED <<rows, issued, stolen, excused, net>> /\ flight' = NoFlight
        BY <1>4 DEF ExpireDeletes
    <2>2. flight'.token <= issued /\ flight'.at # "write"
        BY <2>1 DEF NoFlight, AuthInv, AuthTypeOK
    <2>3. Held' \subseteq Held
        BY <1>4 DEF ExpireDeletes, Held
    <2> QED
        BY <2>1, <2>2, <2>3, ClientKeepsTheft
<1> QED
    BY <1>1, <1>2, <1>3, <1>4

LEMMA LossKeepsTheft ==
    ASSUME AuthInv, TheftInv, NEW m \in net, RefreshFails(m) \/ LogoutLost(m)
    PROVE  TheftInv'
<1>0. issued \in Nat /\ flight.token <= issued /\ (flight.at = "write" => Given(flight.token))
    BY DEF AuthInv, AuthTypeOK, TheftInv, Known, Answers
<1>1. CASE RefreshFails(m)
    <2>1. UNCHANGED <<rows, issued, stolen, excused, memory, file, command>> /\ flight' = NoFlight
        BY <1>1 DEF RefreshFails, serverVars, innerVars
    <2>2. restore'.session = restore.session
        BY <1>1 DEF RefreshFails, AuthInv, AuthTypeOK, Restore
    <2>3. Held' = Held
        BY <2>1, <2>2 DEF Held
    <2>4. \A n \in net' : \E o \in net : o.kind = n.kind /\ o.token = n.token
        <3>1. LET late == [m EXCEPT !.waiting = FALSE] IN late.kind = m.kind /\ late.token = m.token
            BY DEF AuthInv, AuthTypeOK, Message
        <3>2. \A n \in net' : n \in net \/ n = [m EXCEPT !.waiting = FALSE]
            BY <1>1 DEF RefreshFails
        <3> QED
            BY <3>1, <3>2
    <2>5. flight'.token <= issued /\ flight'.at # "write"
        BY <1>0, <2>1 DEF NoFlight
    <2> QED
        BY <2>1, <2>3, <2>4, <2>5, ClientKeepsTheft
<1>2. CASE LogoutLost(m)
    <2>1. UNCHANGED <<rows, issued, stolen, excused, memory, file, command, restore, flight>> /\ net' \subseteq net
        BY <1>2 DEF LogoutLost, serverVars, innerVars, taskVars
    <2>2. Held' = Held
        BY <2>1 DEF Held
    <2> QED
        BY <1>0, <2>1, <2>2, ClientKeepsTheft
<1> QED
    BY <1>1, <1>2

LEMMA RevokesOneHeld ==
    ASSUME AuthInv, TheftInv, NEW s \in {memory, command.session}, NEW m \in Revoke(s)
    PROVE  m.kind = "logout" /\ m.token <= issued
BY DEF Revoke, Request, Held, TheftInv, Known

LEMMA CommandKeepsTheft ==
    ASSUME AuthInv, TheftInv, SetUser \/ Logout \/ CommandWrites \/ CommandDeletes
    PROVE  TheftInv'
<1> USE DEF serverVars, innerVars, NoCommand
<1>1. UNCHANGED <<rows, issued, stolen, excused, flight, restore>>
    BY DEF SetUser, Logout, CommandWrites, CommandDeletes
<1>2. Held' \subseteq Held
    BY DEF SetUser, Logout, CommandWrites, CommandDeletes, Held
<1>3. \A m \in net' : m \in net \/ m \in Revoke(command.session)
    BY DEF SetUser, Logout, CommandWrites, CommandDeletes
<1>4. flight.token <= issued /\ (flight.at = "write" => Given(flight.token))
    BY DEF TheftInv, Known, Answers
<1> QED
    BY <1>1, <1>2, <1>3, <1>4, RevokesOneHeld, ClientKeepsTheft

LEMMA RestoreKeepsTheft ==
    ASSUME AuthInv, TheftInv, RestoreReads \/ RestoreAdopts \/ RestoreSucceeds \/ RestoreDrops
    PROVE  TheftInv'
<1> USE DEF serverVars, innerVars
<1>1. UNCHANGED <<rows, issued, stolen, excused, flight, net>>
    BY DEF RestoreReads, RestoreAdopts, RestoreSucceeds, RestoreDrops
<1>2. Held' \subseteq Held
    <2>1. restore \in Restore
        BY DEF AuthInv, AuthTypeOK
    <2>2. restore'.session \in {restore.session, file, NoSession}
        <3>1. CASE RestoreReads
            <4>1. restore' = [restore EXCEPT !.at = "read", !.session = file]
                BY <3>1 DEF RestoreReads
            <4> QED
                BY <2>1, <4>1 DEF Restore
        <3>2. CASE restore' = NoRestore
            BY <3>2 DEF NoRestore
        <3>3. CASE restore' = [restore EXCEPT !.at = "check"]
            BY <2>1, <3>3 DEF Restore
        <3> QED
            BY <3>1, <3>2, <3>3 DEF RestoreAdopts, RestoreSucceeds, RestoreDrops
    <2>3. memory' \in {memory, restore.session, NoSession} /\ UNCHANGED <<file, command>>
        BY DEF RestoreReads, RestoreAdopts, RestoreSucceeds, RestoreDrops
    <2> QED
        BY <2>2, <2>3 DEF Held
<1>3. flight.token <= issued /\ (flight.at = "write" => Given(flight.token))
    BY DEF TheftInv, Known, Answers
<1> QED
    BY <1>1, <1>2, <1>3, ClientKeepsTheft

LEMMA RelaunchKeepsTheft ==
    ASSUME AuthInv, TheftInv, Relaunch
    PROVE  TheftInv'
<1>1. UNCHANGED <<rows, issued, stolen, excused>> /\ flight' = NoFlight
    BY DEF Relaunch, serverVars
<1>2. Held' \subseteq Held
    BY DEF Relaunch, Held, NoCommand, Launch, NoRestore
<1>3. \A m \in net' : \E n \in net : n.kind = m.kind /\ n.token = m.token
    <2>1. \A n \in net : LET late == [n EXCEPT !.waiting = FALSE] IN late.kind = n.kind /\ late.token = n.token
        BY DEF AuthInv, AuthTypeOK, Message
    <2>2. \A m \in net' : \E n \in net : m = [n EXCEPT !.waiting = FALSE]
        <3>1. net' = {[n EXCEPT !.waiting = FALSE] : n \in {q \in net : q.kind \in {"refresh", "logout"}}}
            BY DEF Relaunch
        <3> QED
            BY ONLY <3>1
    <2> QED
        BY <2>1, <2>2
<1>4. flight'.token <= issued /\ flight'.at # "write"
    BY <1>1 DEF NoFlight, AuthInv, AuthTypeOK
<1> QED
    BY <1>1, <1>2, <1>3, <1>4, ClientKeepsTheft

\* What the server's transactions do to the rows.
Rotation(q) ==
    /\ Rotates(q.token) /\ issued < MaxTokens
    /\ issued' = issued + 1
    /\ rows' = [rows EXCEPT ![q.token].state = "rotated", ![q.token].next = issued + 1,
                            ![issued + 1] = Issue(rows[q.token].login)]
    /\ Reply(q, "rotated", issued + 1)
    /\ UNCHANGED stolen
Replay(q) ==
    /\ ~Rotates(q.token) /\ Replays(q.token)
    /\ Reply(q, "rotated", rows[q.token].next)
    /\ UNCHANGED serverVars
Theft(q) ==
    /\ ~Rotates(q.token) /\ ~Replays(q.token) /\ Reused(q.token)
    /\ rows' = [t \in TokenId |-> IF rows[t].state \in {"live", "expired"}
                                  THEN [rows[t] EXCEPT !.state = "ended"] ELSE rows[t]]
    /\ stolen' = TRUE
    /\ Reply(q, "dead", q.token)
    /\ UNCHANGED issued
Refusal(q) ==
    /\ rows[q.token].state \in {"ended", "expired"}
    /\ Reply(q, "dead", q.token)
    /\ UNCHANGED serverVars

LEMMA ServeRefreshIs ==
    ASSUME NEW q \in net, ServeRefresh(q)
    PROVE  /\ q.kind = "refresh"
           /\ Rotation(q) \/ Replay(q) \/ Theft(q) \/ Refusal(q)
           /\ UNCHANGED <<excused, memory, epoch, loaded, file, flight, command, restore, overtaken, authFaults>>
BY DEF ServeRefresh, Rotation, Replay, Theft, Refusal, innerVars, taskVars, countVars

LEMMA RotationDoes ==
    ASSUME AuthInv, NEW q \in net, Rotation(q), NEW n, n = issued + 1
    PROVE  /\ q.token \in TokenId /\ n \in TokenId /\ q.token <= issued /\ q.token # n /\ ~(n <= issued)
           /\ rows[q.token].state = "live" /\ rows[n].state = "none"
           /\ rows'[q.token].state = "rotated" /\ rows'[q.token].next = n
           /\ rows'[n].state = "live"
           /\ \A t \in TokenId \ {q.token, n} : rows'[t] = rows[t]
<1>1. q.token \in TokenId /\ rows[q.token] \in Row /\ issued \in 0..MaxTokens /\ MaxTokens \in Nat
      /\ issued < MaxTokens /\ rows \in [TokenId -> Row]
    BY AuthBounds DEF AuthInv, AuthTypeOK, Message, Rotation
<1>2. n \in TokenId /\ ~(n <= issued) /\ n > issued
    BY <1>1 DEF TokenId
<1>3. rows[q.token].state = "live" /\ rows[n].state = "none"
    BY <1>2 DEF Rotation, Rotates, Live, AuthInv, IssuedInOrder
<1>4. ~(q.token > issued) /\ q.token \in Nat
    BY <1>1, <1>3 DEF AuthInv, IssuedInOrder, TokenId
<1>5. q.token <= issued /\ q.token # n
    BY <1>1, <1>2, <1>4
<1> DEFINE old == [rows[q.token] EXCEPT !.state = "rotated", !.next = n]
           new == Issue(rows[q.token].login)
<1>6. old.state = "rotated" /\ old.next = n
    BY <1>1 DEF Row
<1>7. new.state = "live"
    BY DEF Issue
<1>8. rows' = [rows EXCEPT ![q.token].state = "rotated", ![q.token].next = n, ![n] = new]
    BY DEF Rotation
<1>9. rows'[q.token] = old /\ rows'[n] = new /\ \A t \in TokenId \ {q.token, n} : rows'[t] = rows[t]
    BY <1>1, <1>2, <1>5, <1>8
<1> HIDE DEF old, new
<1> QED
    BY <1>1, <1>2, <1>3, <1>5, <1>6, <1>7, <1>9

LEMMA TheftDoes ==
    ASSUME AuthInv, NEW q \in net, Theft(q)
    PROVE  \A t \in TokenId : /\ rows'[t].next = rows[t].next
                              /\ rows'[t].state = IF rows[t].state \in {"live", "expired"} THEN "ended" ELSE rows[t].state
<1>1. \A t \in TokenId : LET new == [rows[t] EXCEPT !.state = "ended"]
                         IN new.next = rows[t].next /\ new.state = "ended"
    BY DEF AuthInv, AuthTypeOK, Row
<1> QED
    BY <1>1 DEF Theft

LEMMA AnswerIs ==
    ASSUME NEW q \in net, NEW kind, NEW t, Reply(q, kind, t), NEW m \in net'
    PROVE  m \in net \/ (m.kind = kind /\ m.token = t)
BY DEF Reply

\* What is presented is rotated, replayed or refused, unless it was excused.
LEMMA RotationKeepsTheft ==
    ASSUME AuthInv, TheftInv, NEW q \in net, ServeRefresh(q), Rotation(q)
    PROVE  TheftInv'
<1> PICK n : n = issued + 1
    OBVIOUS
<1>1. /\ q.token \in TokenId /\ n \in TokenId /\ q.token <= issued /\ q.token # n /\ ~(n <= issued)
      /\ rows[q.token].state = "live" /\ rows[n].state = "none"
      /\ rows'[q.token].state = "rotated" /\ rows'[q.token].next = n
      /\ rows'[n].state = "live"
      /\ \A t \in TokenId \ {q.token, n} : rows'[t] = rows[t]
    BY RotationDoes
<1>2. /\ UNCHANGED <<excused, memory, file, flight, command, restore>> /\ issued' = n /\ stolen' = stolen
      /\ Held' = Held
    BY ServeRefreshIs DEF Rotation, Held
<1>3. ~Successor(q.token)
    BY ServeRefreshIs DEF TheftInv, Unused
<1>4. \A m \in net' : m \in net \/ (m.kind = "rotated" /\ m.token = n)
    BY AnswerIs DEF Rotation
<1>5. issued \in Nat /\ n \in Nat /\ \A i \in Nat : i <= issued => i <= n /\ i # n
    BY DEF AuthInv, AuthTypeOK
<1>6. \A t : t # n => (Successor(t)' <=> Successor(t))
    BY <1>1 DEF Successor
<1>7. Successor(n)'
    BY <1>1 DEF Successor
<1>8. \A s \in Held : s.token \in TokenId /\ s.token # n /\ s.token <= n
    BY <1>5, HeldIsSessions DEF TheftInv, Known, TokenId
<1>9. \A m \in net : m.token \in TokenId /\ m.token # n /\ m.token <= n
    BY <1>5 DEF TheftInv, Known, TokenId, AuthInv, AuthTypeOK, Message
<1>10. Known'
    <2>1. flight.token <= n
        BY <1>5 DEF TheftInv, Known, AuthInv, AuthTypeOK, Flight
    <2>2. \A t \in TokenId : rows'[t].state = "rotated" => rows'[t].next <= n
        BY <1>1, <1>5 DEF TheftInv, Known, AuthInv, AuthTypeOK, Row
    <2> QED
        BY <1>2, <1>4, <1>5, <1>8, <1>9, <2>1, <2>2 DEF Known
<1>11. Unused'
    BY <1>2, <1>4, <1>6, <1>8, <1>9 DEF TheftInv, Unused
<1>12. \A t \in TokenId : t # n /\ Given(t) => Given(t)'
    BY <1>1, <1>3, <1>6 DEF Given
<1>13. Given(n)'
    BY <1>1, <1>7 DEF Given
<1>14. Answers'
    <2>1. ASSUME NEW m \in net', m.kind = "rotated" PROVE Given(m.token)'
        <3>1. CASE m \in net
            BY <1>9, <1>12, <2>1, <3>1 DEF TheftInv, Answers
        <3>2. CASE m.token = n
            BY <1>1, <1>7, <3>2 DEF Given
        <3> QED
            BY <1>4, <3>1, <3>2
    <2>2. ASSUME flight'.at = "write" PROVE Given(flight.token)'
        <3>1. Given(flight.token) /\ flight.token # n
            BY <1>2, <1>5, <2>2 DEF TheftInv, Answers, Known, AuthInv, AuthTypeOK, Flight
        <3>2. flight.token \in TokenId /\ flight' = flight
            BY <1>2, <2>2 DEF AuthInv, FlightHasToken
        <3> QED
            BY <1>1, <1>3, <1>6, <3>1, <3>2 DEF Given
    <2> QED
        BY <2>1, <2>2 DEF Answers
<1>15. InWindow'
    <2> SUFFICES ASSUME ~excused', NEW t \in Presentable' PROVE InTime(t)'
        BY DEF InWindow
    <2>1. \/ \E m \in net : m.kind = "refresh" /\ m.token = t
          \/ \E s \in Held : s.token = t
        BY <1>2, <1>4 DEF Presentable, Held
    <2>2. t \in Presentable /\ t \in TokenId /\ t # n
        BY <1>8, <1>9, <2>1, HeldIsPresentable
    <2>3. InTime(t)
        BY <1>2, <2>2 DEF TheftInv, InWindow
    <2>4. CASE t = q.token
        BY <1>1, <2>4 DEF InTime, Live
    <2>5. CASE t # q.token
        <3>1. rows'[t] = rows[t]
            BY <1>1, <2>2, <2>5
        <3>2. CASE rows[t].state = "rotated"
            <4>1. rows[t].next # q.token /\ rows[t].next # n
                BY <1>1, <1>3, <2>2, <3>2 DEF Successor, TheftInv, Known
            <4>2. rows[t].next \in TokenId
                BY <2>2, <3>2 DEF AuthInv, IssuedInOrder
            <4> QED
                BY <1>1, <2>3, <3>1, <3>2, <4>1, <4>2 DEF InTime, Live
        <3> QED
            BY <2>3, <3>1, <3>2 DEF InTime
    <2> QED
        BY <2>4, <2>5
<1>16. NoFalseTheft'
    BY <1>2 DEF TheftInv, NoFalseTheft
<1> QED
    BY <1>10, <1>11, <1>14, <1>15, <1>16 DEF TheftInv

\* Rows that only end: successors stay, and what was given stays live or ended.
LEMMA EndingKeepsTheft ==
    ASSUME AuthInv, TheftInv, UNCHANGED <<issued, flight>>, Held' = Held, excused => excused',
           stolen' => excused',
           \A t \in TokenId : /\ rows'[t].next = rows[t].next
                              /\ \/ rows'[t].state = rows[t].state
                                 \/ rows'[t].state = "ended" /\ rows[t].state # "rotated",
           \A m \in net' : m \in net \/ m.kind = "dead" \/ (m.kind = "rotated" /\ Given(m.token)),
           \A m \in net' : m.token <= issued,
           ~excused' => \A t \in Presentable : rows[t].state = "rotated" => Live(rows[t].next)'
    PROVE  TheftInv'
<1>1. \A t : Successor(t)' <=> Successor(t)
    BY DEF Successor
<1>2. Known'
    BY DEF TheftInv, Known
<1>3. Unused'
    BY <1>1 DEF TheftInv, Unused
<1>4. \A t \in TokenId : Given(t) => Given(t)'
    BY <1>1 DEF Given
<1>5. Answers'
    <2>1. ASSUME NEW m \in net', m.kind = "rotated" PROVE Given(m.token)'
        <3>1. Given(m.token)
            BY <2>1 DEF TheftInv, Answers
        <3>2. m.token \in TokenId
            BY <3>1 DEF Given, Successor, AuthInv, IssuedInOrder
        <3> QED
            BY <1>4, <3>1, <3>2
    <2>2. ASSUME flight'.at = "write" PROVE Given(flight.token)'
        <3>1. Given(flight.token) /\ flight.token \in TokenId /\ flight' = flight
            BY <2>2 DEF TheftInv, Answers, AuthInv, FlightHasToken
        <3> QED
            BY <1>1, <3>1 DEF Given
    <2> QED
        BY <2>1, <2>2 DEF Answers
<1>6. InWindow'
    <2> SUFFICES ASSUME ~excused', NEW t \in Presentable' PROVE InTime(t)'
        BY DEF InWindow
    <2>1. \/ \E m \in net : m.kind = "refresh" /\ m.token = t
          \/ \E s \in Held : s.token = t
        BY DEF Presentable, Held
    <2>2. t \in Presentable /\ t \in TokenId
        BY <2>1, HeldIsPresentable, HeldIsSessions DEF AuthInv, AuthTypeOK, Message
    <2>3. InTime(t) /\ (rows[t].state = "rotated" => Live(rows[t].next)')
        BY <2>2 DEF TheftInv, InWindow
    <2> QED
        BY <2>2, <2>3 DEF InTime, Live
<1>7. NoFalseTheft'
    BY DEF NoFalseTheft
<1> QED
    BY <1>2, <1>3, <1>5, <1>6, <1>7 DEF TheftInv

LEMMA ServeRefreshKeepsTheft ==
    ASSUME AuthInv, TheftInv, NEW q \in net, ServeRefresh(q)
    PROVE  TheftInv'
<1>1. q.token \in TokenId /\ q.token <= issued /\ q.kind = "refresh" /\ q.token \in Presentable
    BY ServeRefreshIs, HeldIsPresentable DEF AuthInv, AuthTypeOK, Message, TheftInv, Known
<1>2. UNCHANGED <<excused, memory, file, flight, command, restore>> /\ Held' = Held
    BY ServeRefreshIs DEF Held
<1>3. CASE Replay(q)
    <2>1. Given(rows[q.token].next)
        BY <1>1, <1>3 DEF Replay, Replays, Live, Given, Successor
    <2>2. rows[q.token].next <= issued
        BY <1>1, <1>3 DEF Replay, Replays, TheftInv, Known
    <2>3. \A m \in net' : m \in net \/ (m.kind = "rotated" /\ m.token = rows[q.token].next)
        BY <1>3, AnswerIs DEF Replay
    <2>4. \A m \in net' : m.token <= issued
        BY <2>2, <2>3 DEF TheftInv, Known
    <2>5. UNCHANGED <<rows, issued, stolen>>
        BY <1>3 DEF Replay, serverVars
    <2>6. ~excused' => \A t \in Presentable : rows[t].state = "rotated" => Live(rows[t].next)'
        BY <1>2, <2>5 DEF TheftInv, InWindow, InTime, Live
    <2> QED
        BY <1>2, <2>1, <2>3, <2>4, <2>5, <2>6, EndingKeepsTheft DEF TheftInv, NoFalseTheft
<1>4. CASE Theft(q)
    <2>1. excused
        BY <1>1, <1>4 DEF Theft, Rotates, Replays, Reused, TheftInv, InWindow, InTime
    <2>2. \A m \in net' : m \in net \/ (m.kind = "dead" /\ m.token = q.token)
        BY <1>4, AnswerIs DEF Theft
    <2>3. \A m \in net' : m.token <= issued
        BY <1>1, <2>2 DEF TheftInv, Known
    <2>4. \A t \in TokenId : /\ rows'[t].next = rows[t].next
                             /\ \/ rows'[t].state = rows[t].state
                                \/ rows'[t].state = "ended" /\ rows[t].state # "rotated"
        BY <1>4, TheftDoes
    <2> QED
        BY <1>2, <1>4, <2>1, <2>2, <2>3, <2>4, EndingKeepsTheft DEF Theft
<1>5. CASE Refusal(q)
    <2>1. UNCHANGED <<rows, issued, stolen>>
        BY <1>5 DEF Refusal, serverVars
    <2>2. \A m \in net' : m \in net \/ (m.kind = "dead" /\ m.token = q.token)
        BY <1>5, AnswerIs DEF Refusal
    <2>3. \A m \in net' : m.token <= issued
        BY <1>1, <2>2 DEF TheftInv, Known
    <2>4. ~excused' => \A t \in Presentable : rows[t].state = "rotated" => Live(rows[t].next)'
        BY <1>2, <2>1 DEF TheftInv, InWindow, InTime, Live
    <2> QED
        BY <1>2, <2>1, <2>2, <2>3, <2>4, EndingKeepsTheft DEF TheftInv, NoFalseTheft
<1> QED
    BY <1>3, <1>4, <1>5, RotationKeepsTheft, ServeRefreshIs

\* A row whose state changes.
LEMMA OneRowDoes ==
    ASSUME AuthInv, NEW t \in TokenId, NEW state, rows' = [rows EXCEPT ![t].state = state]
    PROVE  /\ rows'[t].state = state /\ rows'[t].next = rows[t].next
           /\ \A u \in TokenId \ {t} : rows'[u] = rows[u]
<1>1. rows[t] \in Row /\ rows \in [TokenId -> Row]
    BY DEF AuthInv, AuthTypeOK
<1>2. LET new == [rows[t] EXCEPT !.state = state] IN new.state = state /\ new.next = rows[t].next
    BY <1>1 DEF Row
<1>3. rows' = [rows EXCEPT ![t] = [rows[t] EXCEPT !.state = state]]
    BY <1>1
<1> QED
    BY <1>1, <1>2, <1>3

LEMMA ServeLogoutKeepsTheft ==
    ASSUME AuthInv, TheftInv, NEW q \in net, ServeLogout(q)
    PROVE  TheftInv'
<1>1. q.token \in TokenId /\ net' \subseteq net
    BY DEF AuthInv, AuthTypeOK, Message, ServeLogout
<1>2. UNCHANGED <<issued, stolen, memory, file, flight, command, restore>> /\ Held' = Held
    BY DEF ServeLogout, innerVars, taskVars, Held
<1>3. excused' = (excused \/ \E t \in Presentable : rows[t].next = q.token)
    BY DEF ServeLogout
<1>4. excused => excused'
    BY <1>3, Zenon
<1>5. ~excused' => ~excused /\ \A t \in Presentable : rows[t].next # q.token
    BY <1>3, Zenon
<1>6. /\ rows'[q.token].next = rows[q.token].next
      /\ \/ rows'[q.token].state = rows[q.token].state
         \/ rows'[q.token].state = "ended" /\ rows[q.token].state # "rotated"
      /\ \A u \in TokenId \ {q.token} : rows'[u] = rows[u]
    <2>1. CASE rows' = rows
        BY <2>1
    <2>2. CASE rows[q.token].state \in {"live", "expired"} /\ rows' = [rows EXCEPT ![q.token].state = "ended"]
        BY <1>1, <2>2, OneRowDoes
    <2> QED
        BY <2>1, <2>2 DEF ServeLogout
<1>7. ~excused' => \A t \in Presentable : rows[t].state = "rotated" => Live(rows[t].next)'
    <2> SUFFICES ASSUME ~excused', NEW t \in Presentable, rows[t].state = "rotated" PROVE Live(rows[t].next)'
        OBVIOUS
    <2>1. t \in TokenId
        BY HeldIsPresentable, HeldIsSessions DEF AuthInv, AuthTypeOK, Message
    <2>2. rows[t].next \in TokenId /\ rows[t].next # q.token /\ Live(rows[t].next)
        BY <1>5, <2>1 DEF AuthInv, IssuedInOrder, TheftInv, InWindow, InTime
    <2>3. rows'[rows[t].next] = rows[rows[t].next] /\ rows'[t].next = rows[t].next
        BY <1>6, <2>1, <2>2
    <2> QED
        BY <2>2, <2>3 DEF Live
<1>8. stolen' => excused'
    BY <1>2, <1>4 DEF TheftInv, NoFalseTheft
<1>9. \A m \in net' : m.token <= issued
    BY <1>1 DEF TheftInv, Known
<1>10. \A u \in TokenId : /\ rows'[u].next = rows[u].next
                          /\ \/ rows'[u].state = rows[u].state
                             \/ rows'[u].state = "ended" /\ rows[u].state # "rotated"
    BY <1>6
<1> QED
    BY <1>1, <1>2, <1>4, <1>7, <1>8, <1>9, <1>10, EndingKeepsTheft

LEMMA LoginDoes ==
    ASSUME AuthInv, SetSession, NEW n, n = issued + 1
    PROVE  /\ n \in TokenId /\ ~(n <= issued) /\ rows[n].state = "none"
           /\ rows'[n].state = "live"
           /\ \A t \in TokenId \ {n} : rows'[t] = rows[t]
<1>1. AuthInv'
    BY SetSessionKeeps
<1>2. n \in TokenId /\ issued \in Nat
    <2>1. issued' = n /\ issued' \in 0..MaxTokens /\ issued \in Nat
        BY <1>1 DEF SetSession, AuthInv, AuthTypeOK
    <2> QED
        BY <2>1, AuthBounds DEF TokenId
<1>3. ~(n <= issued) /\ n > issued
    BY <1>2
<1>4. rows[n].state = "none"
    BY <1>2, <1>3 DEF AuthInv, IssuedInOrder
<1>5. rows' = [rows EXCEPT ![n] = Issue(n)] /\ Issue(n).state = "live"
    BY DEF SetSession, Issue
<1>6. rows'[n] = Issue(n) /\ \A t \in TokenId \ {n} : rows'[t] = rows[t]
    BY <1>2, <1>5 DEF AuthInv, AuthTypeOK
<1> QED
    BY <1>2, <1>3, <1>4, <1>5, <1>6

LEMMA SetSessionKeepsTheft ==
    ASSUME AuthInv, TheftInv, SetSession
    PROVE  TheftInv'
<1> PICK n : n = issued + 1
    OBVIOUS
<1>1. /\ n \in TokenId /\ ~(n <= issued) /\ rows[n].state = "none"
      /\ rows'[n].state = "live"
      /\ \A t \in TokenId \ {n} : rows'[t] = rows[t]
    BY LoginDoes
<1>2. UNCHANGED <<stolen, excused, file, flight, restore>> /\ issued' = n
    BY DEF SetSession
<1>3. memory'.token = n /\ memory'.fresh /\ command'.session = memory'
    BY DEF SetSession
<1>4. \A m \in net' : m \in net \/ (m.kind = "logout" /\ m.token <= issued)
    BY RevokesOneHeld DEF SetSession
<1>5. \A s \in Held' : s \in Held \/ s = memory'
    BY <1>2, <1>3 DEF Held
<1>6. issued \in Nat /\ n \in Nat /\ \A i \in Nat : i <= issued => i <= n /\ i # n
    BY DEF AuthInv, AuthTypeOK
<1>7. \A t : Successor(t)' <=> Successor(t)
    BY <1>1 DEF Successor
<1>8. \A s \in Held : s.token \in TokenId /\ s.token # n /\ s.token <= n
    BY <1>6, HeldIsSessions DEF TheftInv, Known, TokenId
<1>9. \A m \in net : m.token \in TokenId /\ m.token # n /\ m.token <= n
    BY <1>6 DEF TheftInv, Known, TokenId, AuthInv, AuthTypeOK, Message
<1>10. \A m \in net' : m.token <= n
    <2>1. net' \subseteq Message
        BY SetSessionKeeps DEF AuthInv, AuthTypeOK
    <2> QED
        BY <1>4, <1>6, <1>9, <2>1 DEF Message, TokenId
<1>11. Known'
    <2>1. flight.token <= n
        BY <1>6 DEF TheftInv, Known, AuthInv, AuthTypeOK, Flight
    <2>2. \A t \in TokenId : rows'[t].state = "rotated" => rows'[t].next <= n
        BY <1>1, <1>6 DEF TheftInv, Known, AuthInv, AuthTypeOK, Row
    <2>3. memory'.token <= n
        BY <1>3, <1>6
    <2> QED
        BY <1>2, <1>5, <1>8, <1>10, <2>1, <2>2, <2>3 DEF Known
<1>12. Unused'
    BY <1>3, <1>4, <1>5, <1>7 DEF TheftInv, Unused
<1>13. \A t \in TokenId : t # n /\ Given(t) => Given(t)'
    BY <1>1, <1>7 DEF Given
<1>14. Answers'
    <2>1. ASSUME NEW m \in net', m.kind = "rotated" PROVE Given(m.token)'
        BY <1>4, <1>9, <1>13, <2>1 DEF TheftInv, Answers
    <2>2. ASSUME flight'.at = "write" PROVE Given(flight.token)'
        <3>1. Given(flight.token) /\ flight.token # n
            BY <1>2, <1>6, <2>2 DEF TheftInv, Answers, Known, AuthInv, AuthTypeOK, Flight
        <3>2. flight.token \in TokenId /\ flight' = flight
            BY <1>2, <2>2 DEF AuthInv, FlightHasToken
        <3> QED
            BY <1>1, <1>7, <3>1, <3>2 DEF Given
    <2> QED
        BY <2>1, <2>2 DEF Answers
<1>15. InWindow'
    <2> SUFFICES ASSUME ~excused', NEW t \in Presentable' PROVE InTime(t)'
        BY DEF InWindow
    <2>1. \/ \E m \in net : m.kind = "refresh" /\ m.token = t
          \/ \E s \in Held' : s.token = t
        BY <1>4 DEF Presentable, Held
    <2>2. CASE t = n
        BY <1>1, <2>2 DEF InTime
    <2>3. CASE t # n
        <3>1. t \in Presentable /\ t \in TokenId
            BY <1>3, <1>5, <1>8, <1>9, <2>1, <2>3, HeldIsPresentable
        <3>2. rows'[t] = rows[t] /\ InTime(t)
            BY <1>1, <1>2, <2>3, <3>1 DEF TheftInv, InWindow
        <3>3. CASE rows[t].state = "rotated"
            <4>1. rows[t].next \in TokenId /\ rows[t].next # n
                BY <1>1, <3>1, <3>3 DEF AuthInv, IssuedInOrder, TheftInv, Known
            <4> QED
                BY <1>1, <3>2, <4>1 DEF InTime, Live
        <3> QED
            BY <3>2, <3>3 DEF InTime
    <2> QED
        BY <2>2, <2>3
<1>16. NoFalseTheft'
    BY <1>2 DEF TheftInv, NoFalseTheft
<1> QED
    BY <1>11, <1>12, <1>14, <1>15, <1>16 DEF TheftInv

LEMMA StaleKeepsToken ==
    ASSUME NEW s \in Session \cup {NoSession}
    PROVE  /\ Stale(s) = NoSession <=> s = NoSession
           /\ s # NoSession => Stale(s) \in Session /\ Stale(s).token = s.token
<1>1. CASE s = NoSession
    BY <1>1 DEF Stale
<1>2. CASE s # NoSession
    <2>1. s \in Session /\ Stale(s) = [s EXCEPT !.fresh = FALSE]
        BY <1>2 DEF Stale
    <2>2. Stale(s) \in Session /\ Stale(s).token = s.token
        BY <2>1 DEF Session
    <2> QED
        BY <1>2, <2>2, AuthNoSession
<1> QED
    BY <1>1, <1>2

LEMMA TimePassesDoes ==
    ASSUME AuthInv, TimePasses
    PROVE  \A t \in TokenId :
               /\ rows'[t].next = rows[t].next
               /\ rows'[t].state = IF rows[t].state = "rotated" THEN "lapsed" ELSE rows[t].state
<1>1. \A t \in TokenId : LET new == [rows[t] EXCEPT !.state = "lapsed"]
                         IN new.next = rows[t].next /\ new.state = "lapsed"
    BY DEF AuthInv, AuthTypeOK, Row
<1> QED
    BY <1>1 DEF TimePasses

LEMMA TimePassesKeepsTheft ==
    ASSUME AuthInv, TheftInv, TimePasses
    PROVE  TheftInv'
<1>1. /\ UNCHANGED <<issued, stolen, flight, command, restore, net>>
      /\ flight = NoFlight /\ command = NoCommand /\ net = {} /\ restore.at = "idle"
    BY DEF TimePasses, Idle, taskVars
<1>2. excused' = (excused \/ \E t \in Presentable : Reused(t))
    BY DEF TimePasses
<1>3. excused => excused'
    BY <1>2, Zenon
<1>4. ~excused' => ~excused /\ \A t \in Presentable : ~Reused(t)
    BY <1>2, Zenon
<1>5. \A t \in TokenId :
               /\ rows'[t].next = rows[t].next
               /\ rows'[t].state = IF rows[t].state = "rotated" THEN "lapsed" ELSE rows[t].state
    BY TimePassesDoes
<1>6. \A t : ~Successor(t)'
    BY <1>5 DEF Successor
<1>7. \A s \in Held' : \E r \in Held : r.token = s.token
    <2>1. memory \in Session \cup {NoSession} /\ file \in Session \cup {NoSession}
          /\ memory' = Stale(memory) /\ file' = Stale(file)
        BY DEF AuthInv, AuthTypeOK, TimePasses
    <2>2. memory' # NoSession => memory # NoSession /\ memory'.token = memory.token
        BY <2>1, StaleKeepsToken
    <2>3. file' # NoSession => file # NoSession /\ file'.token = file.token
        BY <2>1, StaleKeepsToken
    <2> QED
        BY <1>1, <2>2, <2>3 DEF Held
<1>8. Known'
    BY <1>1, <1>5, <1>7 DEF TheftInv, Known
<1>9. Unused'
    BY <1>6 DEF Unused
<1>10. Answers'
    BY <1>1 DEF Answers, NoFlight
<1>11. InWindow'
    <2> SUFFICES ASSUME ~excused', NEW t \in Presentable' PROVE InTime(t)'
        BY DEF InWindow
    <2>1. t \in Presentable /\ t \in TokenId
        <3>1. \E s \in Held' : s.token = t
            BY <1>1 DEF Presentable, Held
        <3> QED
            BY <1>7, <3>1, HeldIsPresentable, HeldIsSessions
    <2>2. rows[t].state \notin {"rotated", "lapsed"}
        BY <1>4, <2>1 DEF Reused
    <2> QED
        BY <1>5, <2>1, <2>2 DEF InTime
<1>12. NoFalseTheft'
    BY <1>1, <1>3 DEF TheftInv, NoFalseTheft
<1> QED
    BY <1>8, <1>9, <1>10, <1>11, <1>12 DEF TheftInv

LEMMA TokenExpiresKeepsTheft ==
    ASSUME AuthInv, TheftInv, NEW t \in TokenId, TokenExpires(t)
    PROVE  TheftInv'
<1>1. /\ UNCHANGED <<issued, stolen, excused, memory, file, flight, command, restore, net>>
      /\ flight = NoFlight /\ net = {} /\ Live(t) /\ \A u \in TokenId : rows[u].state # "rotated"
    BY DEF TokenExpires, Idle, taskVars, innerVars
<1>2. /\ rows'[t].state = "expired" /\ rows'[t].next = rows[t].next
      /\ \A u \in TokenId \ {t} : rows'[u] = rows[u]
    BY OneRowDoes DEF TokenExpires
<1>3. \A u \in TokenId : rows'[u].state # "rotated" /\ (rows'[u].state = "lapsed" => rows[u].state = "lapsed")
    BY <1>1, <1>2
<1>4. Held' = Held /\ Presentable' = Presentable
    BY <1>1 DEF Held, Presentable
<1>5. Known'
    BY <1>1, <1>3, <1>4 DEF TheftInv, Known
<1>6. Unused'
    BY <1>3 DEF Unused, Successor
<1>7. Answers'
    BY <1>1 DEF Answers, NoFlight
<1>8. InWindow'
    <2> SUFFICES ASSUME ~excused', NEW u \in Presentable' PROVE InTime(u)'
        BY DEF InWindow
    <2>1. u \in Presentable /\ u \in TokenId
        BY <1>4, HeldIsPresentable, HeldIsSessions DEF AuthInv, AuthTypeOK, Message
    <2> QED
        BY <1>1, <1>3, <2>1 DEF TheftInv, InWindow, InTime
<1>9. NoFalseTheft'
    BY <1>1 DEF TheftInv, NoFalseTheft
<1> QED
    BY <1>5, <1>6, <1>7, <1>8, <1>9 DEF TheftInv

LEMMA SameTheft ==
    ASSUME AuthInv, TheftInv, UNCHANGED authVars
    PROVE  TheftInv'
<1>1. UNCHANGED <<rows, issued, stolen, excused, net, flight>> /\ Held' = Held
    BY DEF authVars, Held
<1> QED
    BY <1>1, ClientKeepsTheft DEF TheftInv, Known, Answers

LEMMA TheftStep ==
    ASSUME AuthInv, TheftInv, [AuthNext]_authVars
    PROVE  TheftInv'
BY SameTheft, ServeRefreshKeepsTheft, ServeLogoutKeepsTheft, StartRefreshKeepsTheft, RefreshedKeepsTheft,
   RefreshEndsKeepsTheft, LossKeepsTheft, SetSessionKeepsTheft, CommandKeepsTheft, RestoreKeepsTheft,
   TimePassesKeepsTheft, TokenExpiresKeepsTheft, RelaunchKeepsTheft
DEF AuthNext

\* What answers carry is unused until an access token's life has passed, in every state.
THEOREM TheftInvariance == AuthSpec => []TheftInv
<1>1. AuthInv /\ TheftInv /\ [AuthNext]_authVars => TheftInv'
    BY TheftStep
<1> QED
    BY <1>1, AuthInvariance, TheftInitially, PTL DEF AuthSpec

\* The app is taken for a thief only after it held a rotated token past its window or past the
\* logout of its successor, whatever is lost, crashes or cannot be written.
THEOREM NoFalseTheftAlways == AuthSpec => []NoFalseTheft
<1>1. TheftInv => NoFalseTheft
    BY DEF TheftInv
<1> QED
    BY <1>1, TheftInvariance, PTL

-----------------------------------------------------------------------------
(* NothingLeftBehind. Every live token is in the session, on its way in an  *)
(* answer or a revoke, or held by the logout that will revoke it; before a  *)
(* restore it is the file's. The epoch tells whether the session in memory  *)
(* is still the one the refresh under way was made for.                     *)
Clean == authFaults = 0 /\ ~overtaken

\* Until the session is loaded only auth_restore runs, and every live token is the file's.
Asleep == ~loaded =>
    /\ memory = NoSession /\ net = {} /\ flight = NoFlight /\ command = NoCommand
    /\ restore.launched /\ restore.at \in {"idle", "read"}
    /\ restore.at = "read" => restore.session = file
    /\ \A t \in TokenId : Live(t) => file # NoSession /\ file.token = t

\* Where a live token may be.
Accounted(t) ==
    \/ memory # NoSession /\ memory.token = t
    \/ \E m \in net : m.kind \in {"logout", "rotated"} /\ m.token = t
    \/ command.at = "delete" /\ command.session # NoSession /\ command.session.token = t
Awake == loaded => restore.at \in {"idle", "check"} /\ \A t \in TokenId : Live(t) => Accounted(t)

\* The file is the session's, or somebody has still to write or delete it.
Written == loaded => \/ file = memory
                     \/ flight.at \in {"write", "delete"} \/ command.at \in {"write", "delete"}

\* The one request or answer belongs to the refresh under way, and an answer's request used up its token.
OneAtATime ==
    /\ \A m \in net : m.kind # "logout" => m.waiting /\ flight.at = "sent"
    /\ \A m, n \in net : m.kind # "logout" /\ n.kind # "logout" => m = n
    /\ \A m \in net : m.kind = "refresh" => m.token = flight.token
    /\ \A m \in net : m.kind \in {"rotated", "dead"} => ~Live(flight.token)
    /\ flight.at = "dead" => flight.token \in TokenId /\ ~Live(flight.token)

\* While the epoch is the refresh's, the session is the one it was made for.
Epochs ==
    /\ flight.epoch <= epoch
    /\ flight.at \in {"sent", "dead"} /\ epoch = flight.epoch /\ memory # NoSession
         => memory.token = flight.token

Tidy == Asleep /\ Awake /\ Written /\ OneAtATime /\ Epochs
CleanInv == Clean => Tidy

LEMMA TidyInitially == AuthInit => CleanInv
BY DEF AuthInit, CleanInv, Tidy, Asleep, Awake, Written, OneAtATime, Epochs, Live, Launch, NoRestore, NoFlight

LEMMA FaultCounts ==
    ASSUME AuthInv, NEW kind, AuthFault(kind)
    PROVE  authFaults' # 0
BY DEF AuthFault, AuthInv, AuthTypeOK

\* Faults and overtaken writes are not forgotten.
LEMMA CleanBefore ==
    ASSUME AuthInv, [AuthNext]_authVars, Clean'
    PROVE  Clean
<1>1. authFaults' = authFaults \/ authFaults' = authFaults + 1
    BY DEF AuthNext, authVars, ServeRefresh, ServeLogout, StartRefresh, Refreshed, Rejected, RefreshFails, LogoutLost,
       RefreshPersists, Expire, ExpireDeletes, SetSession, SetUser, Logout, CommandWrites, CommandDeletes,
       RestoreReads, RestoreAdopts, RestoreSucceeds, RestoreDrops, TimePasses, TokenExpires, Relaunch,
       AuthFault, countVars
<1>2. overtaken' = overtaken \/ (\E other : overtaken' = (overtaken \/ other))
    BY DEF AuthNext, authVars, ServeRefresh, ServeLogout, StartRefresh, Refreshed, Rejected, RefreshFails, LogoutLost,
       RefreshPersists, Expire, ExpireDeletes, SetSession, SetUser, Logout, CommandWrites, CommandDeletes,
       RestoreReads, RestoreAdopts, RestoreSucceeds, RestoreDrops, TimePasses, TokenExpires, Relaunch
<1>3. ~overtaken' => ~overtaken
    BY <1>2, Zenon
<1>4. authFaults' = 0 => authFaults = 0
    BY <1>1 DEF AuthInv, AuthTypeOK
<1> QED
    BY <1>3, <1>4 DEF Clean

LEMMA UnderWay ==
    ASSUME AuthInv, Tidy, net # {} \/ flight # NoFlight \/ command # NoCommand \/ memory # NoSession
                          \/ ~restore.launched \/ restore.at = "check"
    PROVE  loaded
BY DEF Tidy, Asleep

LEMMA ReplyDoes ==
    ASSUME AuthInv, Tidy, NEW q \in net, q.kind = "refresh", NEW kind, NEW t, Reply(q, kind, t)
    PROVE  /\ flight.at = "sent" /\ q.token = flight.token
           /\ \A m \in net' : (m \in net /\ m.kind = "logout") \/ (m.kind = kind /\ m.token = t /\ m.waiting)
           /\ \A m, n \in net' : m.kind # "logout" /\ n.kind # "logout" => m = n
           /\ \A m \in net : m # q => m \in net'
           /\ \E m \in net' : m.kind = kind /\ m.token = t
<1>1. q.waiting /\ flight.at = "sent" /\ q.token = flight.token
    BY DEF Tidy, OneAtATime
<1> PICK a : a = [kind |-> kind, token |-> t, waiting |-> TRUE]
    OBVIOUS
<1>2. net' = (net \ {q}) \cup {a}
    BY <1>1 DEF Reply
<1>3. a.kind = kind /\ a.token = t /\ a.waiting
    OBVIOUS
<1>4. \A m \in net : m.kind # "logout" => m = q
    BY DEF Tidy, OneAtATime
<1> QED
    BY <1>1, <1>2, <1>3, <1>4

LEMMA ServeRefreshKeepsTidy ==
    ASSUME AuthInv, Known, Tidy, NEW q \in net, ServeRefresh(q)
    PROVE  Tidy'
<1>0. loaded /\ q.kind = "refresh" /\ q.token \in TokenId /\ q.token <= issued
    BY UnderWay, ServeRefreshIs DEF AuthInv, AuthTypeOK, Message, Known
<1>1. UNCHANGED <<memory, epoch, loaded, file, flight, command, restore>>
    BY ServeRefreshIs
<1>2. Asleep' /\ Written' /\ Epochs'
    BY <1>0, <1>1 DEF Tidy, Asleep, Written, Epochs
<1>3. /\ flight.at = "sent" /\ q.token = flight.token
      /\ \A m, n \in net' : m.kind # "logout" /\ n.kind # "logout" => m = n
      /\ \A m \in net : m # q => m \in net'
      /\ \A m \in net' : m.kind = "logout" \/ m.waiting
      /\ \A m \in net' : m.kind # "refresh"
    <2>1. PICK kind \in {"rotated", "dead"}, t \in {issued + 1, rows[q.token].next, q.token} : Reply(q, kind, t)
        BY ServeRefreshIs DEF Rotation, Replay, Theft, Refusal
    <2> QED
        BY <1>0, <2>1, ReplyDoes
<1>4. \A t \in TokenId : Accounted(t) => Accounted(t)'
    BY <1>0, <1>1, <1>3 DEF Accounted
<1>5. ~Live(flight.token)' /\ \A t \in TokenId : Live(t)' => Accounted(t)'
    <2>0. \A t \in TokenId : Live(t) => Accounted(t)
        BY <1>0 DEF Tidy, Awake
    <2>1. CASE Rotation(q)
        <3> PICK n : n = issued + 1
            OBVIOUS
        <3>1. /\ q.token # n /\ rows'[q.token].state = "rotated"
              /\ \A t \in TokenId \ {q.token, n} : rows'[t] = rows[t]
            BY <2>1, RotationDoes
        <3>2. \E m \in net' : m.kind = "rotated" /\ m.token = n
            BY <1>0, <2>1, ReplyDoes DEF Rotation
        <3>3. Accounted(n)'
            BY <3>2 DEF Accounted
        <3>4. ~Live(flight.token)'
            BY <1>1, <1>3, <3>1 DEF Live
        <3>5. ASSUME NEW t \in TokenId, Live(t)' PROVE Accounted(t)'
            <4>1. CASE t = n
                BY <3>2, <4>1 DEF Accounted
            <4>2. CASE t = q.token
                BY <3>1, <3>5, <4>2 DEF Live
            <4>3. CASE t \notin {n, q.token}
                BY <1>4, <2>0, <3>1, <3>5, <4>3 DEF Live
            <4> QED
                BY <4>1, <4>2, <4>3
        <3> QED
            BY <3>4, <3>5
    <2>2. CASE Replay(q) \/ Refusal(q)
        <3>1. rows' = rows
            BY <2>2 DEF Replay, Refusal, serverVars
        <3>2. ~Live(q.token)
            BY <2>2 DEF Replay, Refusal, Rotates, Live
        <3> QED
            BY <1>1, <1>3, <1>4, <2>0, <3>1, <3>2 DEF Live
    <2>3. CASE Theft(q)
        <3>1. \A t \in TokenId : rows'[t].state # "live"
            BY <2>3, TheftDoes
        <3> QED
            BY <1>0, <1>1, <1>3, <3>1 DEF Live
    <2> QED
        BY <2>1, <2>2, <2>3, ServeRefreshIs
<1>6. Awake'
    BY <1>0, <1>1, <1>5 DEF Tidy, Awake
<1>7. OneAtATime'
    BY <1>1, <1>3, <1>5 DEF OneAtATime
<1> QED
    BY <1>2, <1>6, <1>7 DEF Tidy

LEMMA ServeLogoutKeepsTidy ==
    ASSUME AuthInv, Known, Tidy, NEW q \in net, ServeLogout(q)
    PROVE  Tidy'
<1>0. loaded /\ q.kind = "logout" /\ q.token \in TokenId
    BY UnderWay DEF ServeLogout, AuthInv, AuthTypeOK, Message
<1>1. UNCHANGED <<memory, epoch, loaded, file, flight, command, restore>> /\ net' = net \ {q}
    BY DEF ServeLogout, innerVars, taskVars
<1>2. Asleep' /\ Written' /\ Epochs'
    BY <1>0, <1>1 DEF Tidy, Asleep, Written, Epochs
<1>3. rows'[q.token].state # "live" /\ \A t \in TokenId \ {q.token} : rows'[t] = rows[t]
    <2>1. CASE rows[q.token].state \in {"live", "expired"} /\ rows' = [rows EXCEPT ![q.token].state = "ended"]
        <3>1. rows'[q.token].state = "ended" /\ \A t \in TokenId \ {q.token} : rows'[t] = rows[t]
            BY ONLY AuthInv, <1>0, <2>1, OneRowDoes
        <3> QED
            BY <3>1
    <2>2. CASE rows' = rows /\ rows[q.token].state # "live"
        BY <2>2
    <2> QED
        BY <2>1, <2>2 DEF ServeLogout
<1>4. \A t \in TokenId : Live(t)' => Live(t) /\ t # q.token
    BY <1>3 DEF Live
<1>5. \A t \in TokenId : t # q.token /\ Accounted(t) => Accounted(t)'
    BY <1>1 DEF Accounted
<1>6. Awake'
    BY <1>0, <1>1, <1>4, <1>5 DEF Tidy, Awake
<1>7. flight.at \in {"sent", "dead"} => (Live(flight.token)' => Live(flight.token))
    BY <1>1, <1>4 DEF Tidy, OneAtATime, AuthInv, FlightHasToken
<1>8. OneAtATime'
    BY <1>1, <1>7 DEF Tidy, OneAtATime
<1> QED
    BY <1>2, <1>6, <1>8 DEF Tidy

\* A step of the client leaves the rows alone.
LEMMA SameLive ==
    ASSUME UNCHANGED rows
    PROVE  \A t : Live(t)' <=> Live(t)
BY DEF Live

LEMMA StartRefreshKeepsTidy ==
    ASSUME AuthInv, Tidy, NEW restores \in BOOLEAN, StartRefresh(restores)
    PROVE  Tidy'
<1>0. /\ loaded /\ memory # NoSession /\ flight.at = "idle" /\ flight.at # "sent"
      /\ UNCHANGED <<rows, issued, memory, epoch, loaded, file, command, restore>>
    BY UnderWay DEF StartRefresh, serverVars, innerVars
<1> PICK q : q = Request("refresh", memory.token)
    OBVIOUS
<1>1. q.kind = "refresh" /\ q.token = memory.token /\ q.waiting
    BY DEF Request
<1>2. net' = net \cup {q}
    BY DEF StartRefresh
<1>3. flight'.at = "sent" /\ flight'.token = memory.token /\ flight'.epoch = epoch
    BY DEF StartRefresh
<1>4. \A m \in net : m.kind = "logout"
    BY <1>0 DEF Tidy, OneAtATime
<1>5. Asleep' /\ Written'
    BY <1>0 DEF Tidy, Asleep, Written
<1>6. Epochs'
    BY <1>0, <1>3 DEF Epochs, AuthInv, AuthTypeOK
<1>7. OneAtATime'
    BY <1>1, <1>2, <1>3, <1>4 DEF OneAtATime
<1>8. \A t \in TokenId : Accounted(t) => Accounted(t)'
    BY <1>0, <1>2 DEF Accounted
<1>9. Awake'
    BY <1>0, <1>8, SameLive DEF Tidy, Awake
<1> QED
    BY <1>5, <1>6, <1>7, <1>9 DEF Tidy

LEMMA NewSession ==
    ASSUME NEW t \in TokenId, NEW s, s = [token |-> t, fresh |-> TRUE]
    PROVE  s # NoSession /\ s.token = t
<1>1. s \in Session
    BY DEF Session
<1> QED
    BY <1>1, AuthNoSession

LEMMA RefreshedKeepsTidy ==
    ASSUME AuthInv, Tidy, NEW m \in net, Refreshed(m)
    PROVE  Tidy'
<1>0. /\ loaded /\ m.kind = "rotated" /\ flight.at = "sent" /\ m.token \in TokenId
      /\ UNCHANGED <<rows, issued, epoch, loaded, file, command, restore>>
    BY UnderWay DEF Refreshed, serverVars, Tidy, OneAtATime, AuthInv, AuthTypeOK, Message
<1>1. ~Live(flight.token) /\ \A n \in net \ {m} : n.kind = "logout"
    BY <1>0 DEF Tidy, OneAtATime
<1>2. Asleep'
    BY <1>0 DEF Asleep
<1>3. CASE /\ StillThere(flight) /\ memory' = [token |-> m.token, fresh |-> TRUE]
           /\ flight' = [flight EXCEPT !.at = "write", !.token = m.token]
           /\ net' = net \ {m}
    <2>1. flight'.at = "write" /\ flight'.epoch = flight.epoch
        BY <1>3 DEF AuthInv, AuthTypeOK, Flight
    <2>2. memory' # NoSession /\ memory'.token = m.token
        BY <1>0, <1>3, NewSession
    <2>3. ASSUME NEW t \in TokenId, Live(t) PROVE Accounted(t)'
        <3>1. Accounted(t)
            BY <1>0, <2>3 DEF Tidy, Awake
        <3>2. memory # NoSession /\ memory.token = flight.token
            BY <1>0, <1>3 DEF StillThere, Tidy, Epochs
        <3>3. memory.token # t
            BY <1>1, <2>3, <3>2
        <3>4. CASE t = m.token
            BY <2>2, <3>4 DEF Accounted
        <3>5. CASE t # m.token
            BY <1>0, <1>3, <3>1, <3>3, <3>5 DEF Accounted
        <3> QED
            BY <3>4, <3>5
    <2>4. Awake'
        BY <1>0, <2>3, SameLive DEF Tidy, Awake
    <2>5. OneAtATime'
        BY <1>1, <1>3, <2>1 DEF OneAtATime
    <2>6. Epochs'
        BY <1>0, <2>1 DEF Tidy, Epochs
    <2> QED
        BY <1>2, <2>1, <2>4, <2>5, <2>6 DEF Tidy, Written
<1>4. CASE flight' = NoFlight /\ net' = (net \ {m}) \cup {Request("logout", m.token)} /\ UNCHANGED memory
    <2>1. flight'.at = "idle" /\ flight'.epoch = 0
        BY <1>4 DEF NoFlight
    <2> PICK q : q = Request("logout", m.token)
        OBVIOUS
    <2>2. q.kind = "logout" /\ q.token = m.token /\ net' = (net \ {m}) \cup {q}
        BY <1>4 DEF Request
    <2>3. \A t \in TokenId : Accounted(t) => Accounted(t)'
        BY <1>0, <1>4, <2>2 DEF Accounted
    <2>4. Awake'
        BY <1>0, <2>3, SameLive DEF Tidy, Awake
    <2>5. OneAtATime'
        BY <1>1, <2>1, <2>2 DEF OneAtATime
    <2>6. Epochs'
        BY <1>0, <2>1 DEF Epochs, AuthInv, AuthTypeOK
    <2>7. Written'
        BY <1>0, <1>4 DEF Tidy, Written
    <2> QED
        BY <1>2, <2>4, <2>5, <2>6, <2>7 DEF Tidy
<1> QED
    BY <1>3, <1>4 DEF Refreshed

LEMMA RejectedKeepsTidy ==
    ASSUME AuthInv, Tidy, NEW m \in net, Rejected(m)
    PROVE  Tidy'
<1>0. /\ loaded /\ m.kind = "dead" /\ flight.at = "sent" /\ flight.token \in TokenId /\ net' = net \ {m}
      /\ UNCHANGED <<rows, issued, memory, epoch, loaded, file, command, restore>>
    BY UnderWay DEF Rejected, serverVars, innerVars, Tidy, OneAtATime, AuthInv, FlightHasToken
<1>1. ~Live(flight.token) /\ \A n \in net' : n.kind = "logout"
    BY <1>0 DEF Tidy, OneAtATime
<1>2. \/ flight' = NoFlight
      \/ flight'.at = "dead" /\ flight'.token = flight.token /\ flight'.epoch = flight.epoch
    <2>1. [flight EXCEPT !.at = "dead"].at = "dead" /\ [flight EXCEPT !.at = "dead"].token = flight.token
          /\ [flight EXCEPT !.at = "dead"].epoch = flight.epoch
        BY DEF AuthInv, AuthTypeOK, Flight
    <2> QED
        BY <2>1 DEF Rejected
<1>3. \/ flight'.at = "idle" /\ flight'.epoch = 0
      \/ flight'.at = "dead" /\ flight'.token = flight.token /\ flight'.epoch = flight.epoch
    BY <1>2 DEF NoFlight
<1>4. Asleep' /\ Written'
    BY <1>0 DEF Tidy, Asleep, Written
<1>5. \A t \in TokenId : Accounted(t) => Accounted(t)'
    BY <1>0 DEF Accounted
<1>6. Awake'
    BY <1>0, <1>5, SameLive DEF Tidy, Awake
<1>7. OneAtATime'
    BY <1>0, <1>1, <1>3, SameLive DEF OneAtATime
<1>8. Epochs'
    BY <1>0, <1>3 DEF Tidy, Epochs, AuthInv, AuthTypeOK
<1> QED
    BY <1>4, <1>6, <1>7, <1>8 DEF Tidy

LEMMA ExpireKeepsTidy ==
    ASSUME AuthInv, Tidy, Expire, ~overtaken'
    PROVE  Tidy'
<1>0. /\ loaded /\ loaded' /\ flight.at = "dead" /\ memory' = NoSession /\ epoch' = epoch + 1
      /\ UNCHANGED <<rows, issued, file, command, restore, net>>
    BY UnderWay DEF Expire, serverVars, NoFlight
<1>1. overtaken' = (overtaken \/ epoch # flight.epoch)
    BY DEF Expire
<1>2. epoch = flight.epoch
    BY <1>1, Zenon
<1>3. flight'.at = "delete" /\ flight'.epoch = flight.epoch
    BY DEF Expire, AuthInv, AuthTypeOK, Flight
<1>4. Asleep' /\ Written'
    BY <1>0, <1>3 DEF Asleep, Written
<1>5. ASSUME NEW t \in TokenId, Live(t) PROVE Accounted(t)'
    <2>1. ~(memory # NoSession /\ memory.token = t)
        BY <1>0, <1>2, <1>5 DEF Tidy, Epochs, OneAtATime
    <2> QED
        BY <1>0, <1>5, <2>1 DEF Tidy, Awake, Accounted
<1>6. Awake'
    BY <1>0, <1>5, SameLive DEF Tidy, Awake
<1>7. OneAtATime'
    BY <1>0, <1>3 DEF Tidy, OneAtATime
<1>8. Epochs'
    BY <1>0, <1>2, <1>3 DEF Epochs, AuthInv, AuthTypeOK
<1> QED
    BY <1>4, <1>6, <1>7, <1>8 DEF Tidy

\* The writes to the file, by the refresh and by a command: they find the session they write.
LEMMA WriteKeepsTidy ==
    ASSUME AuthInv, Tidy, Clean', RefreshPersists \/ ExpireDeletes \/ CommandWrites
    PROVE  Tidy'
<1>0. /\ loaded /\ UNCHANGED <<rows, issued, memory, epoch, loaded, restore, net>>
    BY UnderWay DEF RefreshPersists, ExpireDeletes, CommandWrites, serverVars, innerVars, NoFlight, NoCommand
<1>1. file' = memory /\ (flight' = NoFlight \/ flight' = flight) /\ (command' = NoCommand \/ command' = command)
    <2>1. CASE RefreshPersists
        <3>1. PICK s : overtaken' = (overtaken \/ memory # s) /\ file' = s
            BY <2>1, FaultCounts DEF RefreshPersists, Clean
        <3>2. ~overtaken'
            BY DEF Clean
        <3>3. memory = s
            BY <3>1, <3>2, Zenon
        <3> QED
            BY <2>1, <3>1, <3>3 DEF RefreshPersists
    <2>2. CASE ExpireDeletes
        <3>1. overtaken' = (overtaken \/ memory # NoSession) /\ file' = NoSession
            BY <2>2 DEF ExpireDeletes
        <3>2. ~overtaken'
            BY DEF Clean
        <3>3. memory = NoSession
            BY <3>1, <3>2, Zenon
        <3> QED
            BY <2>2, <3>1, <3>3 DEF ExpireDeletes
    <2>3. CASE CommandWrites
        <3>1. overtaken' = (overtaken \/ memory # command.session) /\ file' = command.session
            BY <2>3, FaultCounts DEF CommandWrites, Clean
        <3>2. ~overtaken'
            BY DEF Clean
        <3>3. memory = command.session
            BY <3>1, <3>2, Zenon
        <3> QED
            BY <2>3, <3>1, <3>3 DEF CommandWrites
    <2> QED
        BY <2>1, <2>2, <2>3
<1>2. flight' = flight \/ (flight.at \in {"write", "delete"} /\ flight'.at = "idle" /\ flight'.epoch = 0)
    BY DEF RefreshPersists, ExpireDeletes, CommandWrites, NoFlight
<1>3. command.at = "delete" => command' = command
    BY DEF RefreshPersists, ExpireDeletes, CommandWrites
<1>4. Asleep' /\ Written'
    BY <1>0, <1>1 DEF Asleep, Written
<1>5. \A t \in TokenId : Accounted(t) => Accounted(t)'
    BY <1>0, <1>3 DEF Accounted
<1>6. Awake'
    BY <1>0, <1>5, SameLive DEF Tidy, Awake
<1>7. OneAtATime'
    <2>1. CASE flight' = flight
        BY <1>0, <2>1, SameLive DEF Tidy, OneAtATime
    <2>2. CASE flight.at \in {"write", "delete"} /\ flight'.at = "idle"
        BY <1>0, <2>2 DEF Tidy, OneAtATime
    <2> QED
        BY <1>2, <2>1, <2>2
<1>8. Epochs'
    BY <1>0, <1>2 DEF Tidy, Epochs, AuthInv, AuthTypeOK
<1> QED
    BY <1>4, <1>6, <1>7, <1>8 DEF Tidy

LEMMA CommandStartsTidy ==
    ASSUME AuthInv, Tidy, SetUser \/ Logout
    PROVE  Tidy'
<1>0. loaded /\ loaded' /\ command = NoCommand /\ UNCHANGED <<rows, issued, file, flight, restore, net>>
    BY UnderWay DEF SetUser, Logout, NewCommand, serverVars, innerVars
<1>1. CASE SetUser
    <2>1. command'.at = "write" /\ UNCHANGED <<memory, epoch, loaded>>
        BY <1>1 DEF SetUser, innerVars
    <2>2. \A t \in TokenId : Accounted(t) => Accounted(t)'
        BY <1>0, <2>1 DEF Accounted, NoCommand
    <2> QED
        BY <1>0, <2>1, <2>2, SameLive DEF Tidy, Asleep, Awake, Written, OneAtATime, Epochs
<1>2. CASE Logout
    <2>1. command'.at = "delete" /\ command'.session = memory /\ memory' = NoSession /\ epoch' = epoch + 1
        BY <1>2 DEF Logout
    <2>2. \A t \in TokenId : Accounted(t) => Accounted(t)'
        BY <1>0, <2>1 DEF Accounted, NoCommand
    <2>3. Epochs'
        BY <1>0, <2>1 DEF Tidy, Epochs, AuthInv, AuthTypeOK, Flight
    <2>4. Asleep' /\ Awake' /\ Written'
        BY <1>0, <2>1, <2>2, SameLive DEF Tidy, Asleep, Awake, Written
    <2>5. OneAtATime'
        BY <1>0, SameLive DEF Tidy, OneAtATime
    <2> QED
        BY <2>3, <2>4, <2>5 DEF Tidy
<1> QED
    BY <1>1, <1>2

LEMMA RevokeDoes ==
    ASSUME NEW s
    PROVE  /\ \A m \in Revoke(s) : m.kind = "logout"
           /\ s # NoSession => \E m \in Revoke(s) : m.kind = "logout" /\ m.token = s.token
<1> PICK q : q = Request("logout", s.token)
    OBVIOUS
<1>1. q.kind = "logout" /\ q.token = s.token
    BY DEF Request
<1>2. CASE s = NoSession
    BY <1>2 DEF Revoke
<1>3. CASE s # NoSession
    BY <1>1, <1>3 DEF Revoke
<1> QED
    BY <1>2, <1>3

LEMMA CommandDeletesKeepsTidy ==
    ASSUME AuthInv, Tidy, ~overtaken', CommandDeletes
    PROVE  Tidy'
<1>0. /\ loaded /\ command.at = "delete" /\ file' = NoSession /\ command'.at = "idle"
      /\ UNCHANGED <<rows, issued, memory, epoch, loaded, flight, restore>>
    BY UnderWay DEF CommandDeletes, serverVars, innerVars, NoCommand
<1>1. overtaken' = (overtaken \/ memory # NoSession)
    BY DEF CommandDeletes
<1>2. memory = NoSession
    BY <1>1, Zenon
<1>3. net' = net \cup Revoke(command.session)
    BY DEF CommandDeletes
<1>4. \A t \in TokenId : Accounted(t) => Accounted(t)'
    BY <1>0, <1>2, <1>3, RevokeDoes DEF Accounted
<1>5. Awake' /\ Asleep' /\ Written'
    BY <1>0, <1>2, <1>4, SameLive DEF Tidy, Awake, Asleep, Written
<1>6. OneAtATime'
    BY <1>0, <1>3, RevokeDoes, SameLive DEF Tidy, OneAtATime
<1>7. Epochs'
    BY <1>0 DEF Tidy, Epochs
<1> QED
    BY <1>5, <1>6, <1>7 DEF Tidy

LEMMA SetSessionKeepsTidy ==
    ASSUME AuthInv, Known, Tidy, SetSession
    PROVE  Tidy'
<1> PICK n : n = issued + 1
    OBVIOUS
<1>0. /\ loaded /\ loaded' /\ command = NoCommand /\ command'.at = "write" /\ epoch' = epoch + 1
      /\ memory'.token = n /\ net' = net \cup Revoke(memory) /\ UNCHANGED <<file, flight, restore>>
    BY UnderWay DEF SetSession, NewCommand
<1>1. n \in TokenId /\ ~(n <= issued) /\ \A t \in TokenId \ {n} : rows'[t] = rows[t]
    BY LoginDoes
<1>2. memory' # NoSession
    BY <1>1, NewSession DEF SetSession
<1>3. ASSUME NEW t \in TokenId, Live(t)' PROVE Accounted(t)'
    <2>1. CASE t = n
        BY <1>0, <1>2, <2>1 DEF Accounted
    <2>2. CASE t # n
        <3>1. Live(t) /\ Accounted(t)
            BY <1>0, <1>1, <1>3, <2>2 DEF Live, Tidy, Awake
        <3> QED
            BY <1>0, <3>1, RevokeDoes DEF Accounted, NoCommand
    <2> QED
        BY <2>1, <2>2
<1>4. Awake' /\ Asleep' /\ Written'
    BY <1>0, <1>3 DEF Tidy, Awake, Asleep, Written
<1>5. flight.at \in {"sent", "dead"} => flight.token \in TokenId /\ flight.token # n
    BY <1>1 DEF Tidy, OneAtATime, AuthInv, FlightHasToken, Known
<1>6. flight.at \in {"sent", "dead"} => (Live(flight.token)' <=> Live(flight.token))
    BY <1>0, <1>1, <1>5 DEF Live
<1>7. OneAtATime'
    BY <1>0, <1>6, RevokeDoes DEF Tidy, OneAtATime
<1>8. Epochs'
    BY <1>0 DEF Tidy, Epochs, AuthInv, AuthTypeOK, Flight
<1> QED
    BY <1>4, <1>7, <1>8 DEF Tidy

LEMMA RestoreKeepsTidy ==
    ASSUME AuthInv, Tidy, RestoreReads \/ RestoreAdopts \/ RestoreSucceeds \/ RestoreDrops
    PROVE  Tidy'
<1>0. UNCHANGED <<rows, issued, file, flight, command, net>> /\ restore \in Restore
    BY DEF RestoreReads, RestoreAdopts, RestoreSucceeds, RestoreDrops, serverVars, AuthInv, AuthTypeOK
<1>1. OneAtATime'
    BY <1>0, SameLive DEF Tidy, OneAtATime
<1>2. CASE RestoreReads
    <2>1. ~loaded /\ UNCHANGED <<memory, epoch, loaded>>
        BY <1>2 DEF RestoreReads, innerVars
    <2>2. restore'.at = "read" /\ restore'.session = file /\ restore'.launched = restore.launched
        BY <1>0, <1>2 DEF RestoreReads, Restore
    <2>3. Asleep'
        BY <1>0, <2>1, <2>2, SameLive DEF Tidy, Asleep
    <2> QED
        BY <1>0, <1>1, <2>1, <2>3 DEF Tidy, Awake, Written, Epochs
<1>3. CASE RestoreAdopts
    <2>1. ~loaded /\ loaded' /\ restore.at = "read"
        BY <1>3 DEF RestoreAdopts, Tidy, Awake
    <2>2. /\ memory = NoSession /\ restore.session = file /\ flight = NoFlight
          /\ \A t \in TokenId : Live(t) => file # NoSession /\ file.token = t
        BY <2>1 DEF Tidy, Asleep
    <2>3. memory' = file /\ file' = file
        BY <1>0, <1>3, <2>1, <2>2 DEF RestoreAdopts
    <2>4. restore'.at \in {"idle", "check"}
        <3>1. [restore EXCEPT !.at = "check"].at = "check"
            BY <1>0 DEF Restore
        <3> QED
            BY <1>3, <3>1 DEF RestoreAdopts, NoRestore
    <2>5. \A t \in TokenId : Live(t) => Accounted(t)'
        BY <2>2, <2>3 DEF Accounted
    <2>6. epoch' \in Nat
        BY <1>3, RestoreKeeps DEF AuthInv, AuthTypeOK
    <2>7. Epochs'
        BY <1>0, <2>2, <2>6 DEF Epochs, NoFlight
    <2> QED
        BY <1>1, <2>1, <2>3, <2>4, <2>5, <2>7, <1>0, SameLive DEF Tidy, Asleep, Awake, Written
<1>4. CASE RestoreSucceeds
    <2>1. loaded /\ UNCHANGED <<memory, epoch, loaded>> /\ restore'.at = "idle"
        BY <1>4, UnderWay DEF RestoreSucceeds, innerVars, NoRestore
    <2>2. \A t \in TokenId : Accounted(t) => Accounted(t)'
        BY <1>0, <2>1 DEF Accounted
    <2> QED
        BY <1>0, <1>1, <2>1, <2>2, SameLive DEF Tidy, Asleep, Awake, Written, Epochs
<1>5. CASE RestoreDrops
    BY <1>5 DEF RestoreDrops, Tidy, Asleep, Awake
<1> QED
    BY <1>2, <1>3, <1>4, <1>5

\* With nothing under way the live token is the session's, and the file's.
LEMMA IdleIsTidy ==
    ASSUME AuthInv, Tidy, Idle, NEW t \in TokenId, Live(t)
    PROVE  /\ file # NoSession /\ file.token = t
           /\ loaded => memory = file
<1>1. CASE ~loaded
    BY <1>1 DEF Tidy, Asleep
<1>2. CASE loaded
    <2>1. memory # NoSession /\ memory.token = t
        BY <1>2 DEF Idle, NoCommand, Tidy, Awake, Accounted
    <2>2. file = memory
        BY <1>2 DEF Idle, NoCommand, NoFlight, Tidy, Written
    <2> QED
        BY <1>2, <2>1, <2>2
<1> QED
    BY <1>1, <1>2

LEMMA TimePassesKeepsTidy ==
    ASSUME AuthInv, Tidy, TimePasses
    PROVE  Tidy'
<1>0. /\ Idle /\ UNCHANGED <<issued, epoch, loaded, flight, command, restore, net>>
      /\ memory' = Stale(memory) /\ file' = Stale(file)
      /\ memory \in Session \cup {NoSession} /\ file \in Session \cup {NoSession}
    BY DEF TimePasses, taskVars, AuthInv, AuthTypeOK
<1>1. \A t \in TokenId : Live(t)' <=> Live(t)
    BY TimePassesDoes DEF Live
<1>2. /\ memory' = NoSession <=> memory = NoSession
      /\ memory # NoSession => memory'.token = memory.token
      /\ file' = NoSession <=> file = NoSession
      /\ file # NoSession => file'.token = file.token
    BY <1>0, StaleKeepsToken
<1>3. \A t \in TokenId : Accounted(t) => Accounted(t)'
    BY <1>0, <1>2 DEF Accounted
<1>4. Awake'
    BY <1>0, <1>1, <1>3 DEF Tidy, Awake
<1>5. Asleep'
    BY <1>0, <1>1, <1>2 DEF Tidy, Asleep, Idle
<1>6. Written'
    BY <1>0 DEF Tidy, Written, Idle, NoFlight, NoCommand
<1>7. OneAtATime' /\ Epochs'
    BY <1>0 DEF Tidy, OneAtATime, Epochs, Idle, NoFlight
<1> QED
    BY <1>4, <1>5, <1>6, <1>7 DEF Tidy

LEMMA RelaunchKeepsTidy ==
    ASSUME AuthInv, Tidy, Clean', Relaunch
    PROVE  Tidy'
<1>1. Idle
    BY FaultCounts DEF Relaunch, Clean
<1>2. /\ UNCHANGED <<rows, issued, file>> /\ memory' = NoSession /\ epoch' = 0 /\ ~loaded'
      /\ flight' = NoFlight /\ command' = NoCommand /\ restore' = Launch /\ net' = {}
    BY <1>1 DEF Relaunch, serverVars, Idle
<1>3. Asleep'
    BY <1>1, <1>2, IdleIsTidy, SameLive DEF Asleep, Launch, NoRestore
<1> QED
    BY <1>2, <1>3 DEF Tidy, Awake, Written, OneAtATime, Epochs, NoFlight

LEMMA TidyStep ==
    ASSUME AuthInv, Known, Tidy, Clean', [AuthNext]_authVars
    PROVE  Tidy'
<1>1. CASE UNCHANGED authVars
    BY <1>1 DEF authVars, Tidy, Asleep, Awake, Accounted, Written, OneAtATime, Epochs, Live
<1>2. ~overtaken' /\ authFaults' = 0
    BY DEF Clean
<1>3. \A m \in net : ~RefreshFails(m) /\ ~LogoutLost(m)
    BY <1>2, FaultCounts DEF RefreshFails, LogoutLost
<1>4. \A t \in TokenId : ~TokenExpires(t)
    BY <1>2, FaultCounts DEF TokenExpires
<1> QED
    BY <1>1, <1>2, <1>3, <1>4, ServeRefreshKeepsTidy, ServeLogoutKeepsTidy, StartRefreshKeepsTidy, RefreshedKeepsTidy,
       RejectedKeepsTidy, ExpireKeepsTidy, WriteKeepsTidy, CommandStartsTidy, CommandDeletesKeepsTidy,
       SetSessionKeepsTidy, RestoreKeepsTidy, TimePassesKeepsTidy, RelaunchKeepsTidy
    DEF AuthNext

\* As long as no fault occurred and no write was overtaken every live token is accounted for.
THEOREM CleanInvariance == AuthSpec => []CleanInv
<1>1. AuthInv /\ TheftInv /\ CleanInv /\ [AuthNext]_authVars => CleanInv'
    BY TidyStep, CleanBefore DEF CleanInv, TheftInv
<1> QED
    BY <1>1, AuthInvariance, TheftInvariance, TidyInitially, PTL DEF AuthSpec

\* Once nothing is under way the only usable token is the session's: logouts and logins that
\* crossed a refresh left none behind.
THEOREM NothingLeftBehindAlways == AuthSpec => []NothingLeftBehind
<1>1. ASSUME AuthInv, CleanInv PROVE NothingLeftBehind
    <2> SUFFICES ASSUME Idle, authFaults = 0, ~overtaken, NEW t \in TokenId, Live(t)
                 PROVE  LET current == IF loaded THEN memory ELSE file
                        IN current # NoSession /\ current.token = t
        BY DEF NothingLeftBehind
    <2>1. file # NoSession /\ file.token = t /\ (loaded => memory = file)
        BY <1>1, IdleIsTidy DEF CleanInv, Clean
    <2> QED
        BY <2>1
<1> QED
    BY <1>1, AuthInvariance, CleanInvariance, PTL
=============================================================================
