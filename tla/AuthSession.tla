---------------------------- MODULE AuthSession ----------------------------
(***************************************************************************)
(* One user's refresh tokens: authController.ts, which rotates them, and    *)
(* session.rs, the single owner of the desktop app's session.               *)
(*                                                                         *)
(* A token is the number of its row. The successor a request derives is a   *)
(* function of the token it presents (one client, one User-Agent), so a     *)
(* row's successor is the row itself. A session is a refresh token and      *)
(* whether its access token is still good.                                  *)
(***************************************************************************)
EXTENDS Naturals, FiniteSets

CONSTANTS
    NoSession,      \* nobody is logged in
    MaxTokens,      \* bound on the tokens issued: logins and time leave room for rotations
    MaxCommands,    \* bound on logins, logouts and profile updates
    MaxTicks,       \* bound on the lives of an access token that pass
    AuthFaults,     \* the faults that occur, a subset of AuthFaultKind
    MaxAuthFaults   \* bound on how many of them occur

AuthFaultKind == {"lost", "crash", "disk", "expiry"}
ASSUME AuthBounds ==
    /\ MaxTokens \in Nat /\ MaxCommands \in Nat /\ MaxTicks \in Nat /\ MaxAuthFaults \in Nat
    /\ AuthFaults \subseteq AuthFaultKind

TokenId == 1..MaxTokens
Session == [token: TokenId, fresh: BOOLEAN]
ASSUME AuthNoSession == NoSession \notin Session

VARIABLES
    rows,       \* refresh_tokens: a token's state, its successor and the login it stems from
    issued,     \* how many rows there are
    stolen,     \* reuse was found and every token of the user revoked
    excused,    \* a rotated token was still held, or on its way to the server, when its
                \* grace window closed or its successor was logged out
    memory,     \* Inner.session
    epoch,      \* Inner.epoch
    loaded,     \* Inner.loaded
    file,       \* the credentials file
    flight,     \* the refresh that holds the mutex
    command,    \* what the main thread's command still has to do with the file
    restore,    \* auth_restore
    net,        \* requests and answers under way
    overtaken,  \* the file or the session was changed on behalf of another session
    commands, ticks, authFaults

serverVars == <<rows, issued, stolen>>
innerVars == <<memory, epoch, loaded>>
taskVars == <<flight, command, restore>>
countVars == <<commands, ticks, authFaults>>
authVars == <<rows, issued, stolen, excused, memory, epoch, loaded, file, flight, command,
              restore, net, overtaken, commands, ticks, authFaults>>

\* "rotated": revoked with a successor less than a minute ago; "lapsed": longer;
\* "ended": revoked without one.
RowState == {"none", "live", "rotated", "lapsed", "ended", "expired"}
Row == [state: RowState, next: 0..MaxTokens, login: 0..MaxTokens]
Message == [kind: {"refresh", "logout", "rotated", "dead"}, token: TokenId, waiting: BOOLEAN]
Flight == [at: {"idle", "sent", "write", "dead", "delete"}, token: 0..MaxTokens, epoch: Nat,
           restores: BOOLEAN]
NoFlight == [at |-> "idle", token |-> 0, epoch |-> 0, restores |-> FALSE]
Command == [at: {"idle", "write", "delete"}, session: Session \cup {NoSession}]
NoCommand == [at |-> "idle", session |-> NoSession]
\* "launched": the main window's first restore, before which it offers no login.
Restore == [at: {"idle", "read", "check", "drop"}, session: Session \cup {NoSession},
            launched: BOOLEAN]
NoRestore == [at |-> "idle", session |-> NoSession, launched |-> FALSE]
Launch == [NoRestore EXCEPT !.launched = TRUE]

AuthFault(kind) ==
    kind \in AuthFaults /\ authFaults < MaxAuthFaults /\ authFaults' = authFaults + 1
Request(kind, t) == [kind |-> kind, token |-> t, waiting |-> kind = "refresh"]
\* revoke_in_background.
Revoke(s) == IF s = NoSession THEN {} ELSE {Request("logout", s.token)}
Live(t) == rows[t].state = "live"
\* Every live token can still be rotated once after n more were issued.
Room(n) == issued + n + Cardinality({t \in TokenId : Live(t)}) <= MaxTokens

AuthInit ==
    /\ rows = [t \in TokenId |-> [state |-> "none", next |-> 0, login |-> 0]]
    /\ issued = 0 /\ stolen = FALSE /\ excused = FALSE
    /\ memory = NoSession /\ epoch = 0 /\ loaded = FALSE /\ file = NoSession
    /\ flight = NoFlight /\ command = NoCommand /\ restore = Launch
    /\ net = {} /\ overtaken = FALSE
    /\ commands = 0 /\ ticks = 0 /\ authFaults = 0

-----------------------------------------------------------------------------
(* The server: each transaction holds the presented row.                   *)

Issue(login) == [state |-> "live", next |-> 0, login |-> login]

\* Mutated form: a retry inside the grace window gets a token of its own.
RotateAnew(t) == Live(t) \/ rows[t].state = "rotated"
\* Normal rotation.
Rotates(t) == Live(t)

\* Mutated form: rotation leaves no window for a retry.
NoGrace(t) == FALSE
\* A benign retry: rotated within the window, the successor never used.
Replays(t) == rows[t].state = "rotated" /\ Live(rows[t].next)

Reused(t) == rows[t].state \in {"rotated", "lapsed"}

Reply(q, kind, t) ==
    net' = (net \ {q}) \cup (IF q.waiting THEN {[kind |-> kind, token |-> t, waiting |-> TRUE]} ELSE {})

ServeRefresh(q) ==
    /\ q \in net /\ q.kind = "refresh"
    /\ \/ /\ Rotates(q.token) /\ issued < MaxTokens
          /\ issued' = issued + 1
          /\ rows' = [rows EXCEPT ![q.token].state = "rotated", ![q.token].next = issued + 1,
                                  ![issued + 1] = Issue(rows[q.token].login)]
          /\ Reply(q, "rotated", issued + 1)
          /\ UNCHANGED stolen
       \/ /\ ~Rotates(q.token) /\ Replays(q.token)
          /\ Reply(q, "rotated", rows[q.token].next)
          /\ UNCHANGED serverVars
       \/ /\ ~Rotates(q.token) /\ ~Replays(q.token) /\ Reused(q.token)
          /\ rows' = [t \in TokenId |-> IF rows[t].state \in {"live", "expired"}
                                        THEN [rows[t] EXCEPT !.state = "ended"] ELSE rows[t]]
          /\ stolen' = TRUE
          /\ Reply(q, "dead", q.token)
          /\ UNCHANGED issued
       \/ /\ rows[q.token].state \in {"ended", "expired"}
          /\ Reply(q, "dead", q.token)
          /\ UNCHANGED serverVars
    /\ UNCHANGED <<excused, innerVars, file, taskVars, overtaken, countVars>>

\* The tokens that may still be presented.
Presentable == {m.token : m \in {q \in net : q.kind = "refresh"}} \cup
               {s.token : s \in {memory, file, restore.session, command.session} \ {NoSession}}

ServeLogout(q) ==
    /\ q \in net /\ q.kind = "logout"
    /\ net' = net \ {q}
    /\ rows' = IF rows[q.token].state \in {"live", "expired"}
               THEN [rows EXCEPT ![q.token].state = "ended"] ELSE rows
    /\ excused' = (excused \/ \E t \in Presentable : rows[t].next = q.token)
    /\ UNCHANGED <<issued, stolen, innerVars, file, taskVars, overtaken, countVars>>

-----------------------------------------------------------------------------
(* session.rs: the refresh, one at a time.                                 *)

\* refresh_single_flight after its re-check: the access token is still the stale one.
StartRefresh(restores) ==
    /\ flight.at = "idle" /\ memory # NoSession /\ ~memory.fresh
    /\ restores => restore.at = "check"
    /\ flight' = [at |-> "sent", token |-> memory.token, epoch |-> epoch, restores |-> restores]
    /\ net' = net \cup {Request("refresh", memory.token)}
    /\ UNCHANGED <<serverVars, excused, innerVars, file, command, restore, overtaken, countVars>>

\* Mutated form: the answer is adopted whatever happened meanwhile.
StillAny(f) == memory # NoSession
\* The session the refresh was made for is still there.
StillThere(f) == epoch = f.epoch /\ memory # NoSession

Refreshed(m) ==
    /\ m \in net /\ m.kind = "rotated"
    /\ IF StillThere(flight)
       THEN /\ memory' = [token |-> m.token, fresh |-> TRUE]
            /\ flight' = [flight EXCEPT !.at = "write", !.token = m.token]
            /\ net' = net \ {m}
       ELSE /\ flight' = NoFlight
            /\ net' = (net \ {m}) \cup {Request("logout", m.token)}
            /\ UNCHANGED memory
    /\ UNCHANGED <<serverVars, excused, epoch, loaded, file, command, restore, overtaken, countVars>>

\* The file is written after the lock on the session is released.
RefreshPersists ==
    /\ flight.at = "write"
    /\ LET s == [token |-> flight.token, fresh |-> TRUE]
       IN \/ /\ file' = s /\ overtaken' = (overtaken \/ memory # s)
             /\ UNCHANGED authFaults
          \/ AuthFault("disk") /\ UNCHANGED <<file, overtaken>>
    /\ flight' = NoFlight
    /\ UNCHANGED <<serverVars, excused, innerVars, command, restore, net, commands, ticks>>

\* Mutated form: a rejection counts as network trouble.
RejectedQuietly(m) ==
    /\ m \in net /\ m.kind = "dead"
    /\ net' = net \ {m}
    /\ flight' = NoFlight
    /\ UNCHANGED <<serverVars, excused, innerVars, file, command, restore, overtaken, countVars>>

\* The server said 401 or 403; the epoch is compared now, the session ended later.
Rejected(m) ==
    /\ m \in net /\ m.kind = "dead"
    /\ net' = net \ {m}
    /\ flight' = IF epoch = flight.epoch THEN [flight EXCEPT !.at = "dead"] ELSE NoFlight
    /\ UNCHANGED <<serverVars, excused, innerVars, file, command, restore, overtaken, countVars>>

Expire ==
    /\ flight.at = "dead"
    /\ memory' = NoSession /\ epoch' = epoch + 1 /\ loaded' = TRUE
    /\ overtaken' = (overtaken \/ epoch # flight.epoch)
    /\ flight' = [flight EXCEPT !.at = "delete"]
    /\ UNCHANGED <<serverVars, excused, file, command, restore, net, countVars>>

ExpireDeletes ==
    /\ flight.at = "delete"
    /\ file' = NoSession /\ overtaken' = (overtaken \/ memory # NoSession)
    /\ flight' = NoFlight
    /\ UNCHANGED <<serverVars, excused, innerVars, command, restore, net, countVars>>

\* Transient: the request or its answer is lost, or comes too late; the request may
\* still reach the server.
RefreshFails(m) ==
    /\ AuthFault("lost") /\ m \in net /\ m.waiting
    /\ \/ net' = net \ {m}
       \/ m.kind = "refresh" /\ net' = (net \ {m}) \cup {[m EXCEPT !.waiting = FALSE]}
    /\ flight' = NoFlight
    /\ restore' = IF flight.restores /\ restore.at = "check" THEN [restore EXCEPT !.at = "drop"]
                  ELSE restore
    /\ UNCHANGED <<serverVars, excused, innerVars, file, command, overtaken, commands, ticks>>

LogoutLost(m) ==
    /\ AuthFault("lost") /\ m \in net /\ m.kind = "logout"
    /\ net' = net \ {m}
    /\ UNCHANGED <<serverVars, excused, innerVars, file, taskVars, overtaken, commands, ticks>>

-----------------------------------------------------------------------------
(* The commands: they run on the main thread, one after the other.         *)

NewCommand ==
    /\ command = NoCommand /\ ~restore.launched
    /\ commands < MaxCommands /\ commands' = commands + 1

\* A login at the server, then auth_set_session.
SetSession ==
    /\ NewCommand /\ Room(1)
    /\ issued' = issued + 1
    /\ rows' = [rows EXCEPT ![issued + 1] = Issue(issued + 1)]
    /\ memory' = [token |-> issued + 1, fresh |-> TRUE] /\ epoch' = epoch + 1 /\ loaded' = TRUE
    /\ net' = net \cup Revoke(memory)
    /\ command' = [at |-> "write", session |-> memory']
    /\ UNCHANGED <<stolen, excused, file, flight, restore, overtaken, ticks, authFaults>>

\* auth_set_user writes the session it found.
SetUser ==
    /\ NewCommand /\ memory # NoSession
    /\ command' = [at |-> "write", session |-> memory]
    /\ UNCHANGED <<serverVars, excused, innerVars, file, flight, restore, net, overtaken, ticks,
                   authFaults>>

Logout ==
    /\ NewCommand
    /\ memory' = NoSession /\ epoch' = epoch + 1 /\ loaded' = TRUE
    /\ command' = [at |-> "delete", session |-> memory]
    /\ UNCHANGED <<serverVars, excused, file, flight, restore, net, overtaken, ticks, authFaults>>

CommandWrites ==
    /\ command.at = "write"
    /\ \/ /\ file' = command.session /\ overtaken' = (overtaken \/ memory # command.session)
          /\ UNCHANGED authFaults
       \/ AuthFault("disk") /\ UNCHANGED <<file, overtaken>>
    /\ command' = NoCommand
    /\ UNCHANGED <<serverVars, excused, innerVars, flight, restore, net, commands, ticks>>

\* The end of a logout: the file goes, then the token is revoked.
CommandDeletes ==
    /\ command.at = "delete"
    /\ file' = NoSession /\ overtaken' = (overtaken \/ memory # NoSession)
    /\ net' = net \cup Revoke(command.session)
    /\ command' = NoCommand
    /\ UNCHANGED <<serverVars, excused, innerVars, flight, restore, countVars>>

-----------------------------------------------------------------------------
(* auth_restore.                                                           *)

RestoreReads ==
    /\ restore.at = "idle" /\ ~loaded /\ memory = NoSession
    /\ restore' = [restore EXCEPT !.at = "read", !.session = file]
    /\ UNCHANGED <<serverVars, excused, innerVars, file, flight, command, net, overtaken, countVars>>

RestoreAdopts ==
    /\ restore.at = "read"
    /\ LET adopts == ~loaded /\ memory = NoSession /\ restore.session # NoSession
       IN /\ memory' = IF adopts THEN restore.session ELSE memory
          /\ epoch' = IF adopts THEN epoch + 1 ELSE epoch
          /\ restore' = IF adopts THEN [restore EXCEPT !.at = "check"] ELSE NoRestore
    /\ loaded' = TRUE
    /\ UNCHANGED <<serverVars, excused, file, flight, command, net, overtaken, countVars>>

RestoreSucceeds ==
    /\ restore.at = "check" /\ (memory # NoSession => memory.fresh)
    /\ restore' = NoRestore
    /\ UNCHANGED <<serverVars, excused, innerVars, file, flight, command, net, overtaken, countVars>>

\* Offline: the session is dropped for a later restore, whichever it is by now.
RestoreDrops ==
    /\ restore.at = "drop"
    /\ memory' = NoSession /\ epoch' = epoch + 1 /\ loaded' = FALSE
    /\ overtaken' = (overtaken \/ memory # restore.session)
    /\ restore' = NoRestore
    /\ UNCHANGED <<serverVars, excused, file, flight, command, net, countVars>>

-----------------------------------------------------------------------------
(* Time, and the end of the process.                                       *)

Idle == flight = NoFlight /\ command = NoCommand /\ net = {} /\ restore.at = "idle"

\* An access token's life passes, and with it every grace window; no request and no
\* step of the program takes that long.
Stale(s) == IF s = NoSession THEN s ELSE [s EXCEPT !.fresh = FALSE]
TimePasses ==
    /\ Idle /\ Room(0) /\ ticks < MaxTicks /\ ticks' = ticks + 1
    /\ excused' = (excused \/ \E t \in Presentable : Reused(t))
    /\ rows' = [t \in TokenId |-> IF rows[t].state = "rotated"
                                  THEN [rows[t] EXCEPT !.state = "lapsed"] ELSE rows[t]]
    /\ memory' = Stale(memory) /\ file' = Stale(file)
    /\ UNCHANGED <<issued, stolen, epoch, loaded, taskVars, net, overtaken, commands, authFaults>>

\* Thirty days without a refresh: every grace window has closed.
TokenExpires(t) ==
    /\ Idle /\ Live(t) /\ AuthFault("expiry")
    /\ \A u \in TokenId : rows[u].state # "rotated"
    /\ rows' = [rows EXCEPT ![t].state = "expired"]
    /\ UNCHANGED <<issued, stolen, excused, innerVars, file, taskVars, net, overtaken, commands, ticks>>

\* The app ends and is started again, in the middle of something or not.
Relaunch ==
    /\ IF Idle THEN UNCHANGED authFaults ELSE AuthFault("crash")
    /\ memory' = NoSession /\ epoch' = 0 /\ loaded' = FALSE
    /\ flight' = NoFlight /\ command' = NoCommand /\ restore' = Launch
    /\ net' = {[m EXCEPT !.waiting = FALSE] : m \in {q \in net : q.kind \in {"refresh", "logout"}}}
    /\ UNCHANGED <<serverVars, excused, file, overtaken, commands, ticks>>

AuthNext ==
    \/ \E q \in net : ServeRefresh(q) \/ ServeLogout(q)
    \/ \E restores \in BOOLEAN : StartRefresh(restores)
    \/ \E m \in net : Refreshed(m) \/ Rejected(m) \/ RefreshFails(m) \/ LogoutLost(m)
    \/ RefreshPersists \/ Expire \/ ExpireDeletes
    \/ SetSession \/ SetUser \/ Logout \/ CommandWrites \/ CommandDeletes
    \/ RestoreReads \/ RestoreAdopts \/ RestoreSucceeds \/ RestoreDrops
    \/ TimePasses \/ (\E t \in TokenId : TokenExpires(t)) \/ Relaunch

AuthSpec == AuthInit /\ [][AuthNext]_authVars

\* Requests are served or fail, tasks go on, and the windows keep asking for a token.
AuthFair(task) ==
    CASE task = "serve"    -> \E q \in net : ServeRefresh(q)
      [] task = "receive"  -> \E m \in net : Refreshed(m) \/ Rejected(m)
      [] task = "refresh"  -> \E restores \in BOOLEAN : StartRefresh(restores)
      [] task = "persist"  -> RefreshPersists
      [] task = "expire"   -> Expire
      [] task = "delete"   -> ExpireDeletes
      [] task = "drop"     -> RestoreDrops
AuthTasks == {"serve", "receive", "refresh", "persist", "expire", "delete", "drop"}

-----------------------------------------------------------------------------
AuthTypeOK ==
    /\ rows \in [TokenId -> Row] /\ issued \in 0..MaxTokens
    /\ stolen \in BOOLEAN /\ excused \in BOOLEAN /\ overtaken \in BOOLEAN
    /\ memory \in Session \cup {NoSession} /\ epoch \in Nat /\ loaded \in BOOLEAN
    /\ file \in Session \cup {NoSession}
    /\ flight \in Flight /\ command \in Command /\ restore \in Restore
    /\ net \subseteq Message
    /\ commands \in Nat /\ ticks \in Nat /\ authFaults \in Nat

\* authController.ts refresh: whatever is lost, retried or replayed, a login never
\* forks into two usable refresh tokens.
OneLivePerLogin ==
    \A t, u \in TokenId : Live(t) /\ Live(u) /\ rows[t].login = rows[u].login => t = u

\* The grace window: the app that presents a rotated token because an answer was lost
\* or it crashed is taken for a thief only after holding that token past the window
\* or past the logout of its successor.
NoFalseTheft == stolen => excused

\* session.rs: once nothing is under way, the only usable token is that of the session
\* in use; logouts and logins that crossed a refresh left none behind. (Lost revokes
\* excepted, and writes to the file that a logout or a login had overtaken.)
NothingLeftBehind ==
    Idle /\ authFaults = 0 /\ ~overtaken =>
        \A t \in TokenId : Live(t) =>
            LET current == IF loaded THEN memory ELSE file
            IN current # NoSession /\ current.token = t

\* A session whose access token ran out is renewed or ended; no caller waits for ever.
RefreshSettles ==
    (memory # NoSession /\ ~memory.fresh) ~> (memory # NoSession => memory.fresh)
=============================================================================
