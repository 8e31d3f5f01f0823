----------------------------- MODULE VoiceRooms -----------------------------
(***************************************************************************)
(* Voice sessions at the media relay: the session registry, the rooms and   *)
(* the output senders of media-rust's main.rs. handle_voice_connection      *)
(* takes one lock after another; each step here is what it does under one   *)
(* of them.                                                                 *)
(***************************************************************************)
EXTENDS Naturals, FiniteSets

CONSTANTS
    Speaker,       \* the users
    VoiceChannel,
    MaxVoice,      \* bound on voice sessions
    MaxKicks       \* bound on kick, drain_org and move commands

ASSUME VoiceBounds == MaxVoice \in Nat \ {0} /\ MaxKicks \in Nat
ASSUME VoiceNobody == 0 \notin Speaker \cup VoiceChannel

Sid == 1..MaxVoice
Nobody == 0

VARIABLES
    session,   \* the sessions of handle_voice_connection, in the order they were accepted
    registry,  \* SessionRegistry: per user and channel the session whose kill_tx it holds (0: none)
    killRx,    \* the sessions whose kill_rx is ready: a signal was sent, or its sender dropped
    nonces,    \* per room and user: session_nonces; the user is a member iff it has one
    senders,   \* per room and user: user_output_senders, the session frames go to (0: none)
    nextNonce, \* SESSION_NONCE
    kicks      \* how many commands signalled a session

voiceVars == <<session, registry, killRx, nonces, senders, nextNonce, kicks>>

\* "new": accepted; "kept": in the registry; "in": in its loop; "out": the loop has ended;
\* "leaving": out of the registry; "over". up: its transport is open.
NoSession == [user |-> Nobody, chan |-> Nobody, phase |-> "none", nonce |-> 0, up |-> FALSE]
Key(s) == <<session[s].user, session[s].chan>>
In(s, phase) == session[s].phase = phase
Members(c) == {u \in Speaker : nonces[c][u] # 0}

VoiceTypeOK ==
    /\ session \in [Sid -> [user : Speaker \cup {Nobody}, chan : VoiceChannel \cup {Nobody},
                            phase : {"none", "new", "kept", "in", "out", "leaving", "over"},
                            nonce : Nat, up : BOOLEAN]]
    /\ registry \in [Speaker \X VoiceChannel -> 0..MaxVoice]
    /\ killRx \subseteq Sid
    /\ nonces \in [VoiceChannel -> [Speaker -> Nat]]
    /\ senders \in [VoiceChannel -> [Speaker -> 0..MaxVoice]]
    /\ nextNonce \in Nat \ {0}
    /\ kicks \in 0..MaxKicks

VoiceInit ==
    /\ session = [s \in Sid |-> NoSession]
    /\ registry = [k \in Speaker \X VoiceChannel |-> 0]
    /\ killRx = {}
    /\ nonces = [c \in VoiceChannel |-> [u \in Speaker |-> 0]]
    /\ senders = [c \in VoiceChannel |-> [u \in Speaker |-> 0]]
    /\ nextNonce = 1 /\ kicks = 0

-----------------------------------------------------------------------------
\* A client connects, beside its other sessions or after a drop the relay has not noticed.
AcceptVoice(u, c) == \E s \in Sid :
    /\ In(s, "none") /\ \A t \in 1..(s - 1) : ~In(t, "none")
    /\ session' = [session EXCEPT ![s] = [user |-> u, chan |-> c, phase |-> "new", nonce |-> 0, up |-> TRUE]]
    /\ UNCHANGED <<registry, killRx, nonces, senders, nextNonce, kicks>>

\* The transport closes, by the client, by the network, or with a move, which the loop passes on
\* to the client before it closes.
Close(s) ==
    /\ session[s].up
    /\ session' = [session EXCEPT ![s].up = FALSE]
    /\ UNCHANGED <<registry, killRx, nonces, senders, nextNonce, kicks>>

\* Mutant of Register: the key's entry is set when it is free, and left when it is not.
RegisterBeside(s) ==
    /\ In(s, "new")
    /\ session' = [session EXCEPT ![s].phase = "kept"]
    /\ registry' = IF registry[Key(s)] = 0 THEN [registry EXCEPT ![Key(s)] = s] ELSE registry
    /\ UNCHANGED <<killRx, nonces, senders, nextNonce, kicks>>

\* The registry takes the session's kill_tx; the one it replaces is signalled.
Register(s) ==
    /\ In(s, "new")
    /\ session' = [session EXCEPT ![s].phase = "kept"]
    /\ registry' = [registry EXCEPT ![Key(s)] = s]
    /\ killRx' = killRx \cup ({registry[Key(s)]} \ {0})
    /\ UNCHANGED <<nonces, senders, nextNonce, kicks>>

\* Under the rooms lock: the room is made when it has no members, the user joins it; then its
\* output sender.
EnterRoom(s) ==
    /\ In(s, "kept")
    /\ session' = [session EXCEPT ![s].phase = "in", ![s].nonce = nextNonce]
    /\ nonces' = [nonces EXCEPT ![session[s].chan][session[s].user] = nextNonce]
    /\ senders' = [senders EXCEPT ![session[s].chan][session[s].user] = s]
    /\ nextNonce' = nextNonce + 1
    /\ UNCHANGED <<registry, killRx, kicks>>

\* The loop ends with the transport.
LoopEnds(s) ==
    /\ In(s, "in") /\ ~session[s].up
    /\ session' = [session EXCEPT ![s].phase = "out"]
    /\ UNCHANGED <<registry, killRx, nonces, senders, nextNonce, kicks>>

\* kill_rx.recv() returns, on a signal as on a dropped sender: was_killed, no cleanup.
LoopIsKilled(s) ==
    /\ In(s, "in") /\ s \in killRx
    /\ session' = [session EXCEPT ![s].phase = "over", ![s].up = FALSE]
    /\ UNCHANGED <<registry, killRx, nonces, senders, nextNonce, kicks>>

\* The cleanup's first locks: whatever session the registry and the output senders have for the
\* key goes. Dropping the kill_tx of another session makes that session's kill_rx ready.
Unregister(s) ==
    /\ In(s, "out")
    /\ session' = [session EXCEPT ![s].phase = "leaving"]
    /\ registry' = [registry EXCEPT ![Key(s)] = 0]
    /\ killRx' = killRx \cup ({registry[Key(s)]} \ {0, s})
    /\ senders' = [senders EXCEPT ![session[s].chan][session[s].user] = 0]
    /\ UNCHANGED <<nonces, nextNonce, kicks>>

\* The cleanup's last lock: the member leaves unless a later session has taken its place since, and
\* the last one takes the room with it.
\* Mutant of HoldsRoom: the cleanup does not compare nonces.
HoldsRoomAnyhow(s) == nonces[session[s].chan][session[s].user] # 0
HoldsRoom(s) == nonces[session[s].chan][session[s].user] = session[s].nonce

LeaveRoom(s) == LET c == session[s].chan  u == session[s].user IN
    /\ In(s, "leaving")
    /\ session' = [session EXCEPT ![s].phase = "over"]
    /\ IF HoldsRoom(s)
       THEN /\ nonces' = [nonces EXCEPT ![c][u] = 0]
            /\ senders' = IF Members(c) = {u} THEN [senders EXCEPT ![c] = [v \in Speaker |-> 0]] ELSE senders
       ELSE UNCHANGED <<nonces, senders>>
    /\ UNCHANGED <<registry, killRx, nextNonce, kicks>>

\* handle_nats_commands: kick signals the user's sessions in the registry, drain_org those of
\* the rooms' members.
Kick(u) ==
    /\ kicks < MaxKicks /\ kicks' = kicks + 1
    /\ \E aimed \in {{registry[<<u, c>>] : c \in VoiceChannel},
                     {registry[<<u, c>>] : c \in {d \in VoiceChannel : nonces[d][u] # 0}}} :
          aimed \ {0} # {} /\ killRx' = killRx \cup (aimed \ {0})
    /\ UNCHANGED <<session, registry, nonces, senders, nextNonce>>

RelayStep(s) == Register(s) \/ EnterRoom(s) \/ LoopEnds(s) \/ LoopIsKilled(s) \/ Unregister(s) \/ LeaveRoom(s)

VoiceNext ==
    \/ \E u \in Speaker : Kick(u) \/ \E c \in VoiceChannel : AcceptVoice(u, c)
    \/ \E s \in Sid : Close(s) \/ RelayStep(s)

VoiceSpec == VoiceInit /\ [][VoiceNext]_voiceVars

-----------------------------------------------------------------------------
\* A session in its loop that no later session of the same user and channel has followed into the
\* room is a member of it: the cleanup of an older session never takes the room's slot of the one
\* that reconnected, nor disposes of the room under it (the nonce check of the cleanup).
LiveInRoom == \A s \in Sid :
    In(s, "in") /\ (\A t \in Sid : Key(t) = Key(s) => session[t].nonce <= session[s].nonce)
        => HoldsRoom(s)

\* A session stays alone on its key: of two in their loops for the same user and channel, one has
\* its kill_rx ready, whatever cleanups emptied the registry between the two.
OnePerKey == \A s, t \in Sid :
    s < t /\ In(s, "in") /\ In(t, "in") /\ Key(s) = Key(t) => killRx \cap {s, t} # {}

\* A member of a room has a session there that is not over.
MembersAreLive == \A c \in VoiceChannel, u \in Speaker :
    nonces[c][u] # 0 => \E s \in Sid : Key(s) = <<u, c>> /\ session[s].phase \in {"in", "out", "leaving"}
=============================================================================
