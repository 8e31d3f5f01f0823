----------------------------- MODULE VoiceProofs -----------------------------
(***************************************************************************)
(* Voice, for any users, channels, sessions and bounds. The relay's rooms:  *)
(* of two sessions on one key one is about to be killed, and the last of    *)
(* them holds its room. A client's link: it looks after its connection and  *)
(* its key. A client's monitors: their keys follow the device's groups. The *)
(* rooms' speakers: first past the post. A lane's receivers: what played    *)
(* does not play again, and what is new plays.                              *)
(***************************************************************************)
EXTENDS VoiceRooms, VoiceLink, MonitorKeys, PrioritySpeech, RelayAudio,
        FiniteSetTheorems, SequenceTheorems, WellFoundedInduction, TLAPS

-----------------------------------------------------------------------------
(* The relay's rooms.                                                       *)

Keys == Speaker \X VoiceChannel

\* A session that was accepted has a user and a channel.
Placed == \A s \in Sid : ~In(s, "none") => session[s].user \in Speaker /\ session[s].chan \in VoiceChannel

\* A session on its way to its loop, or in it, is the registry's or is to be killed.
Registered == \A s \in Sid : In(s, "kept") \/ In(s, "in") => s \in killRx \/ registry[Key(s)] = s

\* No nonce is used twice.
NoncesDiffer ==
    /\ \A s \in Sid : session[s].nonce < nextNonce
    /\ \A s \in Sid : In(s, "in") \/ In(s, "out") \/ In(s, "leaving") => session[s].nonce # 0
    /\ \A s \in Sid : In(s, "none") => session[s].nonce = 0
    /\ \A s, t \in Sid : s # t /\ session[s].nonce = session[t].nonce => session[s].nonce = 0

VoiceInv == VoiceTypeOK /\ Placed /\ Registered /\ NoncesDiffer /\ LiveInRoom

\* A room's map stays a map when one user's entry changes.
LEMMA SetEntry ==
    ASSUME NEW S, NEW f \in [VoiceChannel -> [Speaker -> S]],
           NEW c \in VoiceChannel, NEW u \in Speaker, NEW v \in S
    PROVE  [f EXCEPT ![c][u] = v] \in [VoiceChannel -> [Speaker -> S]]
OBVIOUS

\* Before anyone connects there is nothing to hold or to kill.
LEMMA VoiceInitially == VoiceInit => VoiceInv
<1> SUFFICES ASSUME VoiceInit PROVE VoiceInv
    OBVIOUS
<1> USE DEF VoiceInit, NoSession, In
<1>1. VoiceTypeOK
    BY VoiceBounds DEF VoiceTypeOK, Sid
<1>2. Placed /\ Registered /\ LiveInRoom
    BY DEF Placed, Registered, LiveInRoom
<1>3. NoncesDiffer
    BY DEF NoncesDiffer
<1> QED
    BY <1>1, <1>2, <1>3 DEF VoiceInv

PhaseName == {"none", "new", "kept", "in", "out", "leaving", "over"}
SessionRec == [user : Speaker \cup {Nobody}, chan : VoiceChannel \cup {Nobody},
               phase : PhaseName, nonce : Nat, up : BOOLEAN]

\* What a step does to a session: its phase, its nonce or its transport change, its key does not.
LEMMA SessionMoves ==
    ASSUME NEW f \in [Sid -> SessionRec], NEW s \in Sid,
           NEW p \in PhaseName, NEW n \in Nat, NEW b \in BOOLEAN, NEW g,
           \/ g = [f EXCEPT ![s].phase = p]
           \/ g = [f EXCEPT ![s].phase = p, ![s].nonce = n]
           \/ g = [f EXCEPT ![s].phase = p, ![s].up = b]
    PROVE  /\ g \in [Sid -> SessionRec]
           /\ g[s].user = f[s].user /\ g[s].chan = f[s].chan /\ g[s].phase = p
           /\ \A t \in Sid \ {s} : g[t] = f[t]
<1>0. f[s] \in SessionRec
    OBVIOUS
<1>1. PICK r \in SessionRec : /\ g = [f EXCEPT ![s] = r]
                              /\ r.user = f[s].user /\ r.chan = f[s].chan /\ r.phase = p
    <2>1. CASE g = [f EXCEPT ![s].phase = p]
        <3>1. [f[s] EXCEPT !.phase = p] \in SessionRec
            BY ONLY <1>0, p \in PhaseName DEF SessionRec
        <3> QED
            BY <1>0, <2>1, <3>1 DEF SessionRec
    <2>2. CASE g = [f EXCEPT ![s].phase = p, ![s].nonce = n]
        <3>1. [f[s] EXCEPT !.phase = p, !.nonce = n] \in SessionRec
            BY ONLY <1>0, p \in PhaseName, n \in Nat DEF SessionRec
        <3> QED
            BY <1>0, <2>2, <3>1 DEF SessionRec
    <2>3. CASE g = [f EXCEPT ![s].phase = p, ![s].up = b]
        <3>1. [f[s] EXCEPT !.phase = p, !.up = b] \in SessionRec
            BY ONLY <1>0, p \in PhaseName, b \in BOOLEAN DEF SessionRec
        <3> QED
            BY <1>0, <2>3, <3>1 DEF SessionRec
    <2> QED
        BY <2>1, <2>2, <2>3
<1> QED
    BY ONLY <1>1, f \in [Sid -> SessionRec], s \in Sid

\* A session of a user in a channel keeps both while one session moves on.
LEMMA MovesOn ==
    ASSUME VoiceTypeOK, Placed, NEW s \in Sid, ~In(s, "none"),
           NEW p \in PhaseName, NEW n \in Nat, NEW b \in BOOLEAN,
           \/ session' = [session EXCEPT ![s].phase = p]
           \/ session' = [session EXCEPT ![s].phase = p, ![s].nonce = n]
           \/ session' = [session EXCEPT ![s].phase = p, ![s].up = b]
    PROVE  /\ session' \in [Sid -> SessionRec] /\ Placed'
           /\ session[s].user \in Speaker /\ session[s].chan \in VoiceChannel
<1>1. session \in [Sid -> SessionRec]
    BY DEF VoiceTypeOK, SessionRec, PhaseName
<1>2. /\ session' \in [Sid -> SessionRec]
      /\ session'[s].user = session[s].user /\ session'[s].chan = session[s].chan
      /\ \A t \in Sid \ {s} : session'[t] = session[t]
    BY ONLY <1>1, SessionMoves, s \in Sid, p \in PhaseName, n \in Nat, b \in BOOLEAN,
            \/ session' = [session EXCEPT ![s].phase = p]
            \/ session' = [session EXCEPT ![s].phase = p, ![s].nonce = n]
            \/ session' = [session EXCEPT ![s].phase = p, ![s].up = b]
<1>3. session[s].user \in Speaker /\ session[s].chan \in VoiceChannel
    BY DEF Placed
<1>4. ASSUME NEW t \in Sid, ~In(t, "none")'
      PROVE  session'[t].user \in Speaker /\ session'[t].chan \in VoiceChannel
    BY <1>2, <1>3, <1>4 DEF Placed, In
<1> QED
    BY <1>2, <1>3, <1>4 DEF Placed

\* The conjuncts of the type invariant, with the names above.
LEMMA TypeParts ==
    VoiceTypeOK <=>
        /\ session \in [Sid -> SessionRec] /\ registry \in [Keys -> 0..MaxVoice] /\ killRx \subseteq Sid
        /\ nonces \in [VoiceChannel -> [Speaker -> Nat]]
        /\ senders \in [VoiceChannel -> [Speaker -> 0..MaxVoice]]
        /\ nextNonce \in Nat \ {0} /\ kicks \in 0..MaxKicks
BY DEF VoiceTypeOK, SessionRec, PhaseName, Keys

\* What every action leaves a session: its key, and its nonce once it has entered.
LEMMA VoiceTypes ==
    ASSUME VoiceInv, [VoiceNext]_voiceVars
    PROVE  VoiceTypeOK' /\ Placed'
<1>0. VoiceTypeOK /\ Placed /\ 0 \in 0..MaxVoice /\ 0 \in Nat
      /\ {"kept", "in", "out", "leaving", "over"} \subseteq PhaseName
    BY VoiceBounds DEF VoiceInv, PhaseName
<1>a. /\ session \in [Sid -> SessionRec] /\ registry \in [Keys -> 0..MaxVoice] /\ killRx \subseteq Sid
      /\ nonces \in [VoiceChannel -> [Speaker -> Nat]]
      /\ senders \in [VoiceChannel -> [Speaker -> 0..MaxVoice]]
      /\ nextNonce \in Nat \ {0} /\ kicks \in 0..MaxKicks
    BY <1>0, TypeParts
<1>b. SUFFICES /\ session' \in [Sid -> SessionRec] /\ registry' \in [Keys -> 0..MaxVoice] /\ killRx' \subseteq Sid
               /\ nonces' \in [VoiceChannel -> [Speaker -> Nat]]
               /\ senders' \in [VoiceChannel -> [Speaker -> 0..MaxVoice]]
               /\ nextNonce' \in Nat \ {0} /\ kicks' \in 0..MaxKicks
               /\ Placed'
    BY DEF VoiceTypeOK, SessionRec, PhaseName, Keys
<1> DEFINE Goal == /\ session' \in [Sid -> SessionRec] /\ registry' \in [Keys -> 0..MaxVoice] /\ killRx' \subseteq Sid
                  /\ nonces' \in [VoiceChannel -> [Speaker -> Nat]]
                  /\ senders' \in [VoiceChannel -> [Speaker -> 0..MaxVoice]]
                  /\ nextNonce' \in Nat \ {0} /\ kicks' \in 0..MaxKicks
                  /\ Placed'
           KeyIn(s) == session[s].user \in Speaker /\ session[s].chan \in VoiceChannel
           Moved == session' \in [Sid -> SessionRec] /\ Placed'
<1>c. ASSUME NEW s \in Sid, KeyIn(s)
      PROVE  /\ Key(s) \in Keys /\ registry[Key(s)] \in 0..MaxVoice
             /\ {registry[Key(s)]} \ {0} \subseteq Sid
    <2>1. Key(s) \in Keys
        BY <1>c DEF Key, Keys
    <2>2. registry[Key(s)] \in 0..MaxVoice
        BY ONLY <1>a, <2>1
    <2> QED
        BY <2>1, <2>2 DEF Sid
<1>1. ASSUME NEW u \in Speaker, Kick(u) PROVE Goal
    <2>0. PICK aimed :
             /\ \/ aimed = {registry[<<u, c>>] : c \in VoiceChannel}
                \/ aimed = {registry[<<u, c>>] : c \in {d \in VoiceChannel : nonces[d][u] # 0}}
             /\ killRx' = killRx \cup (aimed \ {0})
        BY <1>1 DEF Kick
    <2>1. \A c \in VoiceChannel : registry[<<u, c>>] \in 0..MaxVoice
        BY <1>a DEF Keys
    <2>2. aimed \subseteq {registry[<<u, c>>] : c \in VoiceChannel}
        BY ONLY <2>0
    <2>3. aimed \subseteq 0..MaxVoice
        BY ONLY <2>1, <2>2
    <2>4. killRx' \subseteq Sid
        BY <1>a, <2>0, <2>3 DEF Sid
    <2>5. kicks' \in 0..MaxKicks
        BY <1>1, <1>a, VoiceBounds DEF Kick
    <2>6. UNCHANGED <<session, registry, nonces, senders, nextNonce>>
        BY <1>1 DEF Kick
    <2>7. Placed'
        BY <1>0, <2>6 DEF Placed, In
    <2> QED
        BY ONLY <1>a, <2>4, <2>5, <2>6, <2>7
<1>2. ASSUME NEW u \in Speaker, NEW c \in VoiceChannel, AcceptVoice(u, c) PROVE Goal
    <2>1. UNCHANGED <<registry, killRx, nonces, senders, nextNonce, kicks>>
        BY <1>2 DEF AcceptVoice
    <2>2. PICK s \in Sid : session' = [session EXCEPT ![s] =
                [user |-> u, chan |-> c, phase |-> "new", nonce |-> 0, up |-> TRUE]]
        BY <1>2 DEF AcceptVoice
    <2>3. [user |-> u, chan |-> c, phase |-> "new", nonce |-> 0, up |-> TRUE] \in SessionRec
        BY DEF SessionRec, PhaseName
    <2>4. session' \in [Sid -> SessionRec] /\ session'[s].user = u /\ session'[s].chan = c
          /\ \A t \in Sid \ {s} : session'[t] = session[t]
        BY ONLY <1>a, <2>2, <2>3, s \in Sid
    <2>5. Placed'
        BY <1>0, <2>4 DEF Placed, In
    <2> QED
        BY ONLY <1>a, <2>1, <2>4, <2>5
<1>3. ASSUME NEW s \in Sid, Close(s) PROVE Goal
    <2>1. UNCHANGED <<registry, killRx, nonces, senders, nextNonce, kicks>>
        BY <1>3 DEF Close
    <2>2. session' = [session EXCEPT ![s].up = FALSE]
        BY <1>3 DEF Close
    <2>3. session' \in [Sid -> SessionRec]
        BY ONLY <1>a, <2>2 DEF SessionRec
    <2>4. \A t \in Sid : /\ session'[t].user = session[t].user /\ session'[t].chan = session[t].chan
                         /\ session'[t].phase = session[t].phase
        BY ONLY <1>a, <2>2 DEF SessionRec
    <2>5. Placed'
        BY <1>0, <2>4 DEF Placed, In
    <2> QED
        BY ONLY <1>a, <2>1, <2>3, <2>5
<1>4. ASSUME NEW s \in Sid, Register(s) PROVE Goal
    <2>1. Moved /\ KeyIn(s)
        BY <1>0, <1>4, MovesOn DEF Register, In
    <2>2. registry' = [registry EXCEPT ![Key(s)] = s] /\ killRx' = killRx \cup ({registry[Key(s)]} \ {0})
          /\ UNCHANGED <<nonces, senders, nextNonce, kicks>>
        BY <1>4 DEF Register
    <2>3. registry' \in [Keys -> 0..MaxVoice]
        BY <1>a, <1>c, <2>1, <2>2, VoiceBounds DEF Sid
    <2>4. killRx' \subseteq Sid
        BY ONLY <1>a, <1>c, <2>1, <2>2, s \in Sid
    <2> QED
        BY ONLY <1>a, <2>1, <2>2, <2>3, <2>4
<1>5. ASSUME NEW s \in Sid, EnterRoom(s) PROVE Goal
    <2>1. Moved /\ KeyIn(s)
        <3>1. session' = [session EXCEPT ![s].phase = "in", ![s].nonce = nextNonce] /\ ~In(s, "none")
            BY <1>5 DEF EnterRoom, In
        <3>2. "in" \in PhaseName /\ nextNonce \in Nat
            BY <1>0, <1>a
        <3> QED
            BY ONLY <1>0, <3>1, <3>2, s \in Sid, MovesOn
    <2>2. /\ nonces' = [nonces EXCEPT ![session[s].chan][session[s].user] = nextNonce]
          /\ senders' = [senders EXCEPT ![session[s].chan][session[s].user] = s]
          /\ nextNonce' = nextNonce + 1 /\ UNCHANGED <<registry, killRx, kicks>>
        BY <1>5 DEF EnterRoom
    <2>3. nonces' \in [VoiceChannel -> [Speaker -> Nat]]
        BY ONLY <1>a, <2>1, <2>2, SetEntry
    <2>4. s \in 0..MaxVoice
        BY DEF Sid
    <2>5. senders' \in [VoiceChannel -> [Speaker -> 0..MaxVoice]]
        BY ONLY <1>a, <2>1, <2>2, <2>4, SetEntry
    <2>6. nextNonce' \in Nat \ {0}
        BY ONLY <1>a, <2>2
    <2> QED
        BY ONLY <1>a, <2>1, <2>2, <2>3, <2>5, <2>6
<1>6. ASSUME NEW s \in Sid, LoopEnds(s) PROVE Goal
    <2>1. Moved
        BY <1>0, <1>6, MovesOn DEF LoopEnds, In
    <2>2. UNCHANGED <<registry, killRx, nonces, senders, nextNonce, kicks>>
        BY <1>6 DEF LoopEnds
    <2> QED
        BY ONLY <1>a, <2>1, <2>2
<1>7. ASSUME NEW s \in Sid, LoopIsKilled(s) PROVE Goal
    <2>1. Moved
        BY <1>0, <1>7, MovesOn DEF LoopIsKilled, In
    <2>2. UNCHANGED <<registry, killRx, nonces, senders, nextNonce, kicks>>
        BY <1>7 DEF LoopIsKilled
    <2> QED
        BY ONLY <1>a, <2>1, <2>2
<1>8. ASSUME NEW s \in Sid, Unregister(s) PROVE Goal
    <2>1. Moved /\ KeyIn(s)
        BY <1>0, <1>8, MovesOn DEF Unregister, In
    <2>2. /\ registry' = [registry EXCEPT ![Key(s)] = 0]
          /\ killRx' = killRx \cup ({registry[Key(s)]} \ {0, s})
          /\ senders' = [senders EXCEPT ![session[s].chan][session[s].user] = 0]
          /\ UNCHANGED <<nonces, nextNonce, kicks>>
        BY <1>8 DEF Unregister
    <2>3. registry' \in [Keys -> 0..MaxVoice]
        BY ONLY <1>0, <1>a, <1>c, <2>1, <2>2, s \in Sid
    <2>4. killRx' \subseteq Sid
        BY ONLY <1>a, <1>c, <2>1, <2>2, s \in Sid
    <2>5. senders' \in [VoiceChannel -> [Speaker -> 0..MaxVoice]]
        BY ONLY <1>0, <1>a, <2>1, <2>2, SetEntry
    <2> QED
        BY ONLY <1>a, <2>1, <2>2, <2>3, <2>4, <2>5
<1>9. ASSUME NEW s \in Sid, LeaveRoom(s) PROVE Goal
    <2>1. Moved /\ KeyIn(s)
        BY <1>0, <1>9, MovesOn DEF LeaveRoom, In
    <2>2. /\ \/ nonces' = [nonces EXCEPT ![session[s].chan][session[s].user] = 0] \/ nonces' = nonces
          /\ \/ senders' = [senders EXCEPT ![session[s].chan] = [v \in Speaker |-> 0]] \/ senders' = senders
          /\ UNCHANGED <<registry, killRx, nextNonce, kicks>>
        <3>1. CASE HoldsRoom(s)
            BY ONLY <1>9, <3>1 DEF LeaveRoom
        <3>2. CASE ~HoldsRoom(s)
            BY ONLY <1>9, <3>2 DEF LeaveRoom
        <3> QED
            BY <3>1, <3>2
    <2>3. nonces' \in [VoiceChannel -> [Speaker -> Nat]]
        <3>1. /\ nonces \in [VoiceChannel -> [Speaker -> Nat]]
              /\ session[s].chan \in VoiceChannel /\ session[s].user \in Speaker
            BY <1>a, <2>1
        <3>2. [nonces EXCEPT ![session[s].chan][session[s].user] = 0] \in [VoiceChannel -> [Speaker -> Nat]]
            BY ONLY <3>1, SetEntry, 0 \in Nat
        <3> QED
            BY ONLY <2>2, <3>1, <3>2
    <2>4. [v \in Speaker |-> 0] \in [Speaker -> 0..MaxVoice]
        BY <1>0
    <2>5. senders' \in [VoiceChannel -> [Speaker -> 0..MaxVoice]]
        BY ONLY <1>a, <2>1, <2>2, <2>4
    <2> QED
        BY ONLY <1>a, <2>1, <2>2, <2>3, <2>5
<1>10. CASE UNCHANGED voiceVars
    <2>1. Placed'
        BY <1>0, <1>10 DEF voiceVars, Placed, In
    <2> QED
        BY ONLY <1>a, <1>10, <2>1 DEF voiceVars
<1> QED
    BY <1>1, <1>2, <1>3, <1>4, <1>5, <1>6, <1>7, <1>8, <1>9, <1>10 DEF VoiceNext, RelayStep

\* The registry and the kill signals: whoever is pushed out of the registry is signalled.
LEMMA KeepsRegistered ==
    ASSUME VoiceInv, [VoiceNext]_voiceVars
    PROVE  Registered'
<1> USE DEF VoiceInv, VoiceTypeOK, Placed, Registered, In, Key
<1>1. ASSUME NEW u \in Speaker, Kick(u) PROVE Registered'
    BY <1>1 DEF Kick
<1>2. ASSUME NEW u \in Speaker, NEW c \in VoiceChannel, AcceptVoice(u, c) PROVE Registered'
    BY <1>2 DEF AcceptVoice
<1>3. ASSUME NEW s \in Sid, Close(s) PROVE Registered'
    BY <1>3 DEF Close
<1>4. ASSUME NEW s \in Sid, Register(s) PROVE Registered'
    BY <1>4 DEF Register, Sid
<1>5. ASSUME NEW s \in Sid, EnterRoom(s) PROVE Registered'
    BY <1>5 DEF EnterRoom
<1>6. ASSUME NEW s \in Sid, LoopEnds(s) PROVE Registered'
    BY <1>6 DEF LoopEnds
<1>7. ASSUME NEW s \in Sid, LoopIsKilled(s) PROVE Registered'
    BY <1>7 DEF LoopIsKilled
<1>8. ASSUME NEW s \in Sid, Unregister(s) PROVE Registered'
    BY <1>8 DEF Unregister, Sid
<1>9. ASSUME NEW s \in Sid, LeaveRoom(s) PROVE Registered'
    BY <1>9 DEF LeaveRoom
<1>10. CASE UNCHANGED voiceVars
    BY <1>10 DEF voiceVars
<1> QED
    BY <1>1, <1>2, <1>3, <1>4, <1>5, <1>6, <1>7, <1>8, <1>9, <1>10 DEF VoiceNext, RelayStep

\* The nonces: one is given on entering, and it is larger than all before.
LEMMA KeepsNonces ==
    ASSUME VoiceInv, [VoiceNext]_voiceVars
    PROVE  NoncesDiffer'
<1> USE DEF VoiceInv, VoiceTypeOK, Placed, NoncesDiffer, In
<1>1. ASSUME NEW u \in Speaker, Kick(u) PROVE NoncesDiffer'
    BY <1>1 DEF Kick
<1>2. ASSUME NEW u \in Speaker, NEW c \in VoiceChannel, AcceptVoice(u, c) PROVE NoncesDiffer'
    BY <1>2 DEF AcceptVoice
<1>3. ASSUME NEW s \in Sid, Close(s) PROVE NoncesDiffer'
    BY <1>3 DEF Close
<1>4. ASSUME NEW s \in Sid, Register(s) PROVE NoncesDiffer'
    BY <1>4 DEF Register
<1>5. ASSUME NEW s \in Sid, EnterRoom(s) PROVE NoncesDiffer'
    BY <1>5 DEF EnterRoom
<1>6. ASSUME NEW s \in Sid, LoopEnds(s) PROVE NoncesDiffer'
    BY <1>6 DEF LoopEnds
<1>7. ASSUME NEW s \in Sid, LoopIsKilled(s) PROVE NoncesDiffer'
    BY <1>7 DEF LoopIsKilled
<1>8. ASSUME NEW s \in Sid, Unregister(s) PROVE NoncesDiffer'
    BY <1>8 DEF Unregister
<1>9. ASSUME NEW s \in Sid, LeaveRoom(s) PROVE NoncesDiffer'
    BY <1>9 DEF LeaveRoom
<1>10. CASE UNCHANGED voiceVars
    BY <1>10 DEF voiceVars
<1> QED
    BY <1>1, <1>2, <1>3, <1>4, <1>5, <1>6, <1>7, <1>8, <1>9, <1>10 DEF VoiceNext, RelayStep

\* A step that leaves the rooms' nonces and every session's key and nonce, and lets none in.
LEMMA SameRooms ==
    ASSUME LiveInRoom, nonces' = nonces,
           \A t \in Sid : /\ session'[t].user = session[t].user /\ session'[t].chan = session[t].chan
                          /\ session'[t].nonce = session[t].nonce
                          /\ session'[t].phase = "in" => session[t].phase = "in"
    PROVE  LiveInRoom'
BY DEF LiveInRoom, HoldsRoom, In, Key

\* Of the session a step changes only the phase or the transport differ, and it is not let in.
LEMMA StaysOut ==
    ASSUME VoiceTypeOK, NEW s \in Sid, NEW p \in PhaseName \ {"in"}, NEW b \in BOOLEAN,
           \/ session' = [session EXCEPT ![s].phase = p]
           \/ session' = [session EXCEPT ![s].phase = p, ![s].up = b]
           \/ session' = [session EXCEPT ![s].up = b]
    PROVE  \A t \in Sid : /\ session'[t].user = session[t].user /\ session'[t].chan = session[t].chan
                          /\ session'[t].nonce = session[t].nonce
                          /\ session'[t].phase = "in" => session[t].phase = "in"
<1>1. session \in [Sid -> SessionRec]
    BY DEF VoiceTypeOK, SessionRec, PhaseName
<1>2. CASE session' = [session EXCEPT ![s].phase = p]
    BY ONLY <1>1, <1>2, s \in Sid, p \in PhaseName \ {"in"} DEF SessionRec
<1>3. CASE session' = [session EXCEPT ![s].phase = p, ![s].up = b]
    BY ONLY <1>1, <1>3, s \in Sid, p \in PhaseName \ {"in"} DEF SessionRec
<1>4. CASE session' = [session EXCEPT ![s].up = b]
    BY ONLY <1>1, <1>4, s \in Sid DEF SessionRec
<1> QED
    BY <1>2, <1>3, <1>4

\* The rooms: a session that enters takes the slot, one that leaves gives up only its own.
LEMMA KeepsRooms ==
    ASSUME VoiceInv, [VoiceNext]_voiceVars
    PROVE  LiveInRoom'
<1>0. VoiceTypeOK /\ LiveInRoom /\ {"kept", "out", "leaving", "over"} \subseteq PhaseName
    BY DEF VoiceInv, PhaseName
<1>1. ASSUME NEW u \in Speaker, Kick(u) PROVE LiveInRoom'
    BY <1>0, <1>1, SameRooms DEF Kick
<1>2. ASSUME NEW u \in Speaker, NEW c \in VoiceChannel, AcceptVoice(u, c) PROVE LiveInRoom'
    <2> USE DEF VoiceInv, VoiceTypeOK, Placed, NoncesDiffer, LiveInRoom, HoldsRoom, In, Key
    <2> PICK n \in Sid : In(n, "none") /\ session' = [session EXCEPT ![n] =
                [user |-> u, chan |-> c, phase |-> "new", nonce |-> 0, up |-> TRUE]] /\ UNCHANGED nonces
        BY <1>2 DEF AcceptVoice
    <2> SUFFICES ASSUME NEW x \in Sid, In(x, "in")',
                        \A t \in Sid : Key(t)' = Key(x)' => session'[t].nonce <= session'[x].nonce
                 PROVE  HoldsRoom(x)'
        OBVIOUS
    <2>1. x # n /\ session'[x] = session[x] /\ In(x, "in")
        OBVIOUS
    <2>2. session[x].nonce \in Nat /\ session[x].nonce # 0
        BY <2>1
    <2>3. ASSUME NEW t \in Sid, Key(t) = Key(x) PROVE session[t].nonce <= session[x].nonce
        <3>1. CASE t = n
            BY <3>1, <2>1, <1>2, <2>2, <2>3
        <3>2. CASE t # n
            BY <3>2, <2>1, <2>3
        <3> QED
            BY <3>1, <3>2
    <2> QED
        BY <2>1, <2>3
<1>3. ASSUME NEW s \in Sid, Close(s) PROVE LiveInRoom'
    BY <1>0, <1>3, StaysOut, SameRooms DEF Close
<1>4. ASSUME NEW s \in Sid, Register(s) PROVE LiveInRoom'
    BY <1>0, <1>4, StaysOut, SameRooms DEF Register
<1>5. ASSUME NEW s \in Sid, EnterRoom(s) PROVE LiveInRoom'
    BY <1>5 DEF EnterRoom, VoiceInv, VoiceTypeOK, Placed, NoncesDiffer, LiveInRoom, HoldsRoom, In, Key
<1>6. ASSUME NEW s \in Sid, LoopEnds(s) PROVE LiveInRoom'
    BY <1>0, <1>6, StaysOut, SameRooms DEF LoopEnds
<1>7. ASSUME NEW s \in Sid, LoopIsKilled(s) PROVE LiveInRoom'
    BY <1>0, <1>7, StaysOut, SameRooms DEF LoopIsKilled
<1>8. ASSUME NEW s \in Sid, Unregister(s) PROVE LiveInRoom'
    BY <1>0, <1>8, StaysOut, SameRooms DEF Unregister
<1>9. ASSUME NEW s \in Sid, LeaveRoom(s) PROVE LiveInRoom'
    <2> USE DEF VoiceInv, VoiceTypeOK, Placed, NoncesDiffer, LiveInRoom, HoldsRoom, In, Key
    <2> SUFFICES ASSUME NEW x \in Sid, In(x, "in")',
                        \A t \in Sid : Key(t)' = Key(x)' => session'[t].nonce <= session'[x].nonce
                 PROVE  HoldsRoom(x)'
        OBVIOUS
    <2>1. x # s /\ session'[x] = session[x] /\ In(x, "in")
        BY <1>9 DEF LeaveRoom
    <2>2. \A t \in Sid : Key(t)' = Key(t) /\ session'[t].nonce = session[t].nonce
        BY <1>9 DEF LeaveRoom
    <2>3. HoldsRoom(x)
        BY <2>1, <2>2
    <2>4. CASE ~HoldsRoom(s)
        BY <1>9, <2>1, <2>3, <2>4 DEF LeaveRoom
    <2>5. CASE HoldsRoom(s)
        <3>1. Key(s) # Key(x)
            BY <1>9, <2>1, <2>3, <2>5 DEF LeaveRoom
        <3>2. session[x].user \in Speaker /\ session[x].chan \in VoiceChannel
            BY <2>1
        <3>3. nonces'[session[x].chan][session[x].user] = nonces[session[x].chan][session[x].user]
            BY <1>9, <2>5, <3>1, <3>2 DEF LeaveRoom
        <3> QED
            BY <2>1, <2>3, <3>3
    <2> QED
        BY <2>4, <2>5
<1>10. CASE UNCHANGED voiceVars
    BY <1>0, <1>10, SameRooms DEF voiceVars
<1> QED
    BY <1>1, <1>2, <1>3, <1>4, <1>5, <1>6, <1>7, <1>8, <1>9, <1>10 DEF VoiceNext, RelayStep

\* The invariant of main.rs's sessions holds in every state.
THEOREM VoiceInvariance == VoiceSpec => []VoiceInv
<1>1. VoiceInv /\ [VoiceNext]_voiceVars => VoiceInv'
    BY VoiceTypes, KeepsRegistered, KeepsNonces, KeepsRooms DEF VoiceInv
<1> QED
    BY <1>1, VoiceInitially, PTL DEF VoiceSpec

\* The cleanup of an older session never takes the room from the one that reconnected.
THEOREM LiveInRoomAlways == VoiceSpec => []LiveInRoom
<1>1. VoiceInv => LiveInRoom
    BY DEF VoiceInv
<1> QED
    BY <1>1, VoiceInvariance, PTL

\* Of two sessions in their loops for one user and channel, one is about to be killed.
THEOREM OnePerKeyAlways == VoiceSpec => []OnePerKey
<1>1. VoiceInv => OnePerKey
    BY DEF VoiceInv, Registered, OnePerKey, Sid
<1> QED
    BY <1>1, VoiceInvariance, PTL

-----------------------------------------------------------------------------
(* A CommLink's link.                                                       *)

\* What the two timers mean: after a Move the old transport is gone and nothing else ends the wait;
\* the reconnect timer runs only where no transport is.
TimersFit ==
    /\ waits # {} => dial = "none" /\ line # "up"
    /\ "reconnect" \in waits => ~closed /\ "moved" \notin waits
    /\ "moved" \in waits => intentional
    /\ mounted /\ intentional => "moved" \in waits

\* A connect under way has the link to itself.
DialAlone == dial # "none" => line # "up" /\ ~closed

\* From the ticket on, and while it is up, a link that has no key has a retry on its way.
KeyOnItsWay ==
    mounted /\ ~HasKey(sealOf, sealFor) /\ (dial \in {"ticket", "ready"} \/ (line = "up" /\ ~closed))
        => retry \/ tries # {} \/ \E r \in refreshes : r.at = "cascade"

\* The key there is, is the one it is said to be.
SealNamed == sealOf # NoTune => sealFor = sealOf

LinkInv == LinkTypeOK /\ TimersFit /\ DialAlone /\ NeverStranded /\ KeyOnItsWay /\ SealNamed

LEMMA LinkInitially == LinkInit => LinkInv
<1> SUFFICES ASSUME LinkInit PROVE LinkInv
    OBVIOUS
<1>1. LinkTypeOK
    <2>1. tuned \in Tunable /\ 0 \in 0..MaxReconnects
        BY LinkBounds DEF LinkInit
    <2> QED
        BY <2>1 DEF LinkInit, LinkTypeOK
<1>2. TimersFit /\ DialAlone /\ NeverStranded
    BY DEF LinkInit, TimersFit, DialAlone, NeverStranded
<1>3. KeyOnItsWay /\ SealNamed
    BY DEF LinkInit, KeyOnItsWay, SealNamed
<1> QED
    BY <1>1, <1>2, <1>3 DEF LinkInv

\* The flags of a link are flags, and its keys are those of channels.
LEMMA LinkFlags ==
    LinkTypeOK =>
        /\ mounted \in BOOLEAN /\ intentional \in BOOLEAN /\ gated \in BOOLEAN
        /\ closed \in BOOLEAN /\ ping \in BOOLEAN /\ retry \in BOOLEAN
        /\ waits \subseteq {"reconnect", "moved"}
        /\ sealOf \in Tunable \cup {NoTune} /\ sealFor \in Tunable \cup {NoTune}
BY DEF LinkTypeOK

\* scheduleReconnect adds its timer, or there is nothing more to schedule.
LEMMA Reconnects ==
    ASSUME attempt \in 0..MaxReconnects, waits \subseteq {"reconnect", "moved"}, ScheduleReconnect
    PROVE  /\ attempt' \in 0..MaxReconnects /\ waits' \subseteq {"reconnect", "moved"}
           /\ \/ (intentional \/ attempt = MaxReconnects) /\ attempt' = attempt /\ waits' = waits
              \/ ~intentional /\ waits' = waits \cup {"reconnect"}
<1>1. CASE intentional \/ attempt = MaxReconnects
    BY <1>1 DEF ScheduleReconnect
<1>2. CASE ~(intentional \/ attempt = MaxReconnects)
    <2>1. attempt' = attempt + 1 /\ waits' = waits \cup {"reconnect"}
        BY <1>2 DEF ScheduleReconnect
    <2> QED
        BY <1>2, <2>1, LinkBounds
<1> QED
    BY <1>1, <1>2

\* The link's steps keep the types.
LEMMA LinkTypes ==
    ASSUME LinkTypeOK, [LinkNext]_linkVars
    PROVE  LinkTypeOK'
<1> DEFINE Flags == /\ mounted' \in BOOLEAN /\ intentional' \in BOOLEAN /\ gated' \in BOOLEAN
                    /\ closed' \in BOOLEAN /\ ping' \in BOOLEAN /\ retry' \in BOOLEAN
           Link == /\ tuned' \in Tunable /\ waits' \subseteq {"reconnect", "moved"} /\ attempt' \in 0..MaxReconnects
                   /\ dial' \in {"none", "group", "event", "ticket", "ready"} /\ line' \in {"none", "opening", "up"}
           SealFits == /\ sealOf' \in Tunable \cup {NoTune} /\ sealFor' \in Tunable \cup {NoTune}
                       /\ tries' \subseteq Tunable /\ refreshes' \subseteq [of : Tunable, at : {"key", "cascade"}]
<1>0. /\ mounted \in BOOLEAN /\ intentional \in BOOLEAN /\ gated \in BOOLEAN
      /\ closed \in BOOLEAN /\ ping \in BOOLEAN /\ retry \in BOOLEAN
      /\ tuned \in Tunable /\ waits \subseteq {"reconnect", "moved"} /\ attempt \in 0..MaxReconnects
      /\ dial \in {"none", "group", "event", "ticket", "ready"} /\ line \in {"none", "opening", "up"}
      /\ sealOf \in Tunable \cup {NoTune} /\ sealFor \in Tunable \cup {NoTune}
      /\ tries \subseteq Tunable /\ refreshes \subseteq [of : Tunable, at : {"key", "cascade"}]
    BY DEF LinkTypeOK
<1> SUFFICES Flags /\ Link /\ SealFits
    BY DEF LinkTypeOK
<1> USE LinkBounds DEF callVars, sealVars
<1>1. CASE MoveDue
    BY ONLY <1>0, <1>1, LinkBounds DEF MoveDue, Connects, callVars, sealVars
<1>2. CASE ReconnectDue
    BY ONLY <1>0, <1>2, LinkBounds DEF ReconnectDue, Connects, callVars, sealVars
<1>3. CASE GroupDone
    BY ONLY <1>0, <1>3, LinkBounds DEF GroupDone, callVars, sealVars
<1>4. CASE EventDone
    BY ONLY <1>0, <1>4, LinkBounds DEF EventDone, ScheduleVoiceKeyRetry, callVars, sealVars
<1>5. CASE TicketDone
    BY ONLY <1>0, <1>5, LinkBounds DEF TicketDone, callVars, sealVars
<1>6. CASE Ready
    BY ONLY <1>0, <1>6, LinkBounds DEF Ready, callVars, sealVars
<1>7. CASE CallFails
    <2>1. attempt' \in 0..MaxReconnects /\ waits' \subseteq {"reconnect", "moved"}
        BY <1>0, <1>7, Reconnects DEF CallFails
    <2> QED
        BY ONLY <1>0, <1>7, <2>1 DEF CallFails, callVars, sealVars
<1>8. CASE MonitorClosure
    <2>1. attempt' \in 0..MaxReconnects /\ waits' \subseteq {"reconnect", "moved"}
        BY <1>0, <1>8, Reconnects DEF MonitorClosure
    <2> QED
        BY ONLY <1>0, <1>8, <2>1 DEF MonitorClosure, callVars, sealVars
<1>9. CASE LineDrops
    BY ONLY <1>0, <1>9, LinkBounds DEF LineDrops, callVars, sealVars
<1>10. CASE PresencePing
    <2>1. UNCHANGED <<mounted, intentional, tuned, waits, attempt, gated, dial, sealVars>>
        BY ONLY <1>10 DEF PresencePing
    <2>2. (UNCHANGED <<line, closed>> \/ Disconnects) /\ ping' \in BOOLEAN
        BY ONLY <1>10 DEF PresencePing
    <2>3. line' \in {"none", "opening", "up"} /\ closed' \in BOOLEAN
        BY ONLY <1>0, <2>2 DEF Disconnects
    <2> QED
        BY ONLY <1>0, <2>1, <2>2, <2>3 DEF sealVars
<1>11. CASE Unmount
    BY ONLY <1>0, <1>11, LinkBounds DEF Unmount, Disconnects, callVars, sealVars
<1>12. CASE RetryDue
    BY ONLY <1>0, <1>12, LinkBounds DEF RetryDue, callVars, sealVars
<1>13. CASE Refresh
    BY ONLY <1>0, <1>13, LinkBounds DEF Refresh, callVars, sealVars
<1>14. CASE Talk
    BY ONLY <1>0, <1>14, LinkBounds DEF Talk, ScheduleVoiceKeyRetry, callVars, sealVars
<1>15. ASSUME NEW c \in Tunable, Move(c) PROVE Flags /\ Link /\ SealFits
    BY ONLY <1>0, <1>15, c \in Tunable, LinkBounds DEF Move, Disconnects, callVars, sealVars
<1>16. ASSUME NEW c \in Tunable, RetryDone(c) PROVE Flags /\ Link /\ SealFits
    BY ONLY <1>0, <1>16, c \in Tunable, LinkBounds DEF RetryDone, ScheduleVoiceKeyRetry, callVars, sealVars
<1>17. ASSUME NEW c \in Tunable, RefreshKey(c) PROVE Flags /\ Link /\ SealFits
    BY ONLY <1>0, <1>17, c \in Tunable, LinkBounds DEF RefreshKey, callVars, sealVars
<1>18. ASSUME NEW c \in Tunable, RefreshDone(c) PROVE Flags /\ Link /\ SealFits
    BY ONLY <1>0, <1>18, c \in Tunable, LinkBounds DEF RefreshDone, ScheduleVoiceKeyRetry, callVars, sealVars
<1>19. CASE UNCHANGED linkVars
    BY ONLY <1>0, <1>19 DEF linkVars, callVars, sealVars
<1> QED
    BY <1>1, <1>2, <1>3, <1>4, <1>5, <1>6, <1>7, <1>8, <1>9, <1>10, <1>11, <1>12, <1>13, <1>14, <1>15, <1>16, <1>17, <1>18, <1>19 DEF LinkNext

\* Who waits, dials and is connected.
LEMMA LinkTimers ==
    ASSUME LinkTypeOK, TimersFit, DialAlone, NeverStranded, [LinkNext]_linkVars
    PROVE  TimersFit' /\ DialAlone' /\ NeverStranded'
<1> USE DEF TimersFit, DialAlone, NeverStranded, callVars
<1>1. CASE MoveDue
    BY LinkFlags, <1>1 DEF MoveDue, Connects
<1>2. CASE ReconnectDue
    <2>1. CASE intentional
        BY LinkFlags, <1>2, <2>1 DEF ReconnectDue
    <2>2. CASE ~intentional
        BY LinkFlags, <1>2, <2>2 DEF ReconnectDue, Connects
    <2> QED
        BY <2>1, <2>2
<1>3. CASE GroupDone \/ EventDone
    BY <1>3 DEF GroupDone, EventDone
<1>4. CASE TicketDone \/ Ready
    BY <1>4 DEF TicketDone, Ready
<1>5. CASE CallFails
    BY LinkFlags, <1>5 DEF CallFails, ScheduleReconnect
<1>6. CASE MonitorClosure
    BY LinkFlags, <1>6 DEF MonitorClosure, ScheduleReconnect
<1>7. CASE LineDrops
    BY <1>7 DEF LineDrops
<1>8. CASE PresencePing
    BY LinkFlags, <1>8 DEF PresencePing, Disconnects
<1>9. CASE Unmount
    BY LinkFlags, <1>9 DEF Unmount, Disconnects
<1>10. ASSUME NEW c \in Tunable, Move(c) PROVE TimersFit' /\ DialAlone' /\ NeverStranded'
    BY LinkFlags, <1>10 DEF Move, Disconnects, LinkTypeOK
<1>11. CASE UNCHANGED callVars
    BY <1>11
<1> QED
    BY <1>1, <1>2, <1>3, <1>4, <1>5, <1>6, <1>7, <1>8, <1>9, <1>10, <1>11
       DEF LinkNext, linkVars, RetryDue, Refresh, Talk, RetryDone, RefreshKey, RefreshDone

\* The key: it is named with its channel, and a retry is seen to before it is missed.
LEMMA LinkKeys ==
    ASSUME LinkInv, [LinkNext]_linkVars
    PROVE  KeyOnItsWay' /\ SealNamed'
<1> USE DEF LinkInv, TimersFit, DialAlone, KeyOnItsWay, SealNamed, HasKey, callVars, sealVars
<1>1. CASE MoveDue
    BY LinkFlags, <1>1 DEF MoveDue, Connects
<1>2. CASE ReconnectDue
    <2>1. CASE intentional
        BY LinkFlags, <1>2, <2>1 DEF ReconnectDue
    <2>2. CASE ~intentional
        BY LinkFlags, <1>2, <2>2 DEF ReconnectDue, Connects
    <2> QED
        BY <2>1, <2>2
<1>3. CASE GroupDone \/ TicketDone \/ Ready
    BY <1>3 DEF GroupDone, TicketDone, Ready
<1>4. CASE EventDone
    BY LinkFlags, <1>4 DEF EventDone, ScheduleVoiceKeyRetry
<1>5. CASE CallFails
    BY LinkFlags, <1>5 DEF CallFails, ScheduleReconnect
<1>6. CASE MonitorClosure
    BY LinkFlags, <1>6 DEF MonitorClosure, ScheduleReconnect
<1>7. CASE LineDrops
    BY <1>7 DEF LineDrops
<1>8. CASE PresencePing
    BY LinkFlags, <1>8 DEF PresencePing, Disconnects
<1>9. CASE Unmount
    BY LinkFlags, <1>9 DEF Unmount, Disconnects
<1>10. ASSUME NEW c \in Tunable, Move(c) PROVE KeyOnItsWay' /\ SealNamed'
    BY LinkFlags, <1>10 DEF Move, Disconnects
<1>11. CASE RetryDue
    BY <1>11 DEF RetryDue
<1>12. CASE Refresh
    BY <1>12 DEF Refresh
<1>13. CASE Talk
    BY <1>13 DEF Talk, ScheduleVoiceKeyRetry
<1>14. ASSUME NEW c \in Tunable, RetryDone(c) PROVE KeyOnItsWay' /\ SealNamed'
    BY <1>14 DEF RetryDone, ScheduleVoiceKeyRetry
<1>15. ASSUME NEW c \in Tunable, RefreshKey(c) PROVE KeyOnItsWay' /\ SealNamed'
    <2> DEFINE key == [of |-> c, at |-> "key"]
               goesOn == (refreshes \ {key}) \cup {[key EXCEPT !.at = "cascade"]}
    <2>1. UNCHANGED <<callVars, retry, tries>>
        BY <1>15 DEF RefreshKey
    <2>2. CASE c # tuned /\ refreshes' = refreshes \ {key} /\ UNCHANGED <<sealOf, sealFor>>
        <3>1. \A r \in refreshes : r.at = "cascade" => r \in refreshes'
            BY <2>2
        <3> QED
            BY <2>1, <2>2, <3>1
    <2>3. CASE refreshes' = goesOn
        <3>1. \E r \in refreshes' : r.at = "cascade"
            <4>1. [key EXCEPT !.at = "cascade"].at = "cascade"
                OBVIOUS
            <4> HIDE DEF key
            <4> QED
                BY ONLY <2>3, <4>1
        <3>2. SealNamed'
            BY <1>15 DEF RefreshKey
        <3> QED
            BY <3>1, <3>2
    <2> QED
        BY <1>15, <2>2, <2>3 DEF RefreshKey
<1>16. ASSUME NEW c \in Tunable, RefreshDone(c) PROVE KeyOnItsWay' /\ SealNamed'
    BY <1>16 DEF RefreshDone, ScheduleVoiceKeyRetry
<1>17. CASE UNCHANGED linkVars
    BY <1>17 DEF linkVars
<1> QED
    BY <1>1, <1>2, <1>3, <1>4, <1>5, <1>6, <1>7, <1>8, <1>9, <1>10, <1>11, <1>12, <1>13, <1>14, <1>15, <1>16, <1>17 DEF LinkNext

\* The inductive invariant of the link.
THEOREM LinkInvariance == LinkSpec => []LinkInv
<1>1. LinkInv /\ [LinkNext]_linkVars => LinkInv'
    BY LinkTypes, LinkTimers, LinkKeys DEF LinkInv
<1> QED
    BY <1>1, LinkInitially, PTL DEF LinkSpec

\* Connection and key look after themselves, for any channels and any bound on reconnects.
THEOREM LinkSoundAlways == LinkSpec => []LinkSound
<1>1. LinkInv => LinkSound
    <2> SUFFICES ASSUME LinkInv PROVE LinkSound
        OBVIOUS
    <2>1. OneDial
        BY DEF LinkInv, TimersFit, OneDial
    <2>2. KeylessIsRetried /\ SealsForItsChannel
        BY DEF LinkInv, KeyOnItsWay, SealNamed, KeylessIsRetried, SealsForItsChannel, HasKey
    <2> QED
        BY <2>1, <2>2 DEF LinkInv, LinkSound
<1> QED
    BY <1>1, LinkInvariance, PTL

-----------------------------------------------------------------------------
(* A client's monitor sessions.                                             *)

MonitorRec == [at : {"off", "on", "disposed"}, deriving : BOOLEAN, place : Nat,
               got : {NothingGot, ExportFails} \cup 0..MaxRekeys,
               pending : BOOLEAN, timer : BOOLEAN, attempts : 0..(Unprompted + 1), dropped : BOOLEAN]

MonitorShape ==
    /\ groupSecret \in [KeyGroup -> 0..MaxRekeys] /\ rekeys \in 0..MaxRekeys /\ unsaid \subseteq KeyGroup
    /\ monitor \in [Monitor -> MonitorRec]
    /\ held \in [Monitor -> [KeyGroup -> 0..MaxRekeys]] /\ failed \in [Monitor -> SUBSET KeyGroup]
    /\ \A m \in Monitor : monitor[m].place <= Len(Follows[m])

\* Between two derivations nothing has been exported.
AtRest(r) == (~r.deriving => r.place = 0) /\ (r.place = 0 => r.got = NothingGot)

\* What a derivation has done so far stands, unless one more was asked for or the session is about to
\* be told: each group it has passed has the device's key, and the last export is not overtaken.
DoneStands(m, r, h, f, export, untold) ==
    r.at = "on" /\ r.deriving /\ ~r.pending =>
        \A i \in 1..r.place : Follows[m][i] \notin untold =>
            IF r.got # NothingGot /\ i = r.place
            THEN r.got \in {ExportFails, export[Follows[m][i]]}
            ELSE Follows[m][i] \in f \/ h[Follows[m][i]] = export[Follows[m][i]]

\* What MonitorFollows says of one session.
Followed(m, r, h, f, export, untold) ==
    /\ r.at = "on" /\ ~r.deriving => \A g \in GroupsOf(m) \ (untold \cup f) : h[g] = export[g]
    /\ r.at = "disposed" => \A g \in KeyGroup : h[g] = 0
    /\ r.at = "on" /\ ~r.deriving /\ (\E g \in GroupsOf(m) : h[g] = 0) => r.timer \/ r.attempts > Unprompted

Fits(m, r, h, f, export, untold) ==
    AtRest(r) /\ DoneStands(m, r, h, f, export, untold) /\ Followed(m, r, h, f, export, untold)

MonitorInv ==
    MonitorShape /\ \A m \in Monitor : Fits(m, monitor[m], held[m], failed[m], groupSecret, unsaid)

\* The groups of a session are groups.
LEMMA FollowsGroups ==
    ASSUME NEW m \in Monitor
    PROVE  /\ Len(Follows[m]) \in Nat /\ \A i \in 1..Len(Follows[m]) : Follows[m][i] \in KeyGroup
           /\ GroupsOf(m) \subseteq KeyGroup
BY MonitorFollowsGroups DEF GroupsOf

LEMMA MonitorInitially == MonitorInit => MonitorInv
<1> SUFFICES ASSUME MonitorInit PROVE MonitorInv
    OBVIOUS
<1>0. 0 \in 0..MaxRekeys /\ 0 \in 0..(Unprompted + 1)
    BY MonitorBounds
<1>1. NoMonitor \in MonitorRec
    BY <1>0 DEF NoMonitor, MonitorRec
<1>2. MonitorShape
    <2>1. \A m \in Monitor : monitor[m] = NoMonitor /\ NoMonitor.place = 0 /\ 0 <= Len(Follows[m])
        <3>0. monitor = [m \in Monitor |-> NoMonitor]
            BY DEF MonitorInit
        <3>1. NoMonitor.place = 0
            BY DEF NoMonitor
        <3>2. ASSUME NEW m \in Monitor PROVE 0 <= Len(Follows[m])
            <4>1. Len(Follows[m]) \in Nat
                BY FollowsGroups
            <4> QED
                BY <4>1
        <3> QED
            BY ONLY <3>0, <3>1, <3>2
    <2>2. monitor \in [Monitor -> MonitorRec]
        BY <1>1 DEF MonitorInit
    <2> QED
        BY <1>0, <2>1, <2>2 DEF MonitorInit, MonitorShape
<1>3. ASSUME NEW m \in Monitor PROVE Fits(m, monitor[m], held[m], failed[m], groupSecret, unsaid)
    BY <1>3 DEF MonitorInit, NoMonitor, Fits, AtRest, DoneStands, Followed
<1> QED
    BY <1>2, <1>3 DEF MonitorInv

\* One session moves and the others stay: only it has to be looked at.
LEMMA OneMoves ==
    ASSUME MonitorInv, NEW m \in Monitor,
           UNCHANGED <<groupSecret, rekeys, unsaid>>,
           monitor' \in [Monitor -> MonitorRec],
           held' \in [Monitor -> [KeyGroup -> 0..MaxRekeys]], failed' \in [Monitor -> SUBSET KeyGroup],
           \A n \in Monitor \ {m} : monitor'[n] = monitor[n] /\ held'[n] = held[n] /\ failed'[n] = failed[n],
           monitor'[m].place <= Len(Follows[m]),
           Fits(m, monitor'[m], held'[m], failed'[m], groupSecret, unsaid)
    PROVE  MonitorInv'
<1>1. MonitorShape'
    BY DEF MonitorInv, MonitorShape
<1>2. ASSUME NEW n \in Monitor
      PROVE  Fits(n, monitor'[n], held'[n], failed'[n], groupSecret', unsaid')
    <2>1. CASE n = m
        BY <2>1
    <2>2. CASE n # m
        BY <2>2 DEF MonitorInv
    <2> QED
        BY <2>1, <2>2
<1> QED
    BY <1>1, <1>2 DEF MonitorInv

\* The same where no keys change.
LEMMA OneChanges ==
    ASSUME MonitorInv, NEW m \in Monitor, NEW r \in MonitorRec,
           UNCHANGED <<groupSecret, rekeys, unsaid, held, failed>>,
           monitor' = [monitor EXCEPT ![m] = r],
           r.place <= Len(Follows[m]),
           Fits(m, r, held[m], failed[m], groupSecret, unsaid)
    PROVE  MonitorInv'
<1>1. /\ monitor \in [Monitor -> MonitorRec]
      /\ held \in [Monitor -> [KeyGroup -> 0..MaxRekeys]] /\ failed \in [Monitor -> SUBSET KeyGroup]
    BY DEF MonitorInv, MonitorShape
<1>2. monitor' \in [Monitor -> MonitorRec] /\ monitor'[m] = r /\ \A n \in Monitor \ {m} : monitor'[n] = monitor[n]
    BY ONLY <1>1, m \in Monitor, r \in MonitorRec, monitor' = [monitor EXCEPT ![m] = r]
<1> QED
    BY <1>1, <1>2, OneMoves

\* Whoever asks for the keys will have them derived once more.
LEMMA AskedFits ==
    ASSUME NEW m \in Monitor, monitor[m] \in MonitorRec, NEW h, NEW f, NEW export, NEW untold,
           Fits(m, monitor[m], h, f, export, untold)
    PROVE  /\ Asked(m) \in MonitorRec /\ Asked(m).place = monitor[m].place /\ Asked(m).at = monitor[m].at
           /\ IsOn(m) => \A new : Fits(m, Asked(m), h, f, export, new)
<1>1. CASE monitor[m].deriving
    <2>1. Asked(m) = [monitor[m] EXCEPT !.pending = TRUE]
        BY <1>1 DEF Asked
    <2>2. /\ Asked(m) \in MonitorRec /\ Asked(m).pending = TRUE /\ Asked(m).deriving = TRUE
          /\ Asked(m).place = monitor[m].place /\ Asked(m).got = monitor[m].got /\ Asked(m).at = monitor[m].at
        BY <1>1, <2>1 DEF MonitorRec
    <2> QED
        BY <2>2 DEF Fits, AtRest, DoneStands, Followed, IsOn
<1>2. CASE ~monitor[m].deriving
    <2>1. Asked(m) = [monitor[m] EXCEPT !.deriving = TRUE]
        BY <1>2 DEF Asked
    <2>2. /\ Asked(m) \in MonitorRec /\ Asked(m).deriving = TRUE
          /\ Asked(m).place = monitor[m].place /\ Asked(m).got = monitor[m].got /\ Asked(m).at = monitor[m].at
        BY <2>1 DEF MonitorRec
    <2>3. Asked(m).place = 0
        BY <1>2, <2>2 DEF Fits, AtRest
    <2> QED
        BY <2>2, <2>3 DEF Fits, AtRest, DoneStands, Followed, IsOn
<1> QED
    BY <1>1, <1>2

\* A retry is scheduled or there is no need of one.
LEMMA ScheduledFields ==
    ASSUME NEW r \in MonitorRec, NEW complete \in BOOLEAN
    PROVE  LET s == Scheduled(r, complete) IN
           /\ s \in MonitorRec /\ s.place = r.place /\ s.got = r.got /\ s.at = r.at
           /\ s.deriving = r.deriving /\ s.pending = r.pending
           /\ r.timer => s.timer
           /\ ~complete => s.timer
<1>1. CASE r.timer \/ complete
    BY <1>1 DEF Scheduled
<1>2. CASE ~(r.timer \/ complete)
    <2>1. PICK a \in 0..(Unprompted + 1) : Scheduled(r, complete) = [r EXCEPT !.timer = TRUE, !.attempts = a]
        <3>1. r.attempts \in 0..(Unprompted + 1)
            BY DEF MonitorRec
        <3>2. (IF r.attempts > Unprompted THEN r.attempts ELSE r.attempts + 1) \in 0..(Unprompted + 1)
            BY <3>1, MonitorBounds
        <3> QED
            BY <1>2, <3>2 DEF Scheduled
    <2> QED
        BY <1>2, <2>1 DEF MonitorRec
<1> QED
    BY <1>1, <1>2

\* The device's groups change, and the sessions are told.
LEMMA GroupsMove ==
    ASSUME MonitorInv, NEW g \in KeyGroup, GroupMoves(g) \/ Told(g)
    PROVE  MonitorInv'
<1>0. MonitorShape /\ \A m \in Monitor : Fits(m, monitor[m], held[m], failed[m], groupSecret, unsaid)
    BY DEF MonitorInv
<1>1. CASE GroupMoves(g)
    <2>1. /\ groupSecret' \in [KeyGroup -> 0..MaxRekeys] /\ rekeys' \in 0..MaxRekeys
          /\ \A k \in KeyGroup \ {g} : groupSecret'[k] = groupSecret[k]
        <3>0. groupSecret \in [KeyGroup -> 0..MaxRekeys] /\ rekeys \in 0..MaxRekeys /\ 0 \in 0..MaxRekeys
            BY <1>0, MonitorBounds DEF MonitorShape
        <3>1. PICK k \in 0..MaxRekeys : groupSecret' = [groupSecret EXCEPT ![g] = k] /\ rekeys' \in {rekeys, k}
            <4>1. rekeys < MaxRekeys => rekeys + 1 \in 0..MaxRekeys
                BY <3>0, MonitorBounds
            <4> QED
                BY <1>1, <3>0, <4>1 DEF GroupMoves
        <3> QED
            BY ONLY <3>0, <3>1, g \in KeyGroup
    <2>2. unsaid' = unsaid \cup {g} /\ UNCHANGED <<monitor, held, failed>>
        BY <1>1 DEF GroupMoves
    <2>3. MonitorShape'
        BY <1>0, <2>1, <2>2 DEF MonitorShape
    <2>4. ASSUME NEW m \in Monitor
          PROVE  Fits(m, monitor[m], held[m], failed[m], groupSecret', unsaid')
        <3>1. Fits(m, monitor[m], held[m], failed[m], groupSecret, unsaid)
            BY <1>0
        <3>2. monitor[m].place \in Nat /\ monitor[m].place <= Len(Follows[m])
            BY <1>0 DEF MonitorShape, MonitorRec
        <3>3. \A i \in 1..monitor[m].place : Follows[m][i] \in KeyGroup
            BY <3>2, FollowsGroups
        <3>4. \A k \in KeyGroup \ unsaid' : k \notin unsaid /\ groupSecret'[k] = groupSecret[k]
            BY <2>1, <2>2
        <3>5. DoneStands(m, monitor[m], held[m], failed[m], groupSecret', unsaid')
            BY <3>1, <3>3, <3>4 DEF Fits, DoneStands
        <3>6. Followed(m, monitor[m], held[m], failed[m], groupSecret', unsaid')
            BY <3>1, <3>4, FollowsGroups DEF Fits, Followed
        <3> QED
            BY <3>1, <3>5, <3>6 DEF Fits
    <2> QED
        BY <2>2, <2>3, <2>4 DEF MonitorInv
<1>2. CASE Told(g)
    <2>1. unsaid' = unsaid \ {g} /\ UNCHANGED <<groupSecret, rekeys, held, failed>>
        BY <1>2 DEF Told
    <2>2. monitor' = [m \in Monitor |-> IF m \in {n \in Monitor : g \in GroupsOf(n)} /\ IsOn(m)
                                       THEN Asked(m) ELSE monitor[m]]
        BY <1>2 DEF Told, DeriveFor
    <2>3. ASSUME NEW m \in Monitor
          PROVE  /\ monitor'[m] \in MonitorRec /\ monitor'[m].place <= Len(Follows[m])
                 /\ Fits(m, monitor'[m], held[m], failed[m], groupSecret, unsaid')
        <3>1. /\ monitor[m] \in MonitorRec /\ monitor[m].place <= Len(Follows[m])
              /\ Fits(m, monitor[m], held[m], failed[m], groupSecret, unsaid)
            BY <1>0 DEF MonitorShape
        <3>2. CASE g \in GroupsOf(m) /\ IsOn(m)
            <4>1. monitor'[m] = Asked(m)
                BY <2>2, <3>2
            <4> QED
                BY <3>1, <3>2, <4>1, AskedFits
        <3>3. CASE ~IsOn(m)
            <4>1. monitor'[m] = monitor[m]
                BY <2>2, <3>3
            <4> QED
                BY <3>1, <3>3, <4>1 DEF Fits, AtRest, DoneStands, Followed, IsOn
        <3>4. CASE g \notin GroupsOf(m)
            <4>1. monitor'[m] = monitor[m]
                BY <2>2, <3>4
            <4>2. monitor[m].place \in Nat
                BY <3>1 DEF MonitorRec
            <4>3. \A i \in 1..monitor[m].place : Follows[m][i] # g
                BY <3>1, <3>4, <4>2, FollowsGroups DEF GroupsOf
            <4>4. DoneStands(m, monitor[m], held[m], failed[m], groupSecret, unsaid')
                BY <2>1, <3>1, <4>3 DEF Fits, DoneStands
            <4>5. Followed(m, monitor[m], held[m], failed[m], groupSecret, unsaid')
                BY <2>1, <3>1, <3>4 DEF Fits, Followed
            <4> QED
                BY <3>1, <4>1, <4>4, <4>5 DEF Fits
        <3> QED
            BY <3>2, <3>3, <3>4
    <2>4. MonitorShape'
        BY <1>0, <2>1, <2>2, <2>3 DEF MonitorShape
    <2> QED
        BY <2>1, <2>3, <2>4 DEF MonitorInv
<1> QED
    BY <1>1, <1>2

\* A session asks: by its start, by what it hears, by its timer.
LEMMA MonitorAsks ==
    ASSUME MonitorInv, NEW m \in Monitor, StartMonitor(m) \/ Suspect(m) \/ NoKeyDrop(m) \/ RetryTimer(m)
    PROVE  MonitorInv'
<1>0. /\ monitor \in [Monitor -> MonitorRec] /\ monitor[m] \in MonitorRec /\ monitor[m].place <= Len(Follows[m])
      /\ Fits(m, monitor[m], held[m], failed[m], groupSecret, unsaid)
      /\ 0 <= Len(Follows[m]) /\ 0 \in 0..(Unprompted + 1)
    BY FollowsGroups, MonitorBounds DEF MonitorInv, MonitorShape
<1>u. UNCHANGED <<groupSecret, rekeys, unsaid, held, failed>>
    BY DEF StartMonitor, Suspect, NoKeyDrop, RetryTimer
<1> DEFINE Steps(r) == /\ r \in MonitorRec /\ monitor' = [monitor EXCEPT ![m] = r] /\ r.place <= Len(Follows[m])
                      /\ Fits(m, r, held[m], failed[m], groupSecret, unsaid)
<1>s. ASSUME NEW r, Steps(r) PROVE MonitorInv'
    BY <1>s, <1>u, OneChanges
<1> HIDE DEF Steps
<1>1. CASE StartMonitor(m)
    <2> DEFINE r == [NoMonitor EXCEPT !.at = "on", !.deriving = TRUE]
    <2>1. r \in MonitorRec /\ r.at = "on" /\ r.deriving = TRUE /\ r.place = 0 /\ r.got = NothingGot
        BY <1>0 DEF NoMonitor, MonitorRec
    <2>2. monitor' = [monitor EXCEPT ![m] = r]
        BY <1>1 DEF StartMonitor
    <2> HIDE DEF r
    <2>3. Fits(m, r, held[m], failed[m], groupSecret, unsaid)
        BY <2>1 DEF Fits, AtRest, DoneStands, Followed
    <2> QED
        BY <1>0, <1>s, <2>1, <2>2, <2>3 DEF Steps
<1>2. CASE Suspect(m)
    <2>1. IsOn(m) /\ monitor' = [n \in Monitor |-> IF n \in {m} /\ IsOn(n) THEN Asked(n) ELSE monitor[n]]
        BY <1>2 DEF Suspect, DeriveFor
    <2>2. monitor' = [monitor EXCEPT ![m] = Asked(m)]
        BY <1>0, <2>1
    <2> QED
        BY <1>0, <1>s, <2>1, <2>2, AskedFits DEF Steps
<1>3. CASE NoKeyDrop(m)
    <2> DEFINE d == [monitor[m] EXCEPT !.dropped = TRUE]
               r == Scheduled(d, FALSE)
    <2>1. /\ d \in MonitorRec /\ d.place = monitor[m].place /\ d.got = monitor[m].got /\ d.at = monitor[m].at
          /\ d.deriving = monitor[m].deriving /\ d.pending = monitor[m].pending
        BY <1>0 DEF MonitorRec
    <2>2. monitor' = [monitor EXCEPT ![m] = r]
        BY <1>3 DEF NoKeyDrop
    <2> HIDE DEF d
    <2>3. /\ r \in MonitorRec /\ r.place = d.place /\ r.got = d.got /\ r.at = d.at
          /\ r.deriving = d.deriving /\ r.pending = d.pending /\ r.timer
        BY <2>1, ScheduledFields
    <2> HIDE DEF r
    <2>4. Fits(m, r, held[m], failed[m], groupSecret, unsaid)
        BY <1>0, <2>1, <2>3 DEF Fits, AtRest, DoneStands, Followed
    <2> QED
        BY <1>0, <1>s, <2>1, <2>2, <2>3, <2>4 DEF Steps
<1>4. CASE RetryTimer(m)
    <2> DEFINE o == [monitor[m] EXCEPT !.timer = FALSE]
               r == [o EXCEPT !.dropped = FALSE, !.pending = o.deriving \/ @, !.deriving = TRUE]
    <2>1. /\ o \in MonitorRec /\ o.place = monitor[m].place /\ o.got = monitor[m].got /\ o.at = monitor[m].at
          /\ o.deriving = monitor[m].deriving /\ o.pending = monitor[m].pending /\ o.attempts = monitor[m].attempts
        BY <1>0 DEF MonitorRec
    <2>2. monitor' = [monitor EXCEPT ![m] = IF o.attempts > Unprompted /\ ~o.dropped THEN o ELSE r] /\ IsOn(m)
        BY <1>4 DEF RetryTimer
    <2> HIDE DEF o
    <2>3. CASE o.attempts > Unprompted /\ ~o.dropped
        <3>1. Fits(m, o, held[m], failed[m], groupSecret, unsaid)
            BY <1>0, <2>1, <2>3 DEF Fits, AtRest, DoneStands, Followed
        <3> QED
            BY <1>0, <1>s, <2>1, <2>2, <2>3, <3>1 DEF Steps
    <2>4. CASE ~(o.attempts > Unprompted /\ ~o.dropped)
        <3>1. /\ r \in MonitorRec /\ r.place = o.place /\ r.got = o.got /\ r.at = o.at
              /\ r.deriving = TRUE /\ (o.deriving => r.pending)
            BY <2>1 DEF MonitorRec
        <3>2. monitor' = [monitor EXCEPT ![m] = r]
            BY <2>2, <2>4
        <3> HIDE DEF r
        <3>3. Fits(m, r, held[m], failed[m], groupSecret, unsaid)
            BY <1>0, <2>1, <2>2, <3>1 DEF Fits, AtRest, DoneStands, Followed, IsOn
        <3> QED
            BY <1>0, <1>s, <2>1, <3>1, <3>2, <3>3 DEF Steps
    <2> QED
        BY <2>3, <2>4
<1> QED
    BY <1>1, <1>2, <1>3, <1>4

\* A derivation's steps.
LEMMA MonitorDerives ==
    ASSUME MonitorInv, NEW m \in Monitor, Export(m) \/ Install(m) \/ Derived(m)
    PROVE  MonitorInv'
<1>0. /\ monitor \in [Monitor -> MonitorRec] /\ monitor[m] \in MonitorRec /\ monitor[m].place <= Len(Follows[m])
      /\ monitor[m].place \in Nat /\ Len(Follows[m]) \in Nat
      /\ groupSecret \in [KeyGroup -> 0..MaxRekeys]
      /\ held \in [Monitor -> [KeyGroup -> 0..MaxRekeys]] /\ failed \in [Monitor -> SUBSET KeyGroup]
      /\ Fits(m, monitor[m], held[m], failed[m], groupSecret, unsaid)
    BY FollowsGroups DEF MonitorInv, MonitorShape, MonitorRec
<1>1. CASE Export(m)
    <2> DEFINE g == Follows[m][monitor[m].place + 1]
    <2>1. /\ monitor[m].deriving /\ monitor[m].got = NothingGot /\ monitor[m].place < Len(Follows[m])
          /\ UNCHANGED <<groupSecret, rekeys, unsaid, held, failed>>
        BY <1>1 DEF Export
    <2>2. PICK k \in {groupSecret[g], ExportFails} :
             monitor' = [monitor EXCEPT ![m].place = @ + 1, ![m].got = k]
        BY <1>1 DEF Export
    <2> DEFINE r == [monitor[m] EXCEPT !.place = @ + 1, !.got = k]
    <2>3. monitor' = [monitor EXCEPT ![m] = r]
        BY <2>2
    <2>4. g \in KeyGroup
        <3>1. monitor[m].place + 1 \in 1..Len(Follows[m])
            BY ONLY <1>0, <2>1
        <3> QED
            BY <3>1, FollowsGroups
    <2>5. k \in {NothingGot, ExportFails} \cup 0..MaxRekeys /\ k # NothingGot
        BY <1>0, <2>4, MonitorBounds DEF NothingGot, ExportFails
    <2>6. /\ r \in MonitorRec /\ r.place = monitor[m].place + 1 /\ r.got = k /\ r.at = monitor[m].at
          /\ r.deriving = monitor[m].deriving /\ r.pending = monitor[m].pending
        <3>1. monitor[m].place + 1 \in Nat
            BY ONLY <1>0
        <3> QED
            BY ONLY <1>0, <2>5, <3>1 DEF MonitorRec
    <2> HIDE DEF r
    <2>7. AtRest(r) /\ Followed(m, r, held[m], failed[m], groupSecret, unsaid)
        BY <1>0, <2>1, <2>6 DEF Fits, AtRest, Followed
    <2>8. DoneStands(m, r, held[m], failed[m], groupSecret, unsaid)
        <3> SUFFICES ASSUME r.at = "on", r.deriving, ~r.pending,
                            NEW i \in 1..r.place, Follows[m][i] \notin unsaid
                     PROVE  IF r.got # NothingGot /\ i = r.place
                            THEN r.got \in {ExportFails, groupSecret[Follows[m][i]]}
                            ELSE Follows[m][i] \in failed[m] \/ held[m][Follows[m][i]] = groupSecret[Follows[m][i]]
            BY DEF DoneStands
        <3>1. CASE i = r.place
            BY <2>2, <2>5, <2>6, <3>1
        <3>2. CASE i # r.place
            <4>1. monitor[m].place \in Nat /\ r.place = monitor[m].place + 1
                BY <1>0, <2>6
            <4>2. i \in 1..monitor[m].place
                BY ONLY <3>2, <4>1, i \in 1..r.place
            <4> QED
                BY <1>0, <2>1, <2>6, <4>2, <3>2, <4>1 DEF Fits, DoneStands
        <3> QED
            BY <3>1, <3>2
    <2>9. r.place <= Len(Follows[m])
        BY <1>0, <2>1, <2>6
    <2> QED
        BY <2>1, <2>3, <2>6, <2>7, <2>8, <2>9, OneChanges DEF Fits
<1>2. CASE Install(m)
    <2> DEFINE g == GroupAt(m)
               r == [monitor[m] EXCEPT !.got = NothingGot]
               k == monitor[m].got
    <2>1. k # NothingGot /\ monitor' = [monitor EXCEPT ![m] = r] /\ UNCHANGED <<groupSecret, rekeys, unsaid>>
        BY <1>2 DEF Install
    <2>2. monitor[m].deriving /\ monitor[m].place \in 1..Len(Follows[m])
        BY <1>0, <2>1 DEF Fits, AtRest
    <2>3. g \in KeyGroup /\ g = Follows[m][monitor[m].place]
        BY <2>2, FollowsGroups DEF GroupAt
    <2>4. /\ r \in MonitorRec /\ r.place = monitor[m].place /\ r.got = NothingGot /\ r.at = monitor[m].at
          /\ r.deriving = monitor[m].deriving /\ r.pending = monitor[m].pending
        BY <1>0 DEF MonitorRec
    <2>5. k \in {ExportFails} \cup 0..MaxRekeys
        BY <1>0, <2>1 DEF MonitorRec
    <2>6. held' = (IF k = 0 \/ (IsOn(m) /\ k # ExportFails) THEN [held EXCEPT ![m][g] = k] ELSE held)
          /\ failed' = [failed EXCEPT ![m] = IF k = ExportFails THEN @ \cup {g} ELSE @ \ {g}]
        BY <1>2 DEF Install
    <2> HIDE DEF r, g, k
    <2>7. /\ failed' \in [Monitor -> SUBSET KeyGroup]
          /\ failed'[m] = IF k = ExportFails THEN failed[m] \cup {g} ELSE failed[m] \ {g}
          /\ \A n \in Monitor \ {m} : failed'[n] = failed[n]
        BY ONLY <1>0, <2>3, <2>6, m \in Monitor
    <2>8. /\ held' \in [Monitor -> [KeyGroup -> 0..MaxRekeys]]
          /\ \A n \in Monitor \ {m} : held'[n] = held[n]
          /\ \A x \in KeyGroup \ {g} : held'[m][x] = held[m][x]
          /\ held'[m][g] = IF k = 0 \/ (IsOn(m) /\ k # ExportFails) THEN k ELSE held[m][g]
        <3>1. CASE k = 0 \/ (IsOn(m) /\ k # ExportFails)
            <4>1. held' = [held EXCEPT ![m][g] = k] /\ k \in 0..MaxRekeys
                BY <2>5, <2>6, <3>1, MonitorBounds
            <4> QED
                BY ONLY <1>0, <2>3, <3>1, <4>1, m \in Monitor
        <3>2. CASE ~(k = 0 \/ (IsOn(m) /\ k # ExportFails))
            BY <1>0, <2>6, <3>2
        <3> QED
            BY <3>1, <3>2
    <2>9. monitor' \in [Monitor -> MonitorRec] /\ monitor'[m] = r /\ \A n \in Monitor \ {m} : monitor'[n] = monitor[n]
        BY ONLY <1>0, <2>1, <2>4, m \in Monitor
    <2>10. DoneStands(m, r, held'[m], failed'[m], groupSecret, unsaid)
        <3> SUFFICES ASSUME r.at = "on", r.deriving, ~r.pending,
                            NEW i \in 1..r.place, Follows[m][i] \notin unsaid
                     PROVE  Follows[m][i] \in failed'[m] \/ held'[m][Follows[m][i]] = groupSecret[Follows[m][i]]
            BY <2>4 DEF DoneStands
        <3>1. Follows[m][i] \in KeyGroup
            BY <1>0, <2>4, FollowsGroups
        <3>2. IsOn(m)
            BY <2>4 DEF IsOn
        <3>3. k \in {ExportFails, groupSecret[g]} \/ g \in unsaid
            BY <1>0, <2>1, <2>2, <2>3, <2>4 DEF Fits, DoneStands, k
        <3>4. CASE Follows[m][i] = g
            BY <2>7, <2>8, <3>1, <3>2, <3>3, <3>4
        <3>5. CASE Follows[m][i] # g
            <4>1. i # monitor[m].place
                BY <2>3, <3>5
            <4>2. Follows[m][i] \in failed[m] \/ held[m][Follows[m][i]] = groupSecret[Follows[m][i]]
                BY <1>0, <2>4, <4>1 DEF Fits, DoneStands
            <4> QED
                BY <2>7, <2>8, <3>1, <3>5, <4>2
        <3> QED
            BY <3>4, <3>5
    <2>11. AtRest(r) /\ Followed(m, r, held'[m], failed'[m], groupSecret, unsaid)
        <3>1. r.at = "disposed" => \A x \in KeyGroup : held'[m][x] = 0
            BY <1>0, <2>4, <2>8 DEF Fits, Followed, IsOn
        <3> QED
            BY <1>0, <2>2, <2>4, <3>1 DEF Fits, AtRest, Followed
    <2> QED
        BY <1>0, <2>1, <2>4, <2>7, <2>8, <2>9, <2>10, <2>11, OneMoves DEF Fits
<1>3. CASE Derived(m)
    <2> DEFINE r == [monitor[m] EXCEPT !.deriving = FALSE, !.place = 0]
               complete == KeysComplete(m)
               s == IF complete THEN [r EXCEPT !.attempts = 0, !.timer = FALSE] ELSE r
               again == [s EXCEPT !.pending = FALSE, !.deriving = TRUE]
               new == IF ~IsOn(m) THEN r ELSE IF s.pending THEN again ELSE Scheduled(s, complete)
    <2>1. /\ monitor[m].got = NothingGot
          /\ monitor[m].place = Len(Follows[m]) \/ (monitor[m].place = 0 /\ ~IsOn(m))
          /\ monitor[m].deriving
          /\ monitor' = [monitor EXCEPT ![m] = new] /\ UNCHANGED <<groupSecret, rekeys, unsaid, held, failed>>
        BY <1>3 DEF Derived
    <2>2. /\ r \in MonitorRec /\ r.deriving = FALSE /\ r.place = 0 /\ r.got = NothingGot /\ r.at = monitor[m].at
          /\ r.pending = monitor[m].pending
        BY <1>0, <2>1 DEF MonitorRec
    <2> HIDE DEF r
    <2>3. /\ s \in MonitorRec /\ s.deriving = FALSE /\ s.place = 0 /\ s.got = NothingGot /\ s.at = r.at
          /\ s.pending = r.pending
        <3>1. [r EXCEPT !.attempts = 0, !.timer = FALSE] \in MonitorRec
            <4>1. 0 \in 0..(Unprompted + 1)
                BY MonitorBounds
            <4> QED
                BY ONLY <2>2, <4>1 DEF MonitorRec
        <3> QED
            BY <2>2, <3>1 DEF MonitorRec
    <2>4. complete \in BOOLEAN /\ (~complete <=> \E g \in GroupsOf(m) : held[m][g] = 0)
        BY DEF KeysComplete
    <2> HIDE DEF s, complete
    <2>5. new \in MonitorRec /\ new.place = 0 /\ Fits(m, new, held[m], failed[m], groupSecret, unsaid)
        <3>1. CASE ~IsOn(m)
            BY <1>0, <2>2, <3>1 DEF Fits, AtRest, DoneStands, Followed, IsOn
        <3>2. CASE IsOn(m) /\ s.pending
            <4>1. /\ again \in MonitorRec /\ again.deriving = TRUE /\ again.place = 0 /\ again.got = NothingGot
                  /\ again.at = s.at
                BY <2>3 DEF MonitorRec
            <4>2. new = again
                BY <3>2
            <4> HIDE DEF new, again
            <4> QED
                BY <1>0, <2>2, <2>3, <3>2, <4>1, <4>2 DEF Fits, AtRest, DoneStands, Followed, IsOn
        <3>3. CASE IsOn(m) /\ ~s.pending
            <4>1. new = Scheduled(s, complete)
                BY <3>3
            <4> HIDE DEF new
            <4>2. /\ new \in MonitorRec /\ new.place = 0 /\ new.got = NothingGot /\ new.at = s.at
                  /\ new.deriving = FALSE /\ (~complete => new.timer)
                BY <2>3, <2>4, <4>1, ScheduledFields
            <4>3. \A g \in GroupsOf(m) \ (unsaid \cup failed[m]) : held[m][g] = groupSecret[g]
                <5> SUFFICES ASSUME NEW i \in 1..Len(Follows[m]), Follows[m][i] \notin unsaid \cup failed[m]
                             PROVE  held[m][Follows[m][i]] = groupSecret[Follows[m][i]]
                    BY DEF GroupsOf
                <5>1. monitor[m].place = Len(Follows[m]) /\ ~monitor[m].pending /\ monitor[m].at = "on"
                    BY <2>1, <2>2, <2>3, <3>3 DEF IsOn
                <5> QED
                    BY <1>0, <2>1, <5>1 DEF Fits, DoneStands
            <4> QED
                <5>1. Followed(m, new, held[m], failed[m], groupSecret, unsaid)
                    BY <2>2, <2>3, <2>4, <3>3, <4>2, <4>3 DEF Followed, IsOn
                <5> QED
                    BY <4>2, <5>1 DEF Fits, AtRest, DoneStands
        <3> QED
            BY <3>1, <3>2, <3>3
    <2> HIDE DEF new
    <2>6. new.place <= Len(Follows[m])
        BY ONLY <1>0, <2>5
    <2> QED
        BY <2>1, <2>5, <2>6, OneChanges
<1> QED
    BY <1>1, <1>2, <1>3

\* The end of a session.
LEMMA MonitorEnds ==
    ASSUME MonitorInv, NEW m \in Monitor, Dispose(m)
    PROVE  MonitorInv'
<1> DEFINE r == [monitor[m] EXCEPT !.at = "disposed", !.timer = FALSE]
<1>0. /\ monitor \in [Monitor -> MonitorRec] /\ monitor[m] \in MonitorRec /\ monitor[m].place <= Len(Follows[m])
      /\ held \in [Monitor -> [KeyGroup -> 0..MaxRekeys]] /\ failed \in [Monitor -> SUBSET KeyGroup]
      /\ Fits(m, monitor[m], held[m], failed[m], groupSecret, unsaid)
    BY DEF MonitorInv, MonitorShape
<1>1. /\ monitor' = [monitor EXCEPT ![m] = r] /\ held' = [held EXCEPT ![m] = [g \in KeyGroup |-> 0]]
      /\ UNCHANGED <<groupSecret, rekeys, unsaid, failed>>
    BY DEF Dispose
<1>2. /\ r \in MonitorRec /\ r.place = monitor[m].place /\ r.got = monitor[m].got /\ r.at = "disposed"
      /\ r.deriving = monitor[m].deriving
    BY <1>0 DEF MonitorRec
<1> HIDE DEF r
<1>3. /\ held' \in [Monitor -> [KeyGroup -> 0..MaxRekeys]] /\ \A g \in KeyGroup : held'[m][g] = 0
      /\ \A n \in Monitor \ {m} : held'[n] = held[n]
    <2>1. [g \in KeyGroup |-> 0] \in [KeyGroup -> 0..MaxRekeys]
        BY MonitorBounds
    <2> QED
        BY <1>0, <1>1, <2>1
<1>4. monitor' \in [Monitor -> MonitorRec] /\ monitor'[m] = r /\ \A n \in Monitor \ {m} : monitor'[n] = monitor[n]
    BY ONLY <1>0, <1>1, <1>2, m \in Monitor
<1>5. Fits(m, r, held'[m], failed'[m], groupSecret, unsaid)
    BY <1>0, <1>2, <1>3 DEF Fits, AtRest, DoneStands, Followed
<1> QED
    BY <1>0, <1>1, <1>2, <1>3, <1>4, <1>5, OneMoves

\* The inductive invariant of the monitor sessions: the keys passed so far by a derivation stand.
THEOREM MonitorInvariance == MonitorSpec => []MonitorInv
<1>1. ASSUME MonitorInv, [MonitorNext]_monitorVars PROVE MonitorInv'
    <2>1. CASE UNCHANGED monitorVars
        BY <1>1, <2>1 DEF monitorVars, MonitorInv, MonitorShape
    <2> QED
        BY <1>1, <2>1, GroupsMove, MonitorAsks, MonitorDerives, MonitorEnds DEF MonitorNext
<1> QED
    BY <1>1, MonitorInitially, PTL DEF MonitorSpec

\* Whatever number of sessions, channels and changes: the keys follow the device's groups, and no
\* session that is gone keeps any.
THEOREM MonitorFollowsAlways == MonitorSpec => []MonitorFollows
<1>1. MonitorInv => MonitorFollows
    <2> SUFFICES ASSUME MonitorInv PROVE MonitorFollows
        OBVIOUS
    <2>1. \A m \in Monitor : Followed(m, monitor[m], held[m], failed[m], groupSecret, unsaid)
        BY DEF MonitorInv, Fits
    <2> QED
        BY <2>1 DEF Followed, MonitorFollows, NoRekeyMissed, DisposedIsKeyless, KeylessRetries, KeysComplete, IsOn
<1> QED
    BY <1>1, MonitorInvariance, PTL

\* Every reachable state is well typed.
THEOREM MonitorTypeCorrect == MonitorSpec => []MonitorTypeOK
<1>1. MonitorInv => MonitorTypeOK
    <2> SUFFICES ASSUME MonitorInv PROVE MonitorTypeOK
        OBVIOUS
    <2>1. MonitorShape
        BY DEF MonitorInv
    <2>2. ASSUME NEW m \in Monitor
          PROVE  /\ monitor[m].at \in {"off", "on", "disposed"}
                 /\ {monitor[m].deriving, monitor[m].pending, monitor[m].timer, monitor[m].dropped} \subseteq BOOLEAN
                 /\ monitor[m].place \in 0..Len(Follows[m])
                 /\ monitor[m].got \in {NothingGot, ExportFails} \cup 0..MaxRekeys
                 /\ monitor[m].attempts \in 0..(Unprompted + 1)
        <3>1. monitor[m] \in MonitorRec /\ monitor[m].place <= Len(Follows[m]) /\ Len(Follows[m]) \in Nat
            BY <2>1, FollowsGroups DEF MonitorShape
        <3> QED
            BY <3>1 DEF MonitorRec
    <2> QED
        BY <2>1, <2>2 DEF MonitorShape, MonitorTypeOK
<1> QED
    BY <1>1, MonitorInvariance, PTL

-----------------------------------------------------------------------------
(* The rooms' speakers.                                                    *)

LEMMA SpeechInitTyped == SpeechInit => SpeechTypeOK
BY SpeechSets, SpeechTree DEF SpeechInit, SpeechTypeOK

\* One action a step: only a leave, a frame and a sweep touch what a room holds.
LEMMA SpeechTyped == SpeechTypeOK /\ [SpeechNext]_speechVars => SpeechTypeOK'
<1> SUFFICES ASSUME SpeechTypeOK, [SpeechNext]_speechVars PROVE SpeechTypeOK'
  OBVIOUS
<1> USE SpeechSets, SpeechTree DEF SpeechTypeOK
<1>1. ASSUME NEW u \in Crew, NEW n \in Net, JoinNet(u, n) PROVE SpeechTypeOK'
  BY <1>1 DEF JoinNet
<1>2. ASSUME NEW u \in Crew, LeaveNet(u) PROVE SpeechTypeOK'
  <2>1. inNet[u] \in Net
    BY <1>2 DEF LeaveNet
  <2>2. CASE holder[inNet[u]] = u \/ InNet(inNet[u]) = {u}
    BY <1>2, <2>1, <2>2 DEF LeaveNet
  <2>3. CASE ~(holder[inNet[u]] = u \/ InNet(inNet[u]) = {u})
    BY <1>2, <2>1, <2>3 DEF LeaveNet
  <2> QED
    BY <2>2, <2>3
<1>3. ASSUME NEW u \in Crew, Remount(u) PROVE SpeechTypeOK'
  BY <1>3 DEF Remount
<1>4. ASSUME NEW u \in Crew, MuteSpeaker(u) PROVE SpeechTypeOK'
  BY <1>4 DEF MuteSpeaker
<1>5. ASSUME NEW u \in Crew, CommandFrame(u) PROVE SpeechTypeOK'
  <2>1. holder' \in [Net -> Crew \cup {NoOne}]
    BY <1>5 DEF CommandFrame
  <2>2. timer' \in [Net -> {"none", "set", "due"}]
    BY <1>5 DEF CommandFrame
  <2>3. told' \in [Crew -> Crew \cup {NoOne}]
    BY <1>5 DEF CommandFrame
  <2> QED
    BY <1>5, <2>1, <2>2, <2>3 DEF CommandFrame
<1>6. ASSUME NEW u \in Crew, Hangover(u) PROVE SpeechTypeOK'
  BY <1>6 DEF Hangover
<1>7. ASSUME NEW n \in Net, SweepNet(n) PROVE SpeechTypeOK'
  BY <1>7 DEF SweepNet
<1>8. CASE UNCHANGED speechVars
  BY <1>8 DEF speechVars
<1> QED
  BY <1>1, <1>2, <1>3, <1>4, <1>5, <1>6, <1>7, <1>8 DEF SpeechNext

\* Who holds a room after a step in which it passed from one speaker to another.
Passes(n) == LET u == holder'[n] IN
  holder[n] # NoOne /\ u \notin {NoOne, holder[n]} => inNet[u] \in Ancestors(n)

LEMMA RoomsPassByCommand ==
  ASSUME SpeechTypeOK, [SpeechNext]_speechVars, NEW n \in Net
  PROVE  Passes(n)
<1>1. holder'[n] \in {NoOne, holder[n]} => Passes(n)
  BY DEF Passes
<1>2. ASSUME NEW u \in Crew, LeaveNet(u) PROVE holder'[n] \in {NoOne, holder[n]}
  BY <1>2 DEF LeaveNet, SpeechTypeOK
<1>3. ASSUME NEW u \in Crew, CommandFrame(u) PROVE Passes(n)
  <2>1. CASE n = inNet[u]
    <3>1. holder[n] \in {NoOne, u} /\ holder'[n] \in {u, holder[n]}
      BY <1>3, <2>1 DEF CommandFrame, MaySpeak
    <3> QED
      BY <3>1 DEF Passes
  <2>2. CASE n \in Descendants(inNet[u])
    <3>1. inNet[u] \in Ancestors(n)
      BY <2>2 DEF Descendants
    <3>2. holder'[n] \in {u, holder[n]}
      BY <1>3 DEF CommandFrame
    <3> QED
      BY <3>1, <3>2 DEF Passes
  <2>3. CASE n # inNet[u] /\ n \notin Descendants(inNet[u])
    BY <1>3, <2>3, <1>1 DEF CommandFrame
  <2> QED
    BY <2>1, <2>2, <2>3
<1>4. ASSUME NEW m \in Net, SweepNet(m) PROVE holder'[n] \in {NoOne, holder[n]}
  BY <1>4 DEF SweepNet, SpeechTypeOK
<1>5. ASSUME holder' = holder PROVE holder'[n] \in {NoOne, holder[n]}
  BY <1>5
<1>6. \/ \E u \in Crew : LeaveNet(u) \/ CommandFrame(u)
      \/ \E m \in Net : SweepNet(m)
      \/ holder' = holder
  BY DEF SpeechNext, speechVars, JoinNet, Remount, MuteSpeaker, Hangover
<1> QED
  BY <1>1, <1>2, <1>3, <1>4, <1>5, <1>6

\* Every reachable state of the rooms' speakers is well typed.
THEOREM SpeechTypeCorrect == SpeechSpec => []SpeechTypeOK
BY SpeechInitTyped, SpeechTyped, PTL DEF SpeechSpec

\* First past the post: for any crew and any tree of channels, a room passes from one speaker to
\* another without having been free only by command from above.
THEOREM FirstPastThePostAlways == SpeechSpec => FirstPastThePost
<1>1. SpeechTypeOK /\ [SpeechNext]_speechVars =>
      [\A n \in Net : LET u == holder'[n] IN
         holder[n] # NoOne /\ u \notin {NoOne, holder[n]} => inNet[u] \in Ancestors(n)]_speechVars
  BY RoomsPassByCommand DEF Passes
<1> QED
  BY <1>1, SpeechTypeCorrect, PTL DEF SpeechSpec, FirstPastThePost

-----------------------------------------------------------------------------
(* The receivers of a lane. A receiver's tables are read as sets of         *)
(* entries: a session is in one of them and once only, so whatever evicts,  *)
(* retires or reorders entries keeps a session's entry, moves its highest   *)
(* sequence to the retired ones, or forgets the session.                    *)

Entries(table) == {table[i] : i \in DOMAIN table}
Single(table) == \A i, j \in DOMAIN table : table[i].id = table[j].id => i = j

LEMMA EntriesAreOf ==
    ASSUME NEW S, NEW table \in Seq(S)
    PROVE  Entries(table) \subseteq S /\ DOMAIN table = 1..Len(table) /\ Len(table) \in Nat
<1>1. Len(table) \in Nat /\ DOMAIN table = 1..Len(table) /\ \A i \in 1..Len(table) : table[i] \in S
    BY LenProperties, ElementOfSeq
<1> QED
    BY <1>1 DEF Entries

\* What a table knows it finds, and only there.
LEMMA PlaceIs ==
    ASSUME NEW table, NEW id, Knows(table, id)
    PROVE  /\ Place(table, id) \in DOMAIN table /\ table[Place(table, id)].id = id
           /\ Of(table, id) \in Entries(table) /\ Of(table, id).id = id
           /\ Single(table) => \A e \in Entries(table) : e.id = id => e = Of(table, id)
<1>1. Place(table, id) \in DOMAIN table /\ table[Place(table, id)].id = id
    BY DEF Knows, Place
<1> QED
    BY <1>1 DEF Of, Entries, Single

LEMMA KnowsEntry ==
    ASSUME NEW table, NEW id
    PROVE  Knows(table, id) <=> \E e \in Entries(table) : e.id = id
BY DEF Knows, Entries

LEMMA WithoutDoes ==
    ASSUME NEW S, NEW table \in Seq(S), Single(table), NEW id, NEW rest, rest = Without(table, id)
    PROVE  /\ rest \in Seq(S) /\ Single(rest)
           /\ Entries(rest) = {e \in Entries(table) : e.id # id}
           /\ Len(rest) = IF Knows(table, id) THEN Len(table) - 1 ELSE Len(table)
<1>1. Len(table) \in Nat /\ DOMAIN table = 1..Len(table) /\ \A i \in 1..Len(table) : table[i] \in S
    BY LenProperties, ElementOfSeq
<1>2. CASE ~Knows(table, id)
    BY <1>2 DEF Without, Knows, Entries
<1>3. CASE Knows(table, id)
    <2> PICK k : k = Place(table, id)
        OBVIOUS
    <2> PICK n : n = Len(table) - 1
        OBVIOUS
    <2>1. k \in 1..Len(table) /\ table[k].id = id /\ k \in Nat /\ n \in Nat /\ Len(table) = n + 1
        BY <1>1, <1>3, PlaceIs
    <2>2. rest = [i \in 1..n |-> IF i < k THEN table[i] ELSE table[i + 1]]
        BY <1>3 DEF Without
    <2>3. \A i \in 1..n : i \in 1..Len(table) /\ i + 1 \in 1..Len(table)
        BY <2>1
    <2>4. \A i \in 1..n : rest[i] = IF i < k THEN table[i] ELSE table[i + 1]
        BY <2>2
    <2>5. rest \in Seq(S) /\ Len(rest) = n /\ DOMAIN rest = 1..n
        <3>1. \A i \in 1..n : rest[i] \in S
            BY <1>1, <2>3, <2>4
        <3>2. rest \in [1..n -> S]
            BY <2>2, <3>1
        <3> QED
            BY <2>1, <3>2, LenProperties
    <2>6. Single(rest)
        <3> SUFFICES ASSUME NEW i \in 1..n, NEW j \in 1..n, rest[i].id = rest[j].id
                     PROVE  i = j
            BY <2>5 DEF Single
        <3> PICK a \in 1..Len(table) : rest[i] = table[a] /\ a = IF i < k THEN i ELSE i + 1
            BY <2>3, <2>4
        <3> PICK b \in 1..Len(table) : rest[j] = table[b] /\ b = IF j < k THEN j ELSE j + 1
            BY <2>3, <2>4
        <3>1. a = b
            BY <1>1 DEF Single
        <3> QED
            BY <2>1, <3>1
    <2>7. ASSUME NEW e \in Entries(rest) PROVE e \in Entries(table) /\ e.id # id
        <3> PICK i \in 1..n : e = rest[i]
            BY <2>5 DEF Entries
        <3> PICK a \in 1..Len(table) : rest[i] = table[a] /\ a = IF i < k THEN i ELSE i + 1
            BY <2>3, <2>4
        <3>1. a # k
            BY <2>1
        <3> QED
            BY <1>1, <2>1, <3>1 DEF Entries, Single
    <2>8. ASSUME NEW e \in Entries(table), e.id # id PROVE e \in Entries(rest)
        <3> PICK a \in 1..Len(table) : e = table[a]
            BY <1>1 DEF Entries
        <3>1. a # k
            BY <2>1, <2>8
        <3>2. CASE a < k
            <4>1. a \in 1..n /\ rest[a] = table[a]
                BY <2>1, <2>4, <3>2
            <4> QED
                BY <2>5, <4>1 DEF Entries
        <3>3. CASE a > k
            <4>1. a - 1 \in 1..n /\ ~(a - 1 < k) /\ (a - 1) + 1 = a
                BY <2>1, <3>3
            <4>2. rest[a - 1] = table[a]
                BY <2>4, <4>1
            <4> QED
                BY <2>5, <4>1, <4>2 DEF Entries
        <3> QED
            BY <2>1, <3>1, <3>2, <3>3
    <2> QED
        BY <1>3, <2>5, <2>6, <2>7, <2>8
<1> QED
    BY <1>2, <1>3

LEMMA AppendDoes ==
    ASSUME NEW S, NEW table \in Seq(S), Single(table), NEW e \in S, ~Knows(table, e.id)
    PROVE  /\ Append(table, e) \in Seq(S) /\ Single(Append(table, e)) /\ Len(Append(table, e)) = Len(table) + 1
           /\ Entries(Append(table, e)) = Entries(table) \cup {e}
<1> PICK more : more = Append(table, e)
    OBVIOUS
<1>1. Len(table) \in Nat /\ DOMAIN table = 1..Len(table)
    BY LenProperties
<1>2. /\ more \in Seq(S) /\ Len(more) = Len(table) + 1 /\ more[Len(table) + 1] = e
      /\ \A i \in 1..Len(table) : more[i] = table[i]
    BY AppendProperties
<1>3. DOMAIN more = 1..(Len(table) + 1)
    BY <1>2, LenProperties
<1>4. Single(more)
    <2> SUFFICES ASSUME NEW i \in 1..(Len(table) + 1), NEW j \in 1..(Len(table) + 1), more[i].id = more[j].id
                 PROVE  i = j
        BY <1>3 DEF Single
    <2>1. i \in 1..Len(table) => more[i].id # e.id
        BY <1>1, <1>2 DEF Knows
    <2>2. j \in 1..Len(table) => more[j].id # e.id
        BY <1>1, <1>2 DEF Knows
    <2>3. CASE i \in 1..Len(table) /\ j \in 1..Len(table)
        BY <1>1, <1>2, <2>3 DEF Single
    <2> QED
        BY <1>1, <1>2, <2>1, <2>2, <2>3
<1>5. Entries(more) = Entries(table) \cup {e}
    <2>1. \A i \in 1..(Len(table) + 1) : i \in 1..Len(table) \/ i = Len(table) + 1
        BY <1>1
    <2>2. Len(table) + 1 \in 1..(Len(table) + 1) /\ \A i \in 1..Len(table) : i \in 1..(Len(table) + 1)
        BY <1>1
    <2> QED
        BY <1>1, <1>2, <1>3, <2>1, <2>2 DEF Entries
<1> QED
    BY <1>2, <1>4, <1>5

LEMMA TailDoes ==
    ASSUME NEW S, NEW table \in Seq(S), Single(table), table # <<>>, NEW rest, rest = Tail(table)
    PROVE  /\ rest \in Seq(S) /\ Single(rest) /\ Len(rest) = Len(table) - 1
           /\ Entries(rest) \subseteq Entries(table)
<1>1. Len(table) \in Nat /\ DOMAIN table = 1..Len(table)
    BY LenProperties
<1>2. /\ rest \in Seq(S) /\ Len(rest) = Len(table) - 1
      /\ \A i \in 1..Len(rest) : rest[i] = table[i + 1]
    BY HeadTailProperties
<1>3. DOMAIN rest = 1..Len(rest) /\ \A i \in DOMAIN rest : i + 1 \in DOMAIN table /\ i \in Nat
    BY <1>1, <1>2, LenProperties
<1> QED
    BY <1>2, <1>3 DEF Single, Entries

\* The first place of a set of places.
LEMMA FirstOf ==
    ASSUME NEW T, T \subseteq Nat, T # {}
    PROVE  \E x \in T : \A y \in T : ~(y < x)
<1>1. \E x \in T : \A y \in T : ~(<<y, x>> \in OpToRel(<, Nat))
    BY NatLessThanWellFounded, WFMin
<1>2. \A x, y \in T : y < x => <<y, x>> \in OpToRel(<, Nat)
    BY DEF OpToRel
<1> QED
    BY <1>1, <1>2

\* A session as the retired ones keep it.
Mark(e) == [id |-> e.id, highest |-> e.window.highest]
Marks(rx) == {Mark(e) : e \in Entries(rx.sessions)} \cup Entries(rx.retired)

LEMMA MarkIs ==
    ASSUME NEW e \in Tracked
    PROVE  Mark(e) \in Retired /\ Mark(e).id = e.id /\ Mark(e).highest = e.window.highest
BY DEF Tracked, Window, Retired, Mark

LEMMA VictimIs ==
    ASSUME NEW table \in Seq(Tracked), NEW ssrcs,
           \E i \in DOMAIN table : secret[table[i].id].ssrc \in ssrcs
    PROVE  Victim(table, ssrcs) \in Entries(table)
<1> DEFINE T == {i \in DOMAIN table : secret[table[i].id].ssrc \in ssrcs}
<1>1. Len(table) \in Nat /\ DOMAIN table = 1..Len(table)
    BY LenProperties
<1>2. T \subseteq Nat /\ T # {}
    BY <1>1
<1> HIDE DEF T
<1> PICK x \in T : \A y \in T : ~(y < x)
    BY <1>2, FirstOf
<1>3. x \in 1..Len(table) /\ secret[table[x].id].ssrc \in ssrcs
    BY <1>1 DEF T
<1>4. \A j \in 1..(x - 1) : j \in 1..Len(table) /\ j < x
    BY <1>1, <1>3
<1>5. \A j \in 1..(x - 1) : secret[table[j].id].ssrc \notin ssrcs
    BY <1>1, <1>4 DEF T
<1>6. \E i \in DOMAIN table : /\ secret[table[i].id].ssrc \in ssrcs
                              /\ \A j \in 1..(i - 1) : secret[table[j].id].ssrc \notin ssrcs
    BY <1>1, <1>3, <1>5
<1> QED
    BY <1>6 DEF Victim, Entries

LEMMA RetireDoes ==
    ASSUME NEW marks \in Seq(Retired), Single(marks), NEW victim \in Tracked, ~Knows(marks, victim.id),
           Len(marks) <= MaxRetired, NEW after, after = Retire(marks, victim)
    PROVE  /\ after \in Seq(Retired) /\ Single(after) /\ Len(after) <= MaxRetired
           /\ Entries(after) \subseteq Entries(marks) \cup {Mark(victim)}
<1> PICK more : more = Append(marks, Mark(victim))
    OBVIOUS
<1>1. /\ more \in Seq(Retired) /\ Single(more) /\ Len(more) = Len(marks) + 1
      /\ Entries(more) = Entries(marks) \cup {Mark(victim)}
    <2> PICK m : m = Mark(victim)
        OBVIOUS
    <2>1. m \in Retired /\ m.id = victim.id
        BY MarkIs
    <2>2. ~Knows(marks, m.id)
        BY <2>1
    <2>3. more = Append(marks, m)
        OBVIOUS
    <2>4. /\ more \in Seq(Retired) /\ Single(more) /\ Len(more) = Len(marks) + 1
          /\ Entries(more) = Entries(marks) \cup {m}
        BY <2>1, <2>2, <2>3, AppendDoes
    <2> QED
        BY <2>4
<1>2. Len(marks) \in Nat /\ MaxRetired \in Nat
    BY LenProperties, RelayBounds
<1>3. after = IF Len(more) > MaxRetired THEN Tail(more) ELSE more
    BY DEF Retire, Mark
<1>4. CASE Len(more) > MaxRetired
    <2>1. more # <<>>
        BY <1>1, <1>2, EmptySeq
    <2>2. /\ after \in Seq(Retired) /\ Single(after) /\ Len(after) = Len(more) - 1
          /\ Entries(after) \subseteq Entries(more)
        BY <1>1, <1>3, <1>4, <2>1, TailDoes
    <2> QED
        BY <1>1, <1>2, <2>2
<1>5. CASE ~(Len(more) > MaxRetired)
    BY <1>1, <1>2, <1>3, <1>5
<1> QED
    BY <1>4, <1>5

\* A receiver's tables hold a session once.
Tables(rx) ==
    /\ rx \in Receiver
    /\ Single(rx.sessions) /\ Single(rx.retired)
    /\ \A e \in Entries(rx.sessions), m \in Entries(rx.retired) : e.id # m.id
    /\ Len(rx.retired) <= MaxRetired

\* What making room does to the tables: sessions go, or are retired.
Crowds(rx, after) ==
    /\ after.epoch = rx.epoch
    /\ Entries(after.sessions) \subseteq Entries(rx.sessions)
    /\ Entries(after.retired) \subseteq Marks(rx)

LEMMA ReceiverHas ==
    ASSUME NEW rx \in Receiver
    PROVE  /\ rx.sessions \in Seq(Tracked) /\ rx.retired \in Seq(Retired) /\ rx.epoch \in 0..MaxEpoch
           /\ Entries(rx.sessions) \subseteq Tracked /\ Entries(rx.retired) \subseteq Retired
           /\ Len(rx.sessions) \in Nat /\ Len(rx.retired) \in Nat /\ DOMAIN rx.sessions = 1..Len(rx.sessions)
<1>1. rx.sessions \in Seq(Tracked) /\ rx.retired \in Seq(Retired) /\ rx.epoch \in 0..MaxEpoch
    BY DEF Receiver
<1> QED
    BY <1>1, EntriesAreOf

LEMMA EvictDoes ==
    ASSUME NEW rx, Tables(rx), NEW ssrcs,
           \E i \in DOMAIN rx.sessions : secret[rx.sessions[i].id].ssrc \in ssrcs,
           NEW after, after = Evict(rx, ssrcs)
    PROVE  Tables(after) /\ Crowds(rx, after) /\ Len(after.sessions) = Len(rx.sessions) - 1
<1>1. /\ rx \in Receiver /\ rx.sessions \in Seq(Tracked) /\ rx.retired \in Seq(Retired)
      /\ Entries(rx.sessions) \subseteq Tracked /\ Entries(rx.retired) \subseteq Retired
    BY ReceiverHas DEF Tables
<1> PICK victim : victim = Victim(rx.sessions, ssrcs)
    OBVIOUS
<1>2. victim \in Entries(rx.sessions) /\ victim \in Tracked
    BY <1>1, VictimIs
<1> PICK left : left = Without(rx.sessions, victim.id)
    OBVIOUS
<1> PICK marks : marks = Retire(rx.retired, victim)
    OBVIOUS
<1>3. after = [rx EXCEPT !.sessions = left, !.retired = marks]
    BY DEF Evict
<1>4. Knows(rx.sessions, victim.id) /\ ~Knows(rx.retired, victim.id)
    BY <1>2, KnowsEntry DEF Tables
<1>5. /\ left \in Seq(Tracked) /\ Single(left) /\ Len(left) = Len(rx.sessions) - 1
      /\ Entries(left) = {e \in Entries(rx.sessions) : e.id # victim.id}
    BY <1>1, <1>4, WithoutDoes DEF Tables
<1>6. /\ marks \in Seq(Retired) /\ Single(marks) /\ Len(marks) <= MaxRetired
      /\ Entries(marks) \subseteq Entries(rx.retired) \cup {Mark(victim)}
    BY <1>1, <1>2, <1>4, RetireDoes DEF Tables
<1>7. after \in Receiver /\ after.sessions = left /\ after.retired = marks /\ after.epoch = rx.epoch
    BY <1>1, <1>3, <1>5, <1>6 DEF Receiver
<1>8. \A e \in Entries(left), m \in Entries(marks) : e.id # m.id
    BY <1>2, <1>5, <1>6, MarkIs DEF Tables
<1>9. Crowds(rx, after)
    BY <1>2, <1>5, <1>6, <1>7 DEF Crowds, Marks
<1> QED
    BY <1>5, <1>6, <1>7, <1>8, <1>9 DEF Tables

LEMMA CrowdsTwice ==
    ASSUME NEW rx, NEW mid, NEW after, Crowds(rx, mid), Crowds(mid, after)
    PROVE  Crowds(rx, after)
BY DEF Crowds, Marks

LEMMA MakeRoomDoes ==
    ASSUME NEW rx, Tables(rx), Len(rx.sessions) <= PerReceiver, NEW ssrc,
           \A e \in Entries(rx.sessions) : secret[e.id].ssrc \in Ssrc,
           NEW after, after = MakeRoom(rx, ssrc)
    PROVE  Tables(after) /\ Crowds(rx, after) /\ Len(after.sessions) < PerReceiver
<1> DEFINE own == {i \in DOMAIN rx.sessions : secret[rx.sessions[i].id].ssrc = ssrc}
<1> PICK first : first = IF Cardinality(own) >= PerSsrc THEN Evict(rx, {ssrc}) ELSE rx
    OBVIOUS
<1>1. after = IF Len(first.sessions) >= PerReceiver THEN Evict(first, Ssrc) ELSE first
    BY DEF MakeRoom
<1>2. Crowds(rx, rx) /\ Len(rx.sessions) \in Nat /\ PerReceiver \in Nat /\ PerReceiver > 0
    BY ReceiverHas, RelayBounds DEF Crowds, Marks, Tables
<1>3. Tables(first) /\ Crowds(rx, first) /\ Len(first.sessions) <= PerReceiver /\ Len(first.sessions) \in Nat
    <2>1. CASE Cardinality(own) >= PerSsrc
        <3>1. own # {}
            <4>1. Cardinality({}) = 0 /\ PerSsrc \in Nat /\ PerSsrc > 0
                BY FS_EmptySet, RelayBounds
            <4>2. ~(0 >= PerSsrc)
                BY <4>1
            <4> QED
                BY <2>1, <4>1, <4>2
        <3>2. \E i \in DOMAIN rx.sessions : secret[rx.sessions[i].id].ssrc \in {ssrc}
            BY <3>1
        <3>3. first = Evict(rx, {ssrc})
            BY <2>1
        <3> HIDE DEF own
        <3>4. Tables(first) /\ Crowds(rx, first) /\ Len(first.sessions) = Len(rx.sessions) - 1
            BY <3>2, <3>3, EvictDoes
        <3>5. Len(first.sessions) \in Nat
            BY <3>4, ReceiverHas DEF Tables
        <3> QED
            BY <1>2, <3>4, <3>5
    <2>2. CASE ~(Cardinality(own) >= PerSsrc)
        BY <1>2, <2>2
    <2> QED
        BY <2>1, <2>2
<1>4. CASE Len(first.sessions) >= PerReceiver
    <2>1. first.sessions[1] \in Entries(first.sessions) /\ 1 \in DOMAIN first.sessions
        <3>1. DOMAIN first.sessions = 1..Len(first.sessions)
            BY <1>3, ReceiverHas DEF Tables
        <3>2. 1 \in 1..Len(first.sessions)
            BY <1>2, <1>3, <1>4
        <3> QED
            BY <3>1, <3>2 DEF Entries
    <2>2. \E i \in DOMAIN first.sessions : secret[first.sessions[i].id].ssrc \in Ssrc
        BY <1>3, <2>1 DEF Crowds
    <2>3. Tables(after) /\ Crowds(first, after) /\ Len(after.sessions) = Len(first.sessions) - 1
        BY <1>1, <1>3, <1>4, <2>2, EvictDoes
    <2> QED
        BY <1>2, <1>3, <2>3, CrowdsTwice
<1>5. CASE ~(Len(first.sessions) >= PerReceiver)
    <2>1. after = first
        BY <1>1, <1>5
    <2>2. Len(first.sessions) < PerReceiver
        BY <1>2, <1>3, <1>5
    <2> QED
        BY <1>3, <2>1, <2>2
<1> QED
    BY <1>4, <1>5

-----------------------------------------------------------------------------
(* The replay window.                                                       *)

LEMMA AcceptDoes ==
    ASSUME NEW w \in Window, NEW seq \in 0..LastSeq, Unseen(w, seq), NEW new, new = Accept(w, seq)
    PROVE  /\ new \in Window /\ ~Unseen(new, seq) /\ new.highest \in {w.highest, seq}
           /\ seq > w.highest => new.highest = seq
           /\ \A old \in 0..LastSeq : ~Unseen(w, old) => ~Unseen(new, old)
<1>1. /\ w.highest \in 0..LastSeq /\ w.seen \subseteq 0..ReplayWindow - 1 /\ w.highest \in Nat
      /\ seq \in Nat /\ LastSeq \in Nat /\ ReplayWindow \in Nat /\ ReplayWindow > 0
    BY RelayBounds DEF Window
<1>2. CASE seq > w.highest
    <2> PICK shift : shift = seq - w.highest
        OBVIOUS
    <2> PICK seen : seen = {0} \cup {b \in 0..ReplayWindow - 1 : b >= shift /\ b - shift \in w.seen}
        OBVIOUS
    <2>1. new = [highest |-> seq, seen |-> seen]
        BY <1>2 DEF Accept
    <2>2. seen \subseteq 0..ReplayWindow - 1
        BY <1>1
    <2>3. new \in Window /\ new.highest = seq /\ new.seen = seen
        BY <2>1, <2>2 DEF Window
    <2>4. ~Unseen(new, seq)
        BY <1>1, <2>3 DEF Unseen
    <2>5. ASSUME NEW old \in 0..LastSeq, ~Unseen(w, old) PROVE ~Unseen(new, old)
        <3>1. /\ old \in Nat /\ old <= w.highest /\ shift \in Nat
              /\ ~(w.highest - old < ReplayWindow /\ w.highest - old \notin w.seen)
            BY <1>1, <1>2, <2>5 DEF Unseen
        <3>2. old <= seq /\ seq - old = (w.highest - old) + shift
            BY <1>1, <1>2, <3>1
        <3>3. CASE w.highest - old \in w.seen
            <4>1. seq - old < ReplayWindow => seq - old \in seen
                BY <1>1, <3>1, <3>2, <3>3
            <4> QED
                BY <2>3, <3>2, <4>1 DEF Unseen
        <3>4. CASE ~(w.highest - old < ReplayWindow)
            <4>1. ~(seq - old < ReplayWindow)
                BY <1>1, <3>1, <3>2, <3>4
            <4> QED
                BY <2>3, <3>2, <4>1 DEF Unseen
        <3> QED
            BY <3>1, <3>3, <3>4
    <2> QED
        BY <2>3, <2>4, <2>5
<1>3. CASE ~(seq > w.highest)
    <2>1. seq <= w.highest /\ w.highest - seq < ReplayWindow /\ w.highest - seq \in 0..ReplayWindow - 1
        BY <1>1, <1>3 DEF Unseen
    <2>2. new = [w EXCEPT !.seen = w.seen \cup {w.highest - seq}]
        BY <1>3 DEF Accept
    <2>3. new \in Window /\ new.highest = w.highest /\ new.seen = w.seen \cup {w.highest - seq}
        BY <1>1, <2>1, <2>2 DEF Window
    <2>4. ~Unseen(new, seq)
        BY <2>1, <2>3 DEF Unseen
    <2>5. \A old \in 0..LastSeq : ~Unseen(w, old) => ~Unseen(new, old)
        BY <2>3 DEF Unseen
    <2> QED
        BY <1>3, <2>3, <2>4, <2>5
<1> QED
    BY <1>2, <1>3

LEMMA WindowStarts ==
    ASSUME NEW seq \in 0..LastSeq
    PROVE  /\ Fresh(seq) \in Window /\ Fresh(seq).highest = seq /\ Unseen(Fresh(seq), seq)
           /\ Resumed(seq) \in Window /\ Resumed(seq).highest = seq
           /\ \A other \in 0..LastSeq : Unseen(Resumed(seq), other) <=> other > seq
<1>1. seq \in Nat /\ ReplayWindow \in Nat /\ ReplayWindow > 0 /\ LastSeq \in Nat
    BY RelayBounds
<1>2. Fresh(seq) \in Window /\ Fresh(seq).highest = seq /\ Fresh(seq).seen = {}
    BY DEF Fresh, Window
<1>3. Unseen(Fresh(seq), seq)
    BY <1>1, <1>2 DEF Unseen
<1>4. Resumed(seq) \in Window /\ Resumed(seq).highest = seq /\ Resumed(seq).seen = 0..ReplayWindow - 1
    BY DEF Resumed, Window
<1>5. ASSUME NEW other \in 0..LastSeq PROVE Unseen(Resumed(seq), other) <=> other > seq
    <2>1. other \in Nat
        BY <1>1
    <2>2. CASE other > seq
        BY <1>1, <1>4, <2>1, <2>2 DEF Unseen
    <2>3. CASE other <= seq
        <3>1. seq - other < ReplayWindow => seq - other \in 0..ReplayWindow - 1
            BY <1>1, <2>1, <2>3
        <3> QED
            BY <1>1, <1>4, <2>1, <2>3, <3>1 DEF Unseen
    <2> QED
        BY <1>1, <2>1, <2>2, <2>3
<1> QED
    BY <1>2, <1>3, <1>4, <1>5

\* A frame is one that its receiver has played, or takes for one.
Covered(rx, f) ==
    \/ \E e \in Entries(rx.sessions) : e.id = f.session /\ ~Unseen(e.window, f.seq)
    \/ \E m \in Entries(rx.retired) : m.id = f.session /\ f.seq <= m.highest

\* The window a frame is checked against is the session's, its mark's or a fresh one.
LEMMA WindowForIs ==
    ASSUME NEW rx, Tables(rx), NEW f \in Frame, NEW w, w = WindowFor(rx, f)
    PROVE  /\ w \in Window
           /\ \/ \E e \in Entries(rx.sessions) : e.id = f.session /\ w = e.window
              \/ \E m \in Entries(rx.retired) : m.id = f.session /\ w = Resumed(m.highest)
              \/ /\ w = Fresh(f.seq)
                 /\ \A e \in Entries(rx.sessions) \cup Entries(rx.retired) : e.id # f.session
           /\ \A e \in Entries(rx.sessions) : e.id = f.session => w = e.window
           /\ \A m \in Entries(rx.retired) : m.id = f.session => w = Resumed(m.highest)
<1>1. Entries(rx.sessions) \subseteq Tracked /\ Entries(rx.retired) \subseteq Retired /\ f.seq \in 0..LastSeq
    BY ReceiverHas DEF Tables, Frame
<1>2. CASE Knows(rx.sessions, f.session)
    <2> PICK e : e = Of(rx.sessions, f.session)
        OBVIOUS
    <2>1. e \in Entries(rx.sessions) /\ e.id = f.session /\ w = e.window
          /\ \A d \in Entries(rx.sessions) : d.id = f.session => d = e
        BY <1>2, PlaceIs DEF WindowFor, Tables
    <2> QED
        BY <1>1, <2>1 DEF Tables, Tracked
<1>3. CASE ~Knows(rx.sessions, f.session) /\ Knows(rx.retired, f.session)
    <2> PICK m : m = Of(rx.retired, f.session)
        OBVIOUS
    <2>1. m \in Entries(rx.retired) /\ m.id = f.session /\ w = Resumed(m.highest)
          /\ \A d \in Entries(rx.retired) : d.id = f.session => d = m
        BY <1>3, PlaceIs DEF WindowFor, Tables
    <2>2. m.highest \in 0..LastSeq
        BY <1>1, <2>1 DEF Retired
    <2> QED
        BY <1>3, <2>1, <2>2, WindowStarts, KnowsEntry
<1>4. CASE ~Knows(rx.sessions, f.session) /\ ~Knows(rx.retired, f.session)
    BY <1>1, <1>4, WindowStarts, KnowsEntry DEF WindowFor
<1> QED
    BY <1>2, <1>3, <1>4

\* What a receiver covers it does not open again.
LEMMA CoveredIsSeen ==
    ASSUME NEW rx, Tables(rx), NEW f \in Frame, NEW g \in Frame, g.session = f.session, Covered(rx, g)
    PROVE  ~Unseen(WindowFor(rx, f), g.seq)
<1> PICK w : w = WindowFor(rx, f)
    OBVIOUS
<1>1. g.seq \in 0..LastSeq /\ Entries(rx.retired) \subseteq Retired
    BY ReceiverHas DEF Tables, Frame
<1>2. CASE \E e \in Entries(rx.sessions) : e.id = g.session /\ ~Unseen(e.window, g.seq)
    BY <1>2, WindowForIs
<1>3. CASE \E m \in Entries(rx.retired) : m.id = g.session /\ g.seq <= m.highest
    <2> PICK m \in Entries(rx.retired) : m.id = g.session /\ g.seq <= m.highest
        BY <1>3
    <2>1. w = Resumed(m.highest)
        BY WindowForIs
    <2>2. m.highest \in 0..LastSeq /\ ~(g.seq > m.highest)
        BY <1>1, RelayBounds DEF Retired
    <2> QED
        BY <1>1, <2>1, <2>2, WindowStarts
<1> QED
    BY <1>2, <1>3 DEF Covered

-----------------------------------------------------------------------------
(* An accepted frame.                                                       *)

\* A session's number, its epoch and its sender.
Made == secret \in Seq([epoch: 1..MaxEpoch, ssrc: Ssrc])
OwnSecret(rx) == \A m \in Marks(rx) : m.id \in 1..Len(secret) /\ secret[m.id].epoch = rx.epoch

LEMMA MarkOf ==
    ASSUME NEW rx, NEW e \in Entries(rx.sessions)
    PROVE  Mark(e) \in Marks(rx)
BY DEF Marks

LEMMA SecretIs ==
    ASSUME Made, NEW id \in 1..Len(secret)
    PROVE  secret[id].epoch \in 1..MaxEpoch /\ secret[id].ssrc \in Ssrc
<1>1. secret[id] \in [epoch: 1..MaxEpoch, ssrc: Ssrc]
    BY ElementOfSeq DEF Made
<1> QED
    BY <1>1

\* A receiver's session is one that was made, from the receiver's secret.
LEMMA SessionIsMade ==
    ASSUME Made, NEW rx, Tables(rx), OwnSecret(rx), NEW e \in Entries(rx.sessions)
    PROVE  e.id \in 1..Len(secret) /\ secret[e.id].epoch = rx.epoch /\ secret[e.id].ssrc \in Ssrc
<1>1. Mark(e) \in Marks(rx) /\ Mark(e).id = e.id
    BY MarkOf, MarkIs, ReceiverHas DEF Tables
<1>2. e.id \in 1..Len(secret) /\ secret[e.id].epoch = rx.epoch
    BY <1>1 DEF OwnSecret
<1> QED
    BY <1>2, SecretIs

\* What is left of the tables once the frame's session is taken out and has room.
LEMMA BaseDoes ==
    ASSUME Made, NEW rx, Tables(rx), Len(rx.sessions) <= PerReceiver, OwnSecret(rx), NEW f \in Frame, NEW base,
           base = IF Knows(rx.sessions, f.session) THEN [rx EXCEPT !.sessions = Without(@, f.session)]
                  ELSE MakeRoom([rx EXCEPT !.retired = Without(@, f.session)], secret[f.session].ssrc)
    PROVE  /\ Tables(base) /\ Crowds(rx, base) /\ Len(base.sessions) < PerReceiver
           /\ \A e \in Entries(base.sessions) \cup Entries(base.retired) : e.id # f.session
<1>1. /\ rx \in Receiver /\ rx.sessions \in Seq(Tracked) /\ rx.retired \in Seq(Retired)
      /\ Len(rx.sessions) \in Nat /\ Len(rx.retired) \in Nat /\ PerReceiver \in Nat
    BY ReceiverHas, RelayBounds DEF Tables
<1>2. CASE Knows(rx.sessions, f.session)
    <2> PICK left : left = Without(rx.sessions, f.session)
        OBVIOUS
    <2>1. /\ left \in Seq(Tracked) /\ Single(left) /\ Len(left) = Len(rx.sessions) - 1
          /\ Entries(left) = {e \in Entries(rx.sessions) : e.id # f.session}
        BY <1>1, <1>2, WithoutDoes DEF Tables
    <2>2. base = [rx EXCEPT !.sessions = left]
        BY <1>2
    <2>3. base \in Receiver /\ base.sessions = left /\ base.retired = rx.retired /\ base.epoch = rx.epoch
        BY <1>1, <2>1, <2>2 DEF Receiver
    <2>4. Tables(base)
        BY <2>1, <2>3 DEF Tables
    <2>5. Crowds(rx, base)
        BY <2>1, <2>3 DEF Crowds, Marks
    <2>6. \A m \in Entries(rx.retired) : m.id # f.session
        BY <1>2, KnowsEntry DEF Tables
    <2>7. Len(base.sessions) < PerReceiver
        BY <1>1, <2>1, <2>3
    <2>8. \A e \in Entries(base.sessions) \cup Entries(base.retired) : e.id # f.session
        BY <2>1, <2>3, <2>6
    <2> QED
        BY <2>4, <2>5, <2>7, <2>8
<1>3. CASE ~Knows(rx.sessions, f.session)
    <2> PICK left : left = Without(rx.retired, f.session)
        OBVIOUS
    <2> PICK mid : mid = [rx EXCEPT !.retired = left]
        OBVIOUS
    <2>1. /\ left \in Seq(Retired) /\ Single(left) /\ Len(left) <= Len(rx.retired) /\ Len(left) \in Nat
          /\ Entries(left) = {e \in Entries(rx.retired) : e.id # f.session}
        <3>1. /\ left \in Seq(Retired) /\ Single(left)
              /\ Len(left) = IF Knows(rx.retired, f.session) THEN Len(rx.retired) - 1 ELSE Len(rx.retired)
              /\ Entries(left) = {e \in Entries(rx.retired) : e.id # f.session}
            BY <1>1, WithoutDoes DEF Tables
        <3>2. Len(left) \in Nat
            BY <3>1, LenProperties
        <3> QED
            BY <1>1, <3>1, <3>2
    <2>2. mid \in Receiver /\ mid.sessions = rx.sessions /\ mid.retired = left /\ mid.epoch = rx.epoch
        BY <1>1, <2>1 DEF Receiver
    <2>3. Tables(mid) /\ Crowds(rx, mid)
        <3>1. Len(left) <= MaxRetired
            BY <1>1, <2>1, RelayBounds DEF Tables
        <3> QED
            BY <2>1, <2>2, <3>1 DEF Tables, Crowds, Marks
    <2>4. \A e \in Entries(mid.sessions) : secret[e.id].ssrc \in Ssrc
        BY <2>2, SessionIsMade
    <2>5. base = MakeRoom(mid, secret[f.session].ssrc)
        BY <1>3
    <2>6. Tables(base) /\ Crowds(mid, base) /\ Len(base.sessions) < PerReceiver
        BY <2>2, <2>3, <2>4, <2>5, MakeRoomDoes
    <2>7. \A e \in Entries(mid.sessions) : e.id # f.session
        BY <1>3, <2>2, KnowsEntry
    <2>8. \A m \in Marks(mid) : m.id # f.session
        <3>1. Entries(mid.sessions) \subseteq Tracked
            BY <2>2, ReceiverHas
        <3> QED
            BY <2>1, <2>2, <2>7, <3>1, MarkIs DEF Marks
    <2> QED
        <3>1. Crowds(rx, base)
            BY <2>3, <2>6, CrowdsTwice
        <3>2. Entries(base.sessions) \subseteq Entries(mid.sessions) /\ Entries(base.retired) \subseteq Marks(mid)
            BY <2>6 DEF Crowds
        <3> QED
            BY <2>6, <2>7, <2>8, <3>1, <3>2
<1> QED
    BY <1>2, <1>3

\* The tables with the frame's session at their end.
LEMMA OpenedDoes ==
    ASSUME Made, NEW rx, Tables(rx), Len(rx.sessions) <= PerReceiver, OwnSecret(rx), NEW f \in Frame,
           Unseen(WindowFor(rx, f), f.seq), NEW after, after = Opened(rx, f)
    PROVE  /\ Tables(after) /\ Len(after.sessions) <= PerReceiver /\ after.epoch = rx.epoch
           /\ \E new \in Entries(after.sessions) :
                 /\ new.id = f.session /\ new.window = Accept(WindowFor(rx, f), f.seq)
                 /\ \A e \in Entries(after.sessions) : e = new \/ (e \in Entries(rx.sessions) /\ e.id # f.session)
           /\ \A m \in Entries(after.retired) : m \in Marks(rx) /\ m.id # f.session
<1> PICK base : base = IF Knows(rx.sessions, f.session) THEN [rx EXCEPT !.sessions = Without(@, f.session)]
                       ELSE MakeRoom([rx EXCEPT !.retired = Without(@, f.session)], secret[f.session].ssrc)
    OBVIOUS
<1> PICK w : w = Accept(WindowFor(rx, f), f.seq)
    OBVIOUS
<1> PICK new : new = [id |-> f.session, window |-> w]
    OBVIOUS
<1>1. after = [base EXCEPT !.sessions = Append(@, new)]
    BY DEF Opened
<1>2. /\ Tables(base) /\ Crowds(rx, base) /\ Len(base.sessions) < PerReceiver
      /\ \A e \in Entries(base.sessions) \cup Entries(base.retired) : e.id # f.session
    BY BaseDoes
<1>3. w \in Window
    <2>1. WindowFor(rx, f) \in Window /\ f.seq \in 0..LastSeq
        BY WindowForIs DEF Frame
    <2> QED
        BY <2>1, AcceptDoes
<1>4. new \in Tracked /\ new.id = f.session /\ new.window = w
    BY <1>3 DEF Tracked, Frame
<1> PICK more : more = Append(base.sessions, new)
    OBVIOUS
<1>5. base \in Receiver /\ base.sessions \in Seq(Tracked) /\ Len(base.sessions) \in Nat /\ PerReceiver \in Nat
    BY <1>2, ReceiverHas, RelayBounds DEF Tables
<1>6. ~Knows(base.sessions, new.id)
    BY <1>2, <1>4, KnowsEntry
<1>7. /\ more \in Seq(Tracked) /\ Single(more) /\ Len(more) = Len(base.sessions) + 1
      /\ Entries(more) = Entries(base.sessions) \cup {new}
    <2>1. Single(base.sessions)
        BY <1>2 DEF Tables
    <2> PICK t : t = base.sessions
        OBVIOUS
    <2>2. t \in Seq(Tracked) /\ Single(t) /\ new \in Tracked /\ ~Knows(t, new.id)
        BY <1>4, <1>5, <1>6, <2>1
    <2>3. /\ Append(t, new) \in Seq(Tracked) /\ Single(Append(t, new)) /\ Len(Append(t, new)) = Len(t) + 1
          /\ Entries(Append(t, new)) = Entries(t) \cup {new}
        BY ONLY <2>2, AppendDoes
    <2>4. more = Append(t, new)
        OBVIOUS
    <2> QED
        BY <2>3, <2>4
<1>8. after \in Receiver /\ after.sessions = more /\ after.retired = base.retired /\ after.epoch = base.epoch
    BY <1>1, <1>5, <1>7 DEF Receiver
<1>9. Tables(after)
    <2>1. Single(base.retired) /\ Len(base.retired) <= MaxRetired
          /\ \A e \in Entries(base.sessions), m \in Entries(base.retired) : e.id # m.id
        BY <1>2 DEF Tables
    <2>2. Single(after.sessions) /\ Single(after.retired) /\ Len(after.retired) <= MaxRetired
        BY <1>7, <1>8, <2>1
    <2>3. ASSUME NEW e \in Entries(after.sessions), NEW m \in Entries(after.retired) PROVE e.id # m.id
        <3>1. m \in Entries(base.retired) /\ (e \in Entries(base.sessions) \/ e = new)
            BY <1>7, <1>8
        <3> QED
            BY <1>2, <1>4, <2>1, <3>1
    <2> QED
        BY <1>8, <2>2, <2>3 DEF Tables
<1>10. Len(after.sessions) <= PerReceiver
    <2>1. Len(more) = Len(base.sessions) + 1
        BY <1>7
    <2>2. after.sessions = more
        BY <1>8
    <2> QED
        BY ONLY <1>2, <1>5, <2>1, <2>2
<1>11. after.epoch = rx.epoch
    BY <1>2, <1>8 DEF Crowds
<1>12. new \in Entries(after.sessions)
    BY <1>7, <1>8
<1>13. \A e \in Entries(after.sessions) : e = new \/ (e \in Entries(rx.sessions) /\ e.id # f.session)
    BY <1>2, <1>7, <1>8 DEF Crowds
<1>14. \A m \in Entries(after.retired) : m \in Marks(rx) /\ m.id # f.session
    BY <1>2, <1>8 DEF Crowds
<1> QED
    BY <1>4, <1>9, <1>10, <1>11, <1>12, <1>13, <1>14

\* A receiver knows sessions of its own secret; it covers every frame it played, and the highest
\* sequence of a session it knows is that of a frame that played.
Sound(rx, made, heard) ==
    /\ Tables(rx) /\ Len(rx.sessions) <= PerReceiver
    /\ \A m \in Marks(rx) : m.id \in 1..Len(made) /\ made[m.id].epoch = rx.epoch
    /\ \A f \in heard : made[f.session].epoch = rx.epoch => Covered(rx, f)
    /\ \A m \in Marks(rx) : \E f \in heard : f.session = m.id /\ f.seq = m.highest

LEMMA RemembersMark ==
    ASSUME NEW rx, Tables(rx), NEW id
    PROVE  Remembers(rx, id) <=> \E m \in Marks(rx) : m.id = id
<1>1. Entries(rx.sessions) \subseteq Tracked
    BY ReceiverHas DEF Tables
<1>2. Knows(rx.sessions, id) <=> \E m \in {Mark(e) : e \in Entries(rx.sessions)} : m.id = id
    <2>1. \A e \in Entries(rx.sessions) : Mark(e).id = e.id
        BY <1>1, MarkIs
    <2> QED
        BY <2>1, KnowsEntry
<1>3. Knows(rx.retired, id) <=> \E m \in Entries(rx.retired) : m.id = id
    BY KnowsEntry
<1> QED
    BY <1>2, <1>3 DEF Remembers, Marks

\* A receiver that is left alone.
LEMMA SoundStays ==
    ASSUME NEW rx, NEW made, NEW heard, NEW made2, NEW heard2, Sound(rx, made, heard),
           Len(made) \in Nat, Len(made2) \in Nat, Len(made) <= Len(made2),
           \A id \in 1..Len(made) : made2[id] = made[id],
           \A f \in heard2 : (f \in heard /\ f.session \in 1..Len(made)) \/ made2[f.session].epoch # rx.epoch,
           \A f \in heard : f \in heard2 \/ made[f.session].epoch # rx.epoch
    PROVE  Sound(rx, made2, heard2)
<1>1. \A m \in Marks(rx) : m.id \in 1..Len(made2) /\ made2[m.id].epoch = rx.epoch
    BY DEF Sound
<1>2. \A f \in heard2 : made2[f.session].epoch = rx.epoch => Covered(rx, f)
    BY DEF Sound
<1>3. \A m \in Marks(rx) : \E f \in heard2 : f.session = m.id /\ f.seq = m.highest
    BY DEF Sound
<1> QED
    BY <1>1, <1>2, <1>3 DEF Sound

LEMMA SoundNew ==
    ASSUME NEW e \in 0..MaxEpoch, NEW made, NEW heard, \A f \in heard : made[f.session].epoch # e
    PROVE  Sound(NewReceiver(e), made, heard) /\ NewReceiver(e).epoch = e
<1> PICK rx : rx = NewReceiver(e)
    OBVIOUS
<1>1. rx.epoch = e /\ rx.sessions = <<>> /\ rx.retired = <<>>
    BY DEF NewReceiver
<1>2. <<>> \in Seq(Tracked) /\ <<>> \in Seq(Retired) /\ Len(<<>>) = 0
    BY EmptySeq
<1>3. Entries(<<>>) = {}
    BY DEF Entries
<1>4. rx \in Receiver
    BY <1>2 DEF NewReceiver, Receiver
<1>5. Tables(rx) /\ Len(rx.sessions) <= PerReceiver
    BY <1>1, <1>2, <1>3, <1>4, RelayBounds DEF Tables, Single
<1>6. Marks(rx) = {}
    BY <1>1, <1>3 DEF Marks
<1> QED
    BY <1>1, <1>5, <1>6 DEF Sound

\* What a session's entry covers its mark covers, and what a receiver remembers after making room
\* it covers as before.
LEMMA CoveredStays ==
    ASSUME NEW rx, Tables(rx), NEW g \in Frame, Covered(rx, g), NEW after, NEW id, id = g.session,
           \/ \E e \in Entries(after.sessions) : e.id = id /\ e \in Entries(rx.sessions)
           \/ \E m \in Entries(after.retired) : m.id = id /\ m \in Marks(rx)
    PROVE  Covered(after, g)
<1>1. g.seq \in 0..LastSeq /\ Entries(rx.sessions) \subseteq Tracked
    BY ReceiverHas DEF Frame, Tables
<1>2. \A d, e \in Entries(rx.sessions) : d.id = e.id => d = e
    BY DEF Tables, Single, Entries
<1>3. \A d, e \in Entries(rx.retired) : d.id = e.id => d = e
    BY DEF Tables, Single, Entries
<1>4. CASE \E e \in Entries(after.sessions) : e.id = id /\ e \in Entries(rx.sessions)
    <2> PICK e \in Entries(after.sessions) : e.id = id /\ e \in Entries(rx.sessions)
        BY <1>4
    <2>1. ~Unseen(e.window, g.seq)
        BY <1>2 DEF Covered, Tables
    <2> QED
        BY <2>1 DEF Covered
<1>5. CASE \E m \in Entries(after.retired) : m.id = id /\ m \in Marks(rx)
    <2> PICK m \in Entries(after.retired) : m.id = id /\ m \in Marks(rx)
        BY <1>5
    <2>1. CASE m \in Entries(rx.retired)
        <3>1. g.seq <= m.highest
            BY <1>3, <2>1 DEF Covered, Tables
        <3> QED
            BY <3>1 DEF Covered
    <2>2. CASE \E e \in Entries(rx.sessions) : m = Mark(e)
        <3> PICK e \in Entries(rx.sessions) : m = Mark(e)
            BY <2>2
        <3>1. e.id = id /\ m.highest = e.window.highest /\ e.window \in Window
            BY <1>1, MarkIs DEF Tracked
        <3>2. ~Unseen(e.window, g.seq)
            BY <1>2, <3>1 DEF Covered, Tables
        <3>3. g.seq <= m.highest
            BY <3>1, <3>2 DEF Unseen
        <3> QED
            BY <3>3 DEF Covered
    <2> QED
        BY <2>1, <2>2 DEF Marks
<1> QED
    BY <1>4, <1>5

\* A receiver that accepted a frame.
LEMMA SoundOpened ==
    ASSUME Made, played \subseteq Frame, NEW rx, Sound(rx, secret, played), NEW f \in Frame,
           f.session \in 1..Len(secret), secret[f.session].epoch = rx.epoch,
           Unseen(WindowFor(rx, f), f.seq), NEW after, after = Opened(rx, f),
           NEW heard, heard = StillPlayed(Forgotten(rx, after)) \cup {f}
    PROVE  Sound(after, secret, heard) /\ after.epoch = rx.epoch
<1>1. Tables(rx) /\ Len(rx.sessions) <= PerReceiver /\ OwnSecret(rx)
    BY DEF Sound, OwnSecret
<1> PICK w : w = WindowFor(rx, f)
    OBVIOUS
<1>2. /\ Tables(after) /\ Len(after.sessions) <= PerReceiver /\ after.epoch = rx.epoch
      /\ \E new \in Entries(after.sessions) :
            /\ new.id = f.session /\ new.window = Accept(w, f.seq)
            /\ \A e \in Entries(after.sessions) : e = new \/ (e \in Entries(rx.sessions) /\ e.id # f.session)
      /\ \A m \in Entries(after.retired) : m \in Marks(rx) /\ m.id # f.session
    BY <1>1, OpenedDoes
<1> PICK new \in Entries(after.sessions) :
            /\ new.id = f.session /\ new.window = Accept(w, f.seq)
            /\ \A e \in Entries(after.sessions) : e = new \/ (e \in Entries(rx.sessions) /\ e.id # f.session)
    BY <1>2
<1>3. w \in Window /\ f.seq \in 0..LastSeq /\ Unseen(w, f.seq)
    BY <1>1, WindowForIs DEF Frame
<1>4. /\ ~Unseen(new.window, f.seq) /\ new.window.highest \in {w.highest, f.seq}
      /\ \A old \in 0..LastSeq : ~Unseen(w, old) => ~Unseen(new.window, old)
    BY <1>3, AcceptDoes
<1>5. /\ Entries(after.sessions) \subseteq Tracked /\ Entries(rx.sessions) \subseteq Tracked
      /\ Entries(after.retired) \subseteq Retired
    BY <1>1, <1>2, ReceiverHas DEF Tables
<1>6. \A m \in Marks(after) : (m.id = f.session /\ m = Mark(new)) \/ m \in Marks(rx)
    BY <1>2, <1>5, MarkIs, MarkOf DEF Marks
<1>7. \A m \in Marks(after) : m.id \in 1..Len(secret) /\ secret[m.id].epoch = after.epoch
    BY <1>1, <1>2, <1>6 DEF OwnSecret
<1>8. ASSUME NEW g \in played, Remembers(after, g.session) PROVE g \in heard
    BY <1>8 DEF Forgotten, StillPlayed
<1>9. ASSUME NEW g \in heard, secret[g.session].epoch = after.epoch PROVE Covered(after, g)
    <2>1. CASE g = f
        BY <1>4, <2>1 DEF Covered
    <2>2. CASE g \in played /\ g.session \notin Forgotten(rx, after)
        <3>1. g \in Frame /\ g.seq \in 0..LastSeq /\ g.session \in SessionId
            BY <2>2 DEF Frame
        <3>2. Covered(rx, g)
            BY <1>2, <1>9, <2>2 DEF Sound
        <3>3. CASE g.session = f.session
            <4>1. ~Unseen(w, g.seq)
                BY <1>1, <3>1, <3>2, <3>3, CoveredIsSeen
            <4>2. ~Unseen(new.window, g.seq)
                BY <1>4, <3>1, <4>1
            <4> QED
                BY <3>3, <4>2 DEF Covered
        <3>4. CASE g.session # f.session
            <4>1. Remembers(rx, g.session)
                BY <3>2, KnowsEntry DEF Covered, Remembers
            <4>2. Remembers(after, g.session)
                BY <2>2, <3>1, <4>1 DEF Forgotten
            <4>3. \/ \E e \in Entries(after.sessions) : e.id = g.session /\ e \in Entries(rx.sessions)
                  \/ \E m \in Entries(after.retired) : m.id = g.session /\ m \in Marks(rx)
                BY <1>2, <3>4, <4>2, KnowsEntry DEF Remembers
            <4> QED
                BY <1>1, <3>1, <3>2, <4>3, CoveredStays
        <3> QED
            BY <3>3, <3>4
    <2> QED
        BY <2>1, <2>2 DEF StillPlayed
<1>10. ASSUME NEW m \in Marks(after) PROVE \E g \in heard : g.session = m.id /\ g.seq = m.highest
    <2>1. Remembers(after, m.id)
        BY <1>2, RemembersMark
    <2>2. CASE m \in Marks(rx)
        <3> PICK g \in played : g.session = m.id /\ g.seq = m.highest
            BY <2>2 DEF Sound
        <3> QED
            BY <1>8, <2>1
    <2>3. CASE m = Mark(new)
        <3>1. m.id = f.session /\ m.highest = new.window.highest
            BY <1>5, <2>3, MarkIs
        <3>2. f \in heard
            OBVIOUS
        <3>3. CASE m.highest = f.seq
            BY <3>1, <3>2, <3>3
        <3>4. CASE m.highest = w.highest /\ w.highest # f.seq
            <4>1. \E k \in Marks(rx) : k.id = f.session /\ k.highest = w.highest
                <5>1. CASE \E e \in Entries(rx.sessions) : e.id = f.session /\ w = e.window
                    BY <1>5, <5>1, MarkIs, MarkOf
                <5>2. CASE \E k \in Entries(rx.retired) : k.id = f.session /\ w = Resumed(k.highest)
                    <6> PICK k \in Entries(rx.retired) : k.id = f.session /\ w = Resumed(k.highest)
                        BY <5>2
                    <6>1. k \in Retired /\ k \in Marks(rx)
                        BY <1>1, ReceiverHas DEF Tables, Marks
                    <6>2. w.highest = k.highest
                        BY <6>1, WindowStarts DEF Retired
                    <6> QED
                        BY <6>1, <6>2
                <5>3. CASE w = Fresh(f.seq)
                    BY <1>3, <3>4, <5>3, WindowStarts
                <5> QED
                    BY <1>1, <5>1, <5>2, <5>3, WindowForIs
            <4> PICK g \in played : g.session = f.session /\ g.seq = w.highest
                BY <4>1 DEF Sound
            <4> QED
                BY <1>8, <2>1, <3>1, <3>4
        <3> QED
            BY <1>4, <3>1, <3>3, <3>4
    <2> QED
        BY <1>6, <2>2, <2>3
<1> QED
    BY <1>2, <1>7, <1>9, <1>10 DEF Sound

-----------------------------------------------------------------------------
(* The lane.                                                                *)

World ==
    /\ Made /\ Len(secret) <= MaxSessions
    /\ sender \in [Ssrc -> [session: 0..MaxSessions, next: 0..LastSeq, last: 0..MaxClock]]
    /\ \A x \in Ssrc : sender[x].session <= Len(secret)
    /\ sent \subseteq Frame /\ \A f \in sent : f.session \in 1..Len(secret)
    /\ played \subseteq sent
    /\ keyEpoch \in 1..MaxEpoch /\ clock \in 0..MaxClock /\ resets \in Nat

\* The current receiver is of a newer secret than the previous one, and what plays is of either.
Eras ==
    /\ current.epoch <= keyEpoch
    /\ previous.epoch < current.epoch \/ (current = NoReceiver /\ previous = NoReceiver)
    /\ current.epoch = 0 => current = NoReceiver
    /\ previous.epoch = 0 => previous = NoReceiver
    /\ \A f \in played : secret[f.session].epoch \in {current.epoch, previous.epoch}

RelayInv == World /\ Eras /\ Sound(current, secret, played) /\ Sound(previous, secret, played)

LEMMA SecretsAre ==
    ASSUME World
    PROVE  /\ Len(secret) \in Nat
           /\ \A f \in sent : secret[f.session].epoch \in 1..MaxEpoch /\ secret[f.session].epoch > 0
<1>1. Len(secret) \in Nat
    BY LenProperties DEF World, Made
<1> QED
    BY <1>1, SecretIs DEF World

LEMMA EpochsAre ==
    ASSUME RelayInv
    PROVE  current.epoch \in 0..MaxEpoch /\ previous.epoch \in 0..MaxEpoch
BY ReceiverHas DEF RelayInv, Sound, Tables

LEMMA RelayInitially == RelayInit => RelayInv
<1> SUFFICES ASSUME RelayInit PROVE RelayInv
    OBVIOUS
<1>1. secret = <<>> /\ Len(secret) = 0 /\ Made
    BY EmptySeq DEF RelayInit, Made
<1>2. sender \in [Ssrc -> [session: 0..MaxSessions, next: 0..LastSeq, last: 0..MaxClock]]
      /\ \A x \in Ssrc : sender[x].session = 0
    BY RelayBounds DEF RelayInit
<1>3. World
    BY <1>1, <1>2, RelayBounds DEF RelayInit, World
<1>4. 0 \in 0..MaxEpoch /\ 1 \in 0..MaxEpoch /\ played = {}
    BY RelayBounds DEF RelayInit
<1>5. Sound(current, secret, played) /\ current.epoch = 1
    BY <1>4, SoundNew DEF RelayInit
<1>6. Sound(previous, secret, played) /\ previous.epoch = 0
    BY <1>4, SoundNew DEF RelayInit, NoReceiver
<1>7. Eras
    BY <1>4, <1>5, <1>6 DEF RelayInit, Eras
<1> QED
    BY <1>3, <1>5, <1>6, <1>7 DEF RelayInv

\* Steps that leave the receivers alone.
LEMMA ReceiversStay ==
    ASSUME RelayInv, World', UNCHANGED <<current, previous, played>>, keyEpoch <= keyEpoch',
           Len(secret) <= Len(secret'), \A id \in 1..Len(secret) : secret'[id] = secret[id]
    PROVE  RelayInv'
<1>1. Len(secret) \in Nat /\ Len(secret') \in Nat
    BY SecretsAre, LenProperties DEF RelayInv, World, Made
<1>2. \A f \in played : f.session \in 1..Len(secret) /\ secret'[f.session] = secret[f.session]
    BY DEF RelayInv, World
<1>3. Sound(current, secret', played)
    BY <1>1, <1>2, SoundStays DEF RelayInv
<1>4. Sound(previous, secret', played)
    BY <1>1, <1>2, SoundStays DEF RelayInv
<1>5. Eras'
    <2>1. current.epoch \in Nat /\ keyEpoch \in Nat /\ keyEpoch' \in Nat
        BY EpochsAre DEF RelayInv, World
    <2>2. current.epoch <= keyEpoch'
        BY <2>1 DEF RelayInv, Eras
    <2> QED
        BY <1>2, <2>2 DEF RelayInv, Eras
<1> QED
    BY <1>3, <1>4, <1>5 DEF RelayInv

LEMMA NewSessionKeeps ==
    ASSUME RelayInv, NEW x \in Ssrc, NewSession(x)
    PROVE  RelayInv'
<1>1. Len(secret) \in Nat /\ MaxSessions \in Nat /\ Len(secret) < MaxSessions
    BY SecretsAre, RelayBounds DEF RelayInv, NewSession
<1> PICK made : made = [epoch |-> keyEpoch, ssrc |-> x]
    OBVIOUS
<1>2. made \in [epoch: 1..MaxEpoch, ssrc: Ssrc]
    BY DEF RelayInv, World
<1>3. /\ secret' \in Seq([epoch: 1..MaxEpoch, ssrc: Ssrc]) /\ Len(secret') = Len(secret) + 1
      /\ \A id \in 1..Len(secret) : secret'[id] = secret[id]
    <2>1. secret \in Seq([epoch: 1..MaxEpoch, ssrc: Ssrc]) /\ secret' = Append(secret, made)
        BY DEF RelayInv, World, Made, NewSession
    <2> QED
        BY <1>2, <2>1, AppendProperties
<1>4. UNCHANGED <<sent, keyEpoch, current, previous, played, clock, resets>>
    BY DEF NewSession
<1>5. /\ sender' \in [Ssrc -> [session: 0..MaxSessions, next: 0..LastSeq, last: 0..MaxClock]]
      /\ \A y \in Ssrc : sender'[y].session <= Len(secret')
    <2> PICK own : own = [session |-> Len(secret) + 1, next |-> 0, last |-> 0]
        OBVIOUS
    <2>1. own \in [session: 0..MaxSessions, next: 0..LastSeq, last: 0..MaxClock] /\ own.session = Len(secret) + 1
        BY <1>1, RelayBounds
    <2>2. sender' = [sender EXCEPT ![x] = own]
        BY DEF NewSession
    <2>3. \A y \in Ssrc : sender[y].session <= Len(secret) /\ sender[y].session \in Nat
        BY DEF RelayInv, World
    <2>4. \A y \in Ssrc : sender'[y] = IF y = x THEN own ELSE sender[y]
        BY <2>2 DEF RelayInv, World
    <2>5. \A y \in Ssrc : sender'[y].session <= Len(secret')
        BY <1>1, <1>3, <2>1, <2>3, <2>4
    <2> QED
        BY <2>1, <2>2, <2>5 DEF RelayInv, World
<1>6. \A f \in sent' : f.session \in 1..Len(secret')
    <2>1. sent' = sent /\ \A f \in sent : f.session \in 1..Len(secret)
        BY <1>4 DEF RelayInv, World
    <2>2. \A id \in 1..Len(secret) : id \in 1..Len(secret')
        BY <1>1, <1>3
    <2> QED
        BY <2>1, <2>2
<1>7. World'
    <2>1. Len(secret') <= MaxSessions
        BY <1>1, <1>3
    <2> QED
        BY <1>3, <1>4, <1>5, <1>6, <2>1 DEF RelayInv, World, Made
<1>8. keyEpoch <= keyEpoch' /\ Len(secret) <= Len(secret')
    BY <1>1, <1>3, <1>4 DEF RelayInv, World
<1> QED
    BY <1>3, <1>4, <1>7, <1>8, ReceiversStay

LEMMA SealKeeps ==
    ASSUME RelayInv, NEW x \in Ssrc, Seal(x)
    PROVE  RelayInv'
<1> PICK s : s = sender[x]
    OBVIOUS
<1> PICK ts : ts = IF clock < s.last THEN s.last ELSE clock
    OBVIOUS
<1>1. /\ s.session \in 0..MaxSessions /\ s.next \in 0..LastSeq /\ s.last \in 0..MaxClock /\ s.session <= Len(secret)
      /\ clock \in 0..MaxClock
    BY DEF RelayInv, World
<1>2. s.session # 0 /\ s.next # LastSeq /\ Len(secret) \in Nat /\ LastSeq \in Nat
    BY SecretsAre, RelayBounds DEF Seal, RelayInv
<1>3. ts \in 0..MaxClock
    BY <1>1
<1> PICK f : f = [session |-> s.session, seq |-> s.next, ts |-> ts]
    OBVIOUS
<1>4. f \in Frame /\ f.session = s.session /\ s.session \in 1..Len(secret)
    BY <1>1, <1>2, <1>3 DEF Frame, SessionId
<1>5. /\ sent' = sent \cup {f} /\ sender' = [sender EXCEPT ![x].next = s.next + 1, ![x].last = ts]
      /\ UNCHANGED <<secret, keyEpoch, current, previous, played, clock, resets>>
    BY DEF Seal
<1>6. /\ sender' \in [Ssrc -> [session: 0..MaxSessions, next: 0..LastSeq, last: 0..MaxClock]]
      /\ \A y \in Ssrc : sender'[y].session = sender[y].session
    <2> PICK own : own = [s EXCEPT !.next = s.next + 1, !.last = ts]
        OBVIOUS
    <2>1. s \in [session: 0..MaxSessions, next: 0..LastSeq, last: 0..MaxClock]
        BY DEF RelayInv, World
    <2>2. s.next + 1 \in 0..LastSeq
        BY <1>1, <1>2
    <2>3. own \in [session: 0..MaxSessions, next: 0..LastSeq, last: 0..MaxClock] /\ own.session = s.session
        BY <1>3, <2>1, <2>2
    <2>4. sender' = [sender EXCEPT ![x] = own]
        BY <1>5 DEF RelayInv, World
    <2> QED
        BY <2>3, <2>4 DEF RelayInv, World
<1>7. World'
    BY <1>4, <1>5, <1>6 DEF RelayInv, World, Made
<1>8. keyEpoch <= keyEpoch' /\ Len(secret) <= Len(secret')
    BY <1>2, <1>5 DEF RelayInv, World
<1> QED
    BY <1>5, <1>7, <1>8, ReceiversStay

\* Time, its steps back, and a rekey the ssrcs and the receiver have still to follow.
LEMMA TimeKeeps ==
    ASSUME RelayInv, Rekey \/ ClockTicks \/ ClockStepsBack
    PROVE  RelayInv'
<1>1. UNCHANGED <<secret, sender, sent, current, previous, played>>
    BY DEF Rekey, ClockTicks, ClockStepsBack
<1>2. keyEpoch \in 1..MaxEpoch /\ clock \in 0..MaxClock /\ resets \in Nat /\ MaxEpoch \in Nat /\ MaxClock \in Nat
    BY RelayBounds DEF RelayInv, World
<1>3. keyEpoch' \in 1..MaxEpoch /\ keyEpoch <= keyEpoch' /\ clock' \in 0..MaxClock /\ resets' \in Nat
    BY <1>2 DEF Rekey, ClockTicks, ClockStepsBack
<1>4. World'
    BY <1>1, <1>3 DEF RelayInv, World, Made
<1>5. Len(secret) <= Len(secret')
    BY <1>1, SecretsAre DEF RelayInv
<1> QED
    BY <1>1, <1>3, <1>4, <1>5, ReceiversStay

LEMMA WorldStays ==
    ASSUME RelayInv, UNCHANGED <<secret, sender, sent, keyEpoch, clock>>, resets' \in Nat, played' \subseteq sent
    PROVE  World'
BY DEF RelayInv, World, Made

\* What the previous receiver played is let go with it.
LEMMA LetGo ==
    ASSUME RelayInv, NEW rx
    PROVE  /\ StillPlayed(SessionsOf(rx)) = {f \in played : secret[f.session].epoch # rx.epoch}
           /\ StillPlayed(SessionsOf(rx)) \subseteq sent
<1>1. \A f \in played : f.session \in SessionsOf(rx) <=> secret[f.session].epoch = rx.epoch
    BY DEF SessionsOf, RelayInv, World
<1> QED
    BY <1>1 DEF StillPlayed, RelayInv, World

\* Both receivers' frames go with them: nothing is left.
LEMMA AllGo ==
    ASSUME RelayInv
    PROVE  StillPlayed(SessionsOf(current) \cup SessionsOf(previous)) = {}
BY DEF StillPlayed, SessionsOf, RelayInv, World, Eras

LEMMA NobodyIs == NoReceiver.epoch = 0
BY DEF NoReceiver, NewReceiver

LEMMA InstallKeyKeeps ==
    ASSUME RelayInv, InstallKey
    PROVE  RelayInv'
<1> PICK next : next = RetainOrReplace(current, keyEpoch)
    OBVIOUS
<1>1. /\ UNCHANGED <<secret, sender, sent, keyEpoch, clock, resets>> /\ current' = next
      /\ previous' = (IF next = current THEN previous ELSE current)
      /\ played' = IF next.epoch = current.epoch THEN played ELSE StillPlayed(SessionsOf(previous))
    BY DEF InstallKey
<1>2. CASE current.epoch = keyEpoch
    <2>1. UNCHANGED <<current, previous, played>>
        BY <1>1, <1>2 DEF RetainOrReplace
    <2>2. World' /\ keyEpoch <= keyEpoch' /\ Len(secret) <= Len(secret')
        BY <1>1, <2>1, WorldStays, SecretsAre DEF RelayInv, World
    <2> QED
        BY <1>1, <2>1, <2>2, ReceiversStay
<1>3. CASE current.epoch # keyEpoch
    <2>1. next = NewReceiver(keyEpoch) /\ keyEpoch \in 0..MaxEpoch /\ keyEpoch \in Nat /\ keyEpoch > 0
        BY <1>3, RelayBounds DEF RetainOrReplace, RelayInv, World
    <2>2. next.epoch = keyEpoch /\ next # current
        BY <1>3, <2>1 DEF NewReceiver
    <2>3. previous' = current /\ played' = {f \in played : secret[f.session].epoch # previous.epoch} /\ played' \subseteq sent
        BY <1>1, <1>3, <2>2, LetGo
    <2>4. current.epoch < keyEpoch /\ previous.epoch \in Nat /\ current.epoch \in Nat
        BY <1>3, <2>1, EpochsAre DEF RelayInv, Eras
    <2>5. \A f \in played' : secret[f.session].epoch = current.epoch
        BY <2>3 DEF RelayInv, Eras
    <2>6. Sound(next, secret, played')
        BY <2>1, <2>4, <2>5, SoundNew
    <2>7. Sound(current, secret, played')
        <3>1. Len(secret) \in Nat /\ \A f \in played : f.session \in 1..Len(secret)
            BY SecretsAre DEF RelayInv, World
        <3>2. \A f \in played : f \in played' \/ secret[f.session].epoch # current.epoch
            <4> SUFFICES ASSUME NEW f \in played, secret[f.session].epoch = previous.epoch
                         PROVE  secret[f.session].epoch # current.epoch
                BY <2>3
            <4>1. secret[f.session].epoch > 0
                BY SecretsAre DEF RelayInv, World
            <4> QED
                BY <2>4, <4>1, NobodyIs DEF RelayInv, Eras
        <3> QED
            BY <2>3, <3>1, <3>2, SoundStays DEF RelayInv
    <2>8. World'
        BY <1>1, <2>3, WorldStays DEF RelayInv, World
    <2>9. Eras'
        <3>1. current' = next /\ previous' = current /\ keyEpoch' = keyEpoch /\ secret' = secret
            BY <1>1, <2>3
        <3> QED
            BY <2>1, <2>2, <2>4, <2>5, <3>1 DEF RelayInv, Eras
    <2> QED
        BY <1>1, <2>3, <2>6, <2>7, <2>8, <2>9 DEF RelayInv
<1> QED
    BY <1>2, <1>3

LEMMA ExpireGraceKeeps ==
    ASSUME RelayInv, ExpireGrace
    PROVE  RelayInv'
<1>1. /\ UNCHANGED <<secret, sender, sent, keyEpoch, current, clock, resets>> /\ previous # NoReceiver
      /\ previous' = NoReceiver /\ played' = StillPlayed(SessionsOf(previous))
    BY DEF ExpireGrace
<1>2. played' = {f \in played : secret[f.session].epoch # previous.epoch} /\ played' \subseteq sent
    BY <1>1, LetGo
<1>3. previous.epoch < current.epoch /\ previous.epoch \in Nat /\ current.epoch \in Nat
    BY <1>1, EpochsAre DEF RelayInv, Eras
<1>4. \A f \in played' : secret[f.session].epoch = current.epoch
    BY <1>2 DEF RelayInv, Eras
<1>5. Sound(current, secret, played')
    <2>1. Len(secret) \in Nat /\ \A f \in played : f.session \in 1..Len(secret)
        BY SecretsAre DEF RelayInv, World
    <2>2. \A f \in played : f \in played' \/ secret[f.session].epoch # current.epoch
        BY <1>2, <1>3
    <2> QED
        BY <1>2, <2>1, <2>2, SoundStays DEF RelayInv
<1>6. Sound(NoReceiver, secret, played')
    <2>1. 0 \in 0..MaxEpoch
        BY RelayBounds
    <2>2. \A f \in played' : secret[f.session].epoch # 0
        BY <1>3, <1>4
    <2> QED
        BY <2>1, <2>2, SoundNew DEF NoReceiver
<1>7. World'
    BY <1>1, <1>2, WorldStays DEF RelayInv, World
<1>8. Eras'
    BY <1>1, <1>3, <1>4, NobodyIs DEF RelayInv, Eras
<1> QED
    BY <1>1, <1>5, <1>6, <1>7, <1>8 DEF RelayInv

LEMMA ClearKeysKeeps ==
    ASSUME RelayInv, ClearKeys
    PROVE  RelayInv'
<1>1. /\ UNCHANGED <<secret, sender, sent, keyEpoch, clock>> /\ resets' = resets + 1
      /\ current' = NoReceiver /\ previous' = NoReceiver /\ played' = {}
    BY AllGo DEF ClearKeys
<1>2. Sound(NoReceiver, secret, {})
    <2>1. 0 \in 0..MaxEpoch
        BY RelayBounds
    <2> QED
        BY <2>1, SoundNew DEF NoReceiver
<1>3. World'
    <2>1. resets' \in Nat
        BY <1>1 DEF RelayInv, World
    <2> QED
        BY <1>1, <2>1, WorldStays
<1>4. Eras'
    BY <1>1, NobodyIs DEF RelayInv, World, Eras
<1> QED
    BY <1>1, <1>2, <1>3, <1>4 DEF RelayInv

\* A frame one receiver accepts is none of the other's, and neither are those it lets go.
LEMMA AcceptedBy ==
    ASSUME RelayInv, NEW rx, NEW other, Sound(rx, secret, played), Sound(other, secret, played),
           rx.epoch # other.epoch, NEW f \in sent, Opens(rx, f), NEW after, after = Opened(rx, f),
           NEW heard, heard = StillPlayed(Forgotten(rx, after)) \cup {f}
    PROVE  /\ Sound(after, secret, heard) /\ after.epoch = rx.epoch /\ Sound(other, secret, heard)
           /\ heard \subseteq sent /\ secret[f.session].epoch = rx.epoch
           /\ \A g \in heard : g \in played \/ g = f
<1>1. Unseen(WindowFor(rx, f), f.seq) /\ secret[f.session].epoch = rx.epoch
    BY DEF Opens, Authentic
<1>2. Made /\ f \in Frame /\ f.session \in 1..Len(secret) /\ played \subseteq Frame
      /\ \A g \in played : g.session \in 1..Len(secret) /\ g \in Frame
    BY DEF RelayInv, World
<1>3. Sound(after, secret, heard) /\ after.epoch = rx.epoch
    BY <1>1, <1>2, SoundOpened
<1>4. \A g \in heard : g \in played \/ g = f
    BY DEF StillPlayed
<1>5. heard \subseteq sent
    BY <1>4 DEF RelayInv, World
<1>6. ASSUME NEW g \in played, secret[g.session].epoch = other.epoch PROVE g \in heard
    <2>1. ~Remembers(rx, g.session)
        <3>1. \A m \in Marks(rx) : m.id # g.session
            BY <1>6 DEF Sound
        <3>2. Tables(rx)
            BY DEF Sound
        <3> QED
            BY <3>1, <3>2, RemembersMark
    <2> QED
        BY <2>1 DEF StillPlayed, Forgotten
<1>7. Sound(other, secret, heard)
    <2>1. Len(secret) \in Nat /\ Len(secret) <= Len(secret)
        BY SecretsAre DEF RelayInv
    <2>2. \A g \in heard : (g \in played /\ g.session \in 1..Len(secret)) \/ secret[g.session].epoch # other.epoch
        BY <1>1, <1>2, <1>4
    <2> QED
        BY <1>6, <2>1, <2>2, SoundStays
<1> QED
    BY <1>1, <1>3, <1>4, <1>5, <1>7

\* Either key's receiver plays the frame, and the two are of different secrets.
LEMMA PlaysIs ==
    ASSUME RelayInv, NEW f, Plays(f)
    PROVE  /\ previous.epoch < current.epoch /\ previous.epoch # current.epoch
           /\ UsesPrevious(f) => Opens(previous, f)
           /\ ~UsesPrevious(f) => Opens(current, f)
<1>1. previous.epoch < current.epoch
    BY DEF Plays, RelayInv, Eras
<1>2. previous.epoch # current.epoch
    BY <1>1, EpochsAre
<1> QED
    BY <1>1, <1>2 DEF Plays, UsesPrevious

LEMMA DeliverKeeps ==
    ASSUME RelayInv, NEW f \in sent, Deliver(f)
    PROVE  RelayInv'
<1>1. Plays(f) /\ UNCHANGED <<secret, sender, sent, keyEpoch, clock, resets>>
    BY DEF Deliver
<1>2. /\ previous.epoch < current.epoch /\ previous.epoch # current.epoch
      /\ UsesPrevious(f) => Opens(previous, f)
      /\ ~UsesPrevious(f) => Opens(current, f)
    BY <1>1, PlaysIs
<1>3. secret[f.session].epoch > 0 /\ resets \in Nat
    BY SecretsAre DEF RelayInv, World
<1>4. CASE UsesPrevious(f)
    <2> PICK after : after = Opened(previous, f)
        OBVIOUS
    <2> PICK heard : heard = StillPlayed(Forgotten(previous, after)) \cup {f}
        OBVIOUS
    <2>1. current' = current /\ previous' = after /\ played' = heard
        BY <1>4 DEF Deliver
    <2>2. /\ Sound(after, secret, heard) /\ after.epoch = previous.epoch /\ Sound(current, secret, heard)
          /\ heard \subseteq sent /\ secret[f.session].epoch = previous.epoch
          /\ \A g \in heard : g \in played \/ g = f
        BY <1>2, <1>4, AcceptedBy DEF RelayInv
    <2>3. World'
        BY <1>1, <1>3, <2>1, <2>2, WorldStays
    <2>4. Eras'
        BY <1>1, <1>2, <1>3, <2>1, <2>2 DEF RelayInv, Eras
    <2> QED
        BY <1>1, <2>1, <2>2, <2>3, <2>4 DEF RelayInv
<1>5. CASE ~UsesPrevious(f)
    <2> PICK after : after = Opened(current, f)
        OBVIOUS
    <2> PICK heard : heard = StillPlayed(Forgotten(current, after)) \cup {f}
        OBVIOUS
    <2>1. current' = after /\ previous' = previous /\ played' = heard
        BY <1>5 DEF Deliver
    <2>2. /\ Sound(after, secret, heard) /\ after.epoch = current.epoch /\ Sound(previous, secret, heard)
          /\ heard \subseteq sent /\ secret[f.session].epoch = current.epoch
          /\ \A g \in heard : g \in played \/ g = f
        BY <1>2, <1>5, AcceptedBy DEF RelayInv
    <2>3. World'
        BY <1>1, <1>3, <2>1, <2>2, WorldStays
    <2>4. Eras'
        BY <1>1, <1>2, <1>3, <2>1, <2>2 DEF RelayInv, Eras
    <2> QED
        BY <1>1, <2>1, <2>2, <2>3, <2>4 DEF RelayInv
<1> QED
    BY <1>4, <1>5

LEMMA RelayKeeps == RelayInv /\ [RelayNext]_relayVars => RelayInv'
<1> SUFFICES ASSUME RelayInv, [RelayNext]_relayVars PROVE RelayInv'
    OBVIOUS
<1>1. CASE UNCHANGED relayVars
    <2>1. UNCHANGED <<secret, sender, sent, keyEpoch, current, previous, played, clock, resets>>
        BY <1>1 DEF relayVars
    <2>2. resets' \in Nat /\ played' \subseteq sent /\ keyEpoch <= keyEpoch' /\ Len(secret) <= Len(secret')
        BY <2>1, SecretsAre DEF RelayInv, World
    <2>3. World'
        BY <2>1, <2>2, WorldStays
    <2> QED
        BY <2>1, <2>2, <2>3, ReceiversStay
<1>2. CASE \E x \in Ssrc : NewSession(x) \/ Seal(x)
    BY <1>2, NewSessionKeeps, SealKeeps
<1>3. CASE \E f \in sent : Deliver(f)
    BY <1>3, DeliverKeeps
<1>4. CASE Rekey \/ ClockTicks \/ ClockStepsBack
    BY <1>4, TimeKeeps
<1>5. CASE InstallKey \/ ExpireGrace \/ ClearKeys
    BY <1>5, InstallKeyKeeps, ExpireGraceKeeps, ClearKeysKeeps
<1> QED
    BY <1>1, <1>2, <1>3, <1>4, <1>5 DEF RelayNext

THEOREM RelayInvariance == RelaySpec => []RelayInv
BY RelayInitially, RelayKeeps, PTL DEF RelaySpec

THEOREM RelayTypeCorrect == RelaySpec => []RelayTypeOK
<1>1. RelayInv => RelayTypeOK
    <2> SUFFICES ASSUME RelayInv PROVE RelayTypeOK
        OBVIOUS
    <2>1. ASSUME NEW rx, Sound(rx, secret, played)
          PROVE  /\ rx \in Receiver
                 /\ Len(rx.sessions) <= PerReceiver /\ Len(rx.retired) <= MaxRetired
                 /\ \A i, j \in DOMAIN rx.sessions : rx.sessions[i].id = rx.sessions[j].id => i = j
                 /\ \A i \in DOMAIN rx.sessions : ~Knows(rx.retired, rx.sessions[i].id)
        <3>1. Tables(rx) /\ Len(rx.sessions) <= PerReceiver
            BY <2>1 DEF Sound
        <3>2. \A i \in DOMAIN rx.sessions : rx.sessions[i] \in Entries(rx.sessions)
            BY DEF Entries
        <3>3. \A i \in DOMAIN rx.sessions : ~Knows(rx.retired, rx.sessions[i].id)
            BY <3>1, <3>2, KnowsEntry DEF Tables
        <3> QED
            BY <3>1, <3>3 DEF Tables, Single
    <2>2. Sound(current, secret, played) /\ Sound(previous, secret, played) /\ World
        BY DEF RelayInv
    <2> QED
        BY <2>1, <2>2 DEF RelayTypeOK, World, Made
<1> QED
    BY <1>1, RelayInvariance, PTL

\* relay_audio.rs 12-19: whatever the relay repeats, reorders or delays, however many sessions
\* crowd the tables and however long the two receivers live, what played does not play again.
THEOREM NoReplayAlways == RelaySpec => []NoReplay
<1>1. RelayInv => NoReplay
    <2> SUFFICES ASSUME RelayInv, NEW f \in played, NEW rx \in {current, previous}, Opens(rx, f) PROVE FALSE
        BY DEF NoReplay, Plays
    <2>1. Sound(rx, secret, played) /\ f \in Frame
        BY DEF RelayInv, World
    <2>2. Tables(rx) /\ Covered(rx, f)
        BY <2>1 DEF Sound, Opens, Authentic
    <2>3. ~Unseen(WindowFor(rx, f), f.seq)
        BY <2>1, <2>2, CoveredIsSeen
    <2> QED
        BY <2>3 DEF Opens
<1> QED
    BY <1>1, RelayInvariance, PTL

LEMMA NewIsUnseen ==
    ASSUME NEW rx, Sound(rx, secret, played), played \subseteq Frame, NEW f \in Frame,
           \A g \in played : g.session = f.session => g.seq < f.seq
    PROVE  Unseen(WindowFor(rx, f), f.seq)
<1> PICK w : w = WindowFor(rx, f)
    OBVIOUS
<1>1. Tables(rx) /\ f.seq \in 0..LastSeq /\ Entries(rx.sessions) \subseteq Tracked /\ Entries(rx.retired) \subseteq Retired
    BY ReceiverHas DEF Sound, Tables, Frame
<1>2. \A m \in Marks(rx) : m.id = f.session => m.highest < f.seq
    BY DEF Sound
<1>3. CASE \E e \in Entries(rx.sessions) : e.id = f.session /\ w = e.window
    <2> PICK e \in Entries(rx.sessions) : e.id = f.session /\ w = e.window
        BY <1>3
    <2>1. w.highest < f.seq /\ w.highest \in 0..LastSeq
        BY <1>1, <1>2, MarkOf, MarkIs DEF Tracked, Window
    <2>2. ~(f.seq <= w.highest)
        BY <1>1, <2>1, RelayBounds
    <2> QED
        BY <2>2 DEF Unseen
<1>4. CASE \E m \in Entries(rx.retired) : m.id = f.session /\ w = Resumed(m.highest)
    <2> PICK m \in Entries(rx.retired) : m.id = f.session /\ w = Resumed(m.highest)
        BY <1>4
    <2>1. m.highest < f.seq /\ m.highest \in 0..LastSeq
        BY <1>1, <1>2 DEF Marks, Retired
    <2>2. f.seq > m.highest
        BY <1>1, <2>1, RelayBounds
    <2> QED
        BY <1>1, <2>1, <2>2, WindowStarts
<1>5. CASE w = Fresh(f.seq)
    BY <1>1, <1>5, WindowStarts
<1> QED
    BY <1>1, <1>3, <1>4, <1>5, WindowForIs

\* The window turns down nothing that is new: in the grace time of a rekey, an authentic frame
\* that is newer than all its session played passes, under the current key or the previous one.
THEOREM NewFramesPlayAlways == RelaySpec => []NewFramesPlay
<1>1. RelayInv => NewFramesPlay
    <2> SUFFICES ASSUME RelayInv, NEW f \in sent, WithinSkew(f), current # NoReceiver,
                        secret[f.session].epoch \in {current.epoch, previous.epoch},
                        \A g \in played : g.session = f.session => g.seq < f.seq
                 PROVE  Plays(f)
        BY DEF NewFramesPlay
    <2>1. f \in Frame /\ played \subseteq Frame /\ Sound(current, secret, played) /\ Sound(previous, secret, played)
        BY DEF RelayInv, World
    <2>2. Unseen(WindowFor(current, f), f.seq) /\ Unseen(WindowFor(previous, f), f.seq)
        BY <2>1, NewIsUnseen
    <2>3. CASE secret[f.session].epoch = current.epoch
        BY <2>2, <2>3 DEF Plays, Opens, Authentic
    <2>4. CASE secret[f.session].epoch # current.epoch
        <3>1. Opens(previous, f)
            BY <2>2, <2>4 DEF Opens, Authentic
        <3>2. UsesPrevious(f)
            BY <2>2, <2>4 DEF UsesPrevious, Opens, Authentic
        <3>3. previous # NoReceiver
            <4>1. secret[f.session].epoch = previous.epoch /\ secret[f.session].epoch > 0
                BY <2>4, SecretsAre DEF RelayInv
            <4> QED
                BY <4>1, NobodyIs
        <3> QED
            BY <3>1, <3>2, <3>3 DEF Plays
    <2> QED
        BY <2>3, <2>4
<1> QED
    BY <1>1, RelayInvariance, PTL
=============================================================================
