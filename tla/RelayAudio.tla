----------------------------- MODULE RelayAudio -----------------------------
(***************************************************************************)
(* Relay-mode voice frames: relay_audio.rs (SenderCore, ReceiverCore) and   *)
(* the receive path around it in voiceRelayAudio.js (the current and the    *)
(* previous receiver of a lane).                                            *)
(*                                                                         *)
(* A sending session draws a fresh id and derives its own cipher from the   *)
(* group secret of its epoch, so here a session is its number, and its      *)
(* secret that of the epoch it was made in. The relay is not trusted: what  *)
(* was sent once may arrive at any time, in any order, any number of times. *)
(***************************************************************************)
EXTENDS Naturals, Sequences, FiniteSets

CONSTANTS
    Ssrc,          \* the senders
    ReplayWindow,  \* REPLAY_WINDOW
    PerSsrc,       \* MAX_SESSIONS_PER_SSRC
    PerReceiver,   \* MAX_SESSIONS_TOTAL
    MaxRetired,    \* MAX_RETIRED
    MaxSkew,       \* MAX_SKEW_MS
    LastSeq,       \* u64::MAX: the counter that is never used
    MaxSessions,   \* bound on the sending sessions
    MaxEpoch,      \* bound on the epochs of the group
    MaxClock,      \* bound on time
    MaxResets      \* bound on lost receivers and on steps back of the clock

ASSUME RelayBounds ==
    /\ ReplayWindow \in Nat \ {0} /\ PerSsrc \in Nat \ {0} /\ PerReceiver \in Nat \ {0}
    /\ MaxRetired \in Nat /\ MaxSkew \in Nat /\ LastSeq \in Nat
    /\ MaxSessions \in Nat /\ MaxEpoch \in Nat \ {0} /\ MaxClock \in Nat /\ MaxResets \in Nat

SessionId == 1..MaxSessions
Frame == [session: SessionId, seq: 0..LastSeq, ts: 0..MaxClock]

VARIABLES
    secret,     \* per session made: the epoch its secret is exported from, and its sender
    sender,     \* per sender, the SenderCore in use: session (0: none), next_seq, last_ts
    sent,       \* the frames the relay holds
    keyEpoch,   \* the group's epoch, as the senders and the receiver learn it
    current,    \* the lane's receiver
    previous,   \* the receiver it replaced, within the grace time
    played,     \* the frames played since their session was last forgotten
    clock,      \* wall-clock time
    resets      \* lost receivers and steps back of the clock

relayVars == <<secret, sender, sent, keyEpoch, current, previous, played, clock, resets>>

\* ReplayWindow: the highest sequence, and how far below it others were accepted.
Window == [highest: 0..LastSeq, seen: SUBSET (0..ReplayWindow - 1)]
\* ReceiverCore: the sessions in the order of their last use, and the retired ones in
\* the order of their eviction, each with its highest sequence.
Tracked == [id: SessionId, window: Window]
Retired == [id: SessionId, highest: 0..LastSeq]
Receiver == [epoch: 0..MaxEpoch, sessions: Seq(Tracked), retired: Seq(Retired)]
NewReceiver(e) == [epoch |-> e, sessions |-> <<>>, retired |-> <<>>]
\* No receiver: no session has the secret of epoch 0.
NoReceiver == NewReceiver(0)

RelayInit ==
    /\ secret = <<>>
    /\ sender = [x \in Ssrc |-> [session |-> 0, next |-> 0, last |-> 0]]
    /\ sent = {} /\ keyEpoch = 1
    /\ current = NewReceiver(1) /\ previous = NoReceiver
    /\ played = {} /\ clock = 0 /\ resets = 0

-----------------------------------------------------------------------------
(* The replay window.                                                      *)

Knows(table, id) == \E i \in DOMAIN table : table[i].id = id
Place(table, id) == CHOOSE i \in DOMAIN table : table[i].id = id
Of(table, id) == table[Place(table, id)]
Without(table, id) ==
    IF Knows(table, id)
    THEN [i \in 1..(Len(table) - 1) |-> IF i < Place(table, id) THEN table[i] ELSE table[i + 1]]
    ELSE table

Fresh(seq) == [highest |-> seq, seen |-> {}]
\* Mutated form: a session that comes back starts a window of its own.
ResumedAfresh(highest) == [highest |-> highest, seen |-> {}]
\* A session that comes back: all up to its highest sequence counts as seen.
Resumed(highest) == [highest |-> highest, seen |-> 0..ReplayWindow - 1]

\* ReplayWindow::check.
Unseen(w, seq) ==
    seq <= w.highest =>
        w.highest - seq < ReplayWindow /\ w.highest - seq \notin w.seen

\* ReplayWindow::accept: bits shifted past the width are gone.
Accept(w, seq) ==
    IF seq > w.highest
    THEN LET shift == seq - w.highest
         IN [highest |-> seq, seen |-> {0} \cup {b \in 0..ReplayWindow - 1 : b >= shift /\ b - shift \in w.seen}]
    ELSE [w EXCEPT !.seen = @ \cup {w.highest - seq}]

\* The window a frame is checked against: its session's, a resumed or a fresh one.
WindowFor(rx, f) ==
    CASE Knows(rx.sessions, f.session) -> Of(rx.sessions, f.session).window
      [] ~Knows(rx.sessions, f.session) /\ Knows(rx.retired, f.session) ->
            Resumed(Of(rx.retired, f.session).highest)
      [] OTHER -> Fresh(f.seq)

WithinSkew(f) == f.ts <= clock + MaxSkew /\ clock <= f.ts + MaxSkew

\* The tag verifies under the secret the session was derived from only.
Authentic(rx, f) == secret[f.session].epoch = rx.epoch

\* ReceiverCore::open succeeds.
Opens(rx, f) == Unseen(WindowFor(rx, f), f.seq) /\ Authentic(rx, f) /\ WithinSkew(f)

-----------------------------------------------------------------------------
(* The tables: what an accepted frame leaves behind.                       *)

\* The least recently used session there is, of one sender or of any.
Victim(table, senders) ==
    table[CHOOSE i \in DOMAIN table :
            /\ secret[table[i].id].ssrc \in senders
            /\ \A j \in 1..(i - 1) : secret[table[j].id].ssrc \notin senders]

\* retire: the oldest mark makes room when there are too many.
Retire(marks, victim) ==
    LET more == Append(marks, [id |-> victim.id, highest |-> victim.window.highest])
    IN IF Len(more) > MaxRetired THEN Tail(more) ELSE more

\* evict_lru.
Evict(rx, senders) ==
    LET victim == Victim(rx.sessions, senders)
    IN [rx EXCEPT !.sessions = Without(@, victim.id), !.retired = Retire(@, victim)]

\* Mutated form: room is made among the sender's own sessions only.
MakeOwnRoom(rx, ssrc) ==
    IF \E i \in DOMAIN rx.sessions : secret[rx.sessions[i].id].ssrc = ssrc THEN Evict(rx, {ssrc}) ELSE rx
\* make_room_for: first among the sender's own sessions, then among all.
MakeRoom(rx, ssrc) ==
    LET own == {i \in DOMAIN rx.sessions : secret[rx.sessions[i].id].ssrc = ssrc}
        first == IF Cardinality(own) >= PerSsrc THEN Evict(rx, {ssrc}) ELSE rx
    IN IF Len(first.sessions) >= PerReceiver THEN Evict(first, Ssrc) ELSE first

\* ReceiverCore::open, after the checks.
Opened(rx, f) ==
    LET window == Accept(WindowFor(rx, f), f.seq)
        known == Knows(rx.sessions, f.session)
        base == IF known THEN [rx EXCEPT !.sessions = Without(@, f.session)]
                ELSE MakeRoom([rx EXCEPT !.retired = Without(@, f.session)], secret[f.session].ssrc)
    IN [base EXCEPT !.sessions = Append(@, [id |-> f.session, window |-> window])]

\* The sessions a receiver can no longer tell apart from new ones.
Remembers(rx, id) == Knows(rx.sessions, id) \/ Knows(rx.retired, id)
Forgotten(rx, after) == {id \in SessionId : Remembers(rx, id) /\ ~Remembers(after, id)}
StillPlayed(ids) == {f \in played : f.session \notin ids}

-----------------------------------------------------------------------------
(* The sender.                                                             *)

\* A RelayAudioSender for the current secret: on joining, reconnecting, a second
\* device, or after a rekey.
NewSession(x) ==
    /\ Len(secret) < MaxSessions
    /\ secret' = Append(secret, [epoch |-> keyEpoch, ssrc |-> x])
    /\ sender' = [sender EXCEPT ![x] = [session |-> Len(secret) + 1, next |-> 0, last |-> 0]]
    /\ UNCHANGED <<sent, keyEpoch, current, previous, played, clock, resets>>

\* SenderCore::seal.
Seal(x) ==
    LET s == sender[x]
        ts == IF clock < s.last THEN s.last ELSE clock
    IN /\ s.session # 0 /\ s.next # LastSeq
       /\ sent' = sent \cup {[session |-> s.session, seq |-> s.next, ts |-> ts]}
       /\ sender' = [sender EXCEPT ![x].next = s.next + 1, ![x].last = ts]
       /\ UNCHANGED <<secret, keyEpoch, current, previous, played, clock, resets>>

-----------------------------------------------------------------------------
(* The receiver.                                                           *)

\* openAudioFrame: the current receiver, and the previous one only if the tag failed.
UsesPrevious(f) ==
    /\ ~Opens(current, f) /\ Unseen(WindowFor(current, f), f.seq) /\ ~Authentic(current, f)

Plays(f) ==
    /\ current # NoReceiver
    /\ \/ Opens(current, f)
       \/ UsesPrevious(f) /\ previous # NoReceiver /\ Opens(previous, f)

Deliver(f) ==
    /\ f \in sent /\ Plays(f)
    /\ LET rx == IF UsesPrevious(f) THEN previous ELSE current
           after == Opened(rx, f)
       IN /\ current' = IF UsesPrevious(f) THEN current ELSE after
          /\ previous' = IF UsesPrevious(f) THEN after ELSE previous
          /\ played' = StillPlayed(Forgotten(rx, after)) \cup {f}
    /\ UNCHANGED <<secret, sender, sent, keyEpoch, clock, resets>>

\* The commit of a new epoch is applied; senders and receiver follow on their own.
Rekey ==
    /\ keyEpoch < MaxEpoch /\ keyEpoch' = keyEpoch + 1
    /\ UNCHANGED <<secret, sender, sent, current, previous, played, clock, resets>>

SessionsOf(rx) == {id \in 1..Len(secret) : secret[id].epoch = rx.epoch}

\* Mutated form: a re-export of the same secret makes a new receiver.
RetainNone(rx, e) == NewReceiver(e)
\* retainOrReplaceRelayCipher.
RetainOrReplace(rx, e) == IF rx.epoch = e THEN rx ELSE NewReceiver(e)

\* install: a receiver of another secret becomes previous, and the one before it is
\* freed. A re-export of the secret in use changes nothing.
InstallKey ==
    /\ LET next == RetainOrReplace(current, keyEpoch)
       IN /\ current' = next
          /\ previous' = IF next = current THEN previous ELSE current
          /\ played' = IF next.epoch = current.epoch THEN played
                       ELSE StillPlayed(SessionsOf(previous))
    /\ UNCHANGED <<secret, sender, sent, keyEpoch, clock, resets>>

\* The grace timer.
ExpireGrace ==
    /\ previous # NoReceiver
    /\ previous' = NoReceiver
    /\ played' = StillPlayed(SessionsOf(previous))
    /\ UNCHANGED <<secret, sender, sent, keyEpoch, current, clock, resets>>

\* clear: no longer a member, another channel, or the app starts again.
ClearKeys ==
    /\ resets < MaxResets /\ resets' = resets + 1 /\ current # NoReceiver
    /\ current' = NoReceiver /\ previous' = NoReceiver
    /\ played' = StillPlayed(SessionsOf(current) \cup SessionsOf(previous))
    /\ UNCHANGED <<secret, sender, sent, keyEpoch, clock>>

ClockTicks ==
    /\ clock < MaxClock /\ clock' = clock + 1
    /\ UNCHANGED <<secret, sender, sent, keyEpoch, current, previous, played, resets>>

\* NTP sets a clock back.
ClockStepsBack ==
    /\ resets < MaxResets /\ resets' = resets + 1
    /\ clock > 0 /\ clock' = clock - 1
    /\ UNCHANGED <<secret, sender, sent, keyEpoch, current, previous, played>>

RelayNext ==
    \/ \E x \in Ssrc : NewSession(x) \/ Seal(x)
    \/ \E f \in sent : Deliver(f)
    \/ Rekey \/ InstallKey \/ ExpireGrace \/ ClearKeys \/ ClockTicks \/ ClockStepsBack

RelaySpec == RelayInit /\ [][RelayNext]_relayVars

-----------------------------------------------------------------------------
RelayTypeOK ==
    /\ secret \in Seq([epoch: 1..MaxEpoch, ssrc: Ssrc]) /\ Len(secret) <= MaxSessions
    /\ sender \in [Ssrc -> [session: 0..MaxSessions, next: 0..LastSeq, last: 0..MaxClock]]
    /\ sent \subseteq Frame /\ played \subseteq sent
    /\ keyEpoch \in 1..MaxEpoch /\ clock \in 0..MaxClock /\ resets \in Nat
    /\ \A rx \in {current, previous} :
          /\ rx \in Receiver
          /\ Len(rx.sessions) <= PerReceiver /\ Len(rx.retired) <= MaxRetired
          /\ \A i, j \in DOMAIN rx.sessions : rx.sessions[i].id = rx.sessions[j].id => i = j
          /\ \A i \in DOMAIN rx.sessions : ~Knows(rx.retired, rx.sessions[i].id)

\* relay_audio.rs 12-19: as long as a session is remembered, by its window or by the
\* mark its eviction left, none of its frames plays twice, however the relay repeats,
\* reorders or delays them and whichever sessions crowd it out.
NoReplay == \A f \in played : ~Plays(f)

\* The other side of the window: an authentic frame in time that is newer than all of
\* its session that played is never taken for a replay, in either key's grace time.
NewFramesPlay ==
    \A f \in sent :
        /\ WithinSkew(f) /\ current # NoReceiver
        /\ secret[f.session].epoch \in {current.epoch, previous.epoch}
        /\ \A g \in played : g.session = f.session => g.seq < f.seq
        => Plays(f)
=============================================================================
