----------------------------- MODULE MonitorKeys -----------------------------
(***************************************************************************)
(* The keys of the channels a client listens to besides its own: the        *)
(* monitor sessions of useMonitorChannel.js on one device. A key is a       *)
(* number, 0 where there is none; the device's own state of a group, which  *)
(* sync, heal and the event stream move, changes by itself.                 *)
(***************************************************************************)
EXTENDS Integers, Sequences

CONSTANTS
    Monitor,      \* the sessions: one per mount of the hook
    KeyGroup,     \* the MLS groups
    Follows,      \* per session its channel's group and its event's, if it has one
    MaxRekeys,    \* bound on the changes of the device's groups
    Unprompted    \* KEY_RETRY_UNPROMPTED_ATTEMPTS (3)

ASSUME MonitorBounds == MaxRekeys \in Nat /\ Unprompted \in Nat
ASSUME MonitorFollowsGroups == Follows \in [Monitor -> Seq(KeyGroup)]

VARIABLES
    groupSecret, \* per group the secret the device exports; 0: it is no member
    rekeys,     \* how many secrets there have been
    unsaid,     \* the groups whose last change the sessions have not been told of
    monitor,    \* the sessions
    held,       \* per session and group the key it opens with
    failed      \* per session the groups whose last export failed though the device is a member

monitorVars == <<groupSecret, rekeys, unsaid, monitor, held, failed>>

NothingGot == -1
ExportFails == -2
\* place: in Follows, of the last export of the derivation under way; got: what that export returned,
\* before it is installed. attempts counts to one past Unprompted.
NoMonitor == [at |-> "off", deriving |-> FALSE, place |-> 0, got |-> NothingGot, pending |-> FALSE,
              timer |-> FALSE, attempts |-> 0, dropped |-> FALSE]
GroupsOf(m) == {Follows[m][i] : i \in 1..Len(Follows[m])}
IsOn(m) == monitor[m].at = "on"

MonitorTypeOK ==
    /\ groupSecret \in [KeyGroup -> 0..MaxRekeys] /\ rekeys \in 0..MaxRekeys /\ unsaid \subseteq KeyGroup
    /\ \A m \in Monitor :
          /\ monitor[m].at \in {"off", "on", "disposed"}
          /\ {monitor[m].deriving, monitor[m].pending, monitor[m].timer, monitor[m].dropped} \subseteq BOOLEAN
          /\ monitor[m].place \in 0..Len(Follows[m])
          /\ monitor[m].got \in {NothingGot, ExportFails} \cup 0..MaxRekeys
          /\ monitor[m].attempts \in 0..(Unprompted + 1)
    /\ held \in [Monitor -> [KeyGroup -> 0..MaxRekeys]]
    /\ failed \in [Monitor -> SUBSET KeyGroup]

MonitorInit ==
    /\ groupSecret = [g \in KeyGroup |-> 0] /\ rekeys = 0 /\ unsaid = {}
    /\ monitor = [m \in Monitor |-> NoMonitor]
    /\ held = [m \in Monitor |-> [g \in KeyGroup |-> 0]]
    /\ failed = [m \in Monitor |-> {}]

KeysComplete(m) == \A g \in GroupsOf(m) : held[m][g] # 0

\* Mutant of Asked: whoever asks while a derivation is under way is dropped.
AskedOnce(m) == IF monitor[m].deriving THEN monitor[m] ELSE [monitor[m] EXCEPT !.deriving = TRUE]
\* deriveKeys: one at a time, and one more after it for all who ask meanwhile.
Asked(m) == IF monitor[m].deriving THEN [monitor[m] EXCEPT !.pending = TRUE]
            ELSE [monitor[m] EXCEPT !.deriving = TRUE]
DeriveFor(M) ==
    monitor' = [m \in Monitor |-> IF m \in M /\ IsOn(m) THEN Asked(m) ELSE monitor[m]]

\* scheduleKeyRetry.
Scheduled(r, complete) ==
    IF r.timer \/ complete THEN r
    ELSE [r EXCEPT !.timer = TRUE, !.attempts = IF @ > Unprompted THEN @ ELSE @ + 1]

-----------------------------------------------------------------------------
\* The device's state of a group changes, with an epoch, a join or a removal.
GroupMoves(g) ==
    /\ \/ rekeys < MaxRekeys /\ rekeys' = rekeys + 1 /\ groupSecret' = [groupSecret EXCEPT ![g] = rekeys + 1]
       \/ groupSecret[g] # 0 /\ groupSecret' = [groupSecret EXCEPT ![g] = 0] /\ rekeys' = rekeys
    /\ unsaid' = unsaid \cup {g}
    /\ UNCHANGED <<monitor, held, failed>>

\* onGroupKeyChange, onGroupStateChange.
Told(g) ==
    /\ g \in unsaid /\ unsaid' = unsaid \ {g}
    /\ DeriveFor({m \in Monitor : g \in GroupsOf(m)})
    /\ UNCHANGED <<groupSecret, rekeys, held, failed>>

\* connect, from the subscriptions on, which are made where the keys are asked for.
StartMonitor(m) ==
    /\ monitor[m].at = "off"
    /\ monitor' = [monitor EXCEPT ![m] = [NoMonitor EXCEPT !.at = "on", !.deriving = TRUE]]
    /\ UNCHANGED <<groupSecret, rekeys, unsaid, held, failed>>

\* A roster change, or frames that do not open.
Suspect(m) ==
    /\ DeriveFor({m}) /\ IsOn(m)
    /\ UNCHANGED <<groupSecret, rekeys, unsaid, held, failed>>

\* A frame there is no key for.
NoKeyDrop(m) ==
    /\ IsOn(m) /\ ~KeysComplete(m)
    /\ monitor' = [monitor EXCEPT ![m] = Scheduled([@ EXCEPT !.dropped = TRUE], FALSE)]
    /\ UNCHANGED <<groupSecret, rekeys, unsaid, held, failed>>

\* The retry's timer: after the first few, only where frames were missed.
RetryTimer(m) ==
    /\ IsOn(m) /\ monitor[m].timer
    /\ LET r == [monitor[m] EXCEPT !.timer = FALSE] IN
       monitor' = [monitor EXCEPT ![m] =
           IF r.attempts > Unprompted /\ ~r.dropped THEN r
           ELSE [r EXCEPT !.dropped = FALSE, !.pending = r.deriving \/ @, !.deriving = TRUE]]
    /\ UNCHANGED <<groupSecret, rekeys, unsaid, held, failed>>

-----------------------------------------------------------------------------
(* deriveKeys, from await to await; the wait for withMlsLock is part of the first, as long as it takes. *)
GroupAt(m) == Follows[m][monitor[m].place]

\* The next export, with what sync brought.
Export(m) ==
    /\ monitor[m].deriving /\ monitor[m].got = NothingGot /\ monitor[m].place < Len(Follows[m])
    /\ monitor[m].place > 0 \/ IsOn(m)
    /\ LET g == Follows[m][monitor[m].place + 1] IN \E result \in {groupSecret[g], ExportFails} :
          monitor' = [monitor EXCEPT ![m].place = @ + 1, ![m].got = result]
    /\ UNCHANGED <<groupSecret, rekeys, unsaid, held, failed>>

\* Its result: a key, for a session that is still there; none, where the device is no member; or
\* some other error, and the key stays.
Install(m) ==
    /\ monitor[m].got # NothingGot
    /\ held' = IF monitor[m].got = 0 \/ (IsOn(m) /\ monitor[m].got # ExportFails)
               THEN [held EXCEPT ![m][GroupAt(m)] = monitor[m].got] ELSE held
    /\ failed' = [failed EXCEPT ![m] = IF monitor[m].got = ExportFails THEN @ \cup {GroupAt(m)} ELSE @ \ {GroupAt(m)}]
    /\ monitor' = [monitor EXCEPT ![m].got = NothingGot]
    /\ UNCHANGED <<groupSecret, rekeys, unsaid>>

\* Done, or disposed of before it began: another derivation or a retry follows.
Derived(m) ==
    /\ monitor[m].deriving /\ monitor[m].got = NothingGot
    /\ monitor[m].place = Len(Follows[m]) \/ (monitor[m].place = 0 /\ ~IsOn(m))
    /\ LET r == [monitor[m] EXCEPT !.deriving = FALSE, !.place = 0]
           complete == KeysComplete(m)
           s == IF complete THEN [r EXCEPT !.attempts = 0, !.timer = FALSE] ELSE r
       IN monitor' = [monitor EXCEPT ![m] =
              IF ~IsOn(m) THEN r
              ELSE IF s.pending THEN [s EXCEPT !.pending = FALSE, !.deriving = TRUE]
              ELSE Scheduled(s, complete)]
    /\ UNCHANGED <<groupSecret, rekeys, unsaid, held, failed>>

\* The hook's cleanup: timers, subscriptions and keys go; what awaits goes on.
Dispose(m) ==
    /\ IsOn(m)
    /\ monitor' = [monitor EXCEPT ![m].at = "disposed", ![m].timer = FALSE]
    /\ held' = [held EXCEPT ![m] = [g \in KeyGroup |-> 0]]
    /\ UNCHANGED <<groupSecret, rekeys, unsaid, failed>>

MonitorNext ==
    \/ \E g \in KeyGroup : GroupMoves(g) \/ Told(g)
    \/ \E m \in Monitor : StartMonitor(m) \/ Suspect(m) \/ NoKeyDrop(m) \/ RetryTimer(m)
                          \/ Export(m) \/ Install(m) \/ Derived(m) \/ Dispose(m)

MonitorSpec == MonitorInit /\ [][MonitorNext]_monitorVars

-----------------------------------------------------------------------------
\* At rest, a session opens with the key its device would export now.
NoRekeyMissed == \A m \in Monitor : IsOn(m) /\ ~monitor[m].deriving =>
    \A g \in GroupsOf(m) \ (unsaid \cup failed[m]) : held[m][g] = groupSecret[g]

\* A session that is gone has no key, whatever was awaited when it went.
DisposedIsKeyless == \A m \in Monitor : monitor[m].at = "disposed" => \A g \in KeyGroup : held[m][g] = 0

\* A session without all its keys asks again, until it has done so unprompted often enough.
KeylessRetries == \A m \in Monitor :
    IsOn(m) /\ ~monitor[m].deriving /\ ~KeysComplete(m) => monitor[m].timer \/ monitor[m].attempts > Unprompted

\* The keys follow the device's groups: a change during a derivation is not lost with it (s.deriving
\* and s.derivePending), one after the session's end gives it no key back, and no session waits in
\* silence for a key nobody fetches.
MonitorFollows == NoRekeyMissed /\ DisposedIsKeyless /\ KeylessRetries
=============================================================================
