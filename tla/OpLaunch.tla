------------------------------- MODULE OpLaunch -------------------------------
(***************************************************************************)
(* An operation's channels in eventsController.ts: launching makes a tree   *)
(* of them, ending schedules their deletion, and the planner's saves add    *)
(* frequencies. Each request reads the event before the statements that     *)
(* rely on what it read.                                                    *)
(***************************************************************************)
EXTENDS Naturals, FiniteSets

CONSTANTS
    OpRequest,    \* the requests under way at once
    OpGroup,      \* the event's groups
    OpFreq,       \* the frequencies it may have
    MaxChannels   \* bound on channels made

ASSUME OpBounds == MaxChannels \in Nat /\ IsFiniteSet(OpGroup) /\ IsFiniteSet(OpFreq)

VARIABLES
    launched, command,  \* the event's row; a channel is its number in the order of creation
    groupChan,    \* event_groups.channel_id (0: none)
    freqs,        \* event_frequencies
    freqChan,     \* event_frequencies.channel_id (0: none)
    channels,     \* the channels with this event_id
    made,         \* how many were ever made
    request,      \* per request: the step it has reached and what it has read
    timers        \* the channels each pending setTimeout is to delete

eventVars == <<launched, command, groupChan, freqs, freqChan>>
opVars == <<eventVars, channels, made, request, timers>>

Chan == 1..MaxChannels
Steps == [at : {"idle", "launching", "ending", "listed", "moving", "saving"},
          launched : BOOLEAN, ids : SUBSET Chan, debrief : SUBSET Chan]
NoRequest == [at |-> "idle", launched |-> FALSE, ids |-> {}, debrief |-> {}]

OpTypeOK ==
    /\ launched \in BOOLEAN /\ command \in 0..MaxChannels
    /\ groupChan \in [OpGroup -> 0..MaxChannels]
    /\ freqs \subseteq OpFreq /\ freqChan \in [OpFreq -> 0..MaxChannels]
    /\ channels \subseteq Chan /\ made \in 0..MaxChannels
    /\ request \in [OpRequest -> Steps]
    /\ timers \subseteq SUBSET Chan

OpInit ==
    /\ launched = FALSE /\ command = 0
    /\ groupChan = [g \in OpGroup |-> 0]
    /\ freqs \in SUBSET OpFreq /\ freqChan = [f \in OpFreq |-> 0]
    /\ channels = {} /\ made = 0
    /\ request = [r \in OpRequest |-> NoRequest]
    /\ timers = {}

At(r, step) == request[r].at = step
Goes(r, new) == request' = [request EXCEPT ![r] = new]

\* n channels are made: the next n numbers. The k-th of them is made + k.
Makes(n) == made + n <= MaxChannels /\ made' = made + n

\* launchEvent: not launched yet, ...
Launch(r) ==
    /\ At(r, "idle") /\ ~launched
    /\ Goes(r, [NoRequest EXCEPT !.at = "launching"])
    /\ UNCHANGED <<eventVars, channels, made, timers>>

\* ... then one transaction: the command channel, one for each group and each frequency.
CommitLaunch(r) ==
    /\ At(r, "launching") /\ Makes(1 + Cardinality(OpGroup) + Cardinality(freqs))
    /\ channels' = channels \cup ((made + 1)..made')
    /\ \E order \in [OpGroup \cup freqs -> (made + 2)..made'] :
          /\ \A x, y \in OpGroup \cup freqs : x # y => order[x] # order[y]
          /\ groupChan' = [g \in OpGroup |-> order[g]]
          /\ freqChan' = [f \in OpFreq |-> IF f \in freqs THEN order[f] ELSE 0]
    /\ launched' = TRUE /\ command' = made + 1
    /\ Goes(r, NoRequest)
    /\ UNCHANGED <<freqs, timers>>

\* endOperation: launched, ...
End(r) ==
    /\ At(r, "idle") /\ launched
    /\ Goes(r, [NoRequest EXCEPT !.at = "ending"])
    /\ UNCHANGED <<eventVars, channels, made, timers>>

\* ... its channels listed, ...
ListChannels(r) ==
    /\ At(r, "ending")
    /\ Goes(r, [request[r] EXCEPT !.at = "listed", !.ids = channels])
    /\ UNCHANGED <<eventVars, channels, made, timers>>

\* ... a debrief channel made, or the lobby looked up, and everyone moved there, ...
MoveOut(r) ==
    /\ At(r, "listed")
    /\ \/ /\ Makes(1) /\ channels' = channels \cup {made'}
          /\ Goes(r, [request[r] EXCEPT !.at = "moving", !.debrief = {made'}])
       \/ Goes(r, [request[r] EXCEPT !.at = "moving"]) /\ UNCHANGED <<channels, made>>
    /\ UNCHANGED <<eventVars, timers>>

\* ... the flag cleared and the deletions scheduled.
Ended(r) ==
    /\ At(r, "moving")
    /\ launched' = FALSE
    /\ timers' = timers \cup ({request[r].ids, request[r].debrief} \ {{}})
    /\ Goes(r, NoRequest)
    /\ UNCHANGED <<command, groupChan, freqs, freqChan, channels, made>>

\* A timer: after 8 s the channels that were listed, after 45 min the debrief channel.
\* Mutant of Doomed: the channels the event has by then.
DoomedByThen(t) == channels
Doomed(t) == t

Fire(t) ==
    /\ timers' = timers \ {t}
    /\ channels' = channels \ Doomed(t)
    /\ UNCHANGED <<eventVars, made, request>>

\* saveEventGroups reads the event, ...
SaveFreqs(r) ==
    /\ At(r, "idle")
    /\ Goes(r, [NoRequest EXCEPT !.at = "saving", !.launched = launched /\ command # 0])
    /\ UNCHANGED <<eventVars, channels, made, timers>>

\* ... and in a transaction removes a frequency, or adds one, with a channel if the event was
\* launched when read.
CommitFreqs(r) == \E f \in OpFreq :
    /\ At(r, "saving") /\ Goes(r, NoRequest)
    /\ freqs' = IF f \in freqs THEN freqs \ {f} ELSE freqs \cup {f}
    /\ IF f \notin freqs /\ request[r].launched
       THEN /\ Makes(1) /\ channels' = channels \cup {made'}
            /\ freqChan' = [freqChan EXCEPT ![f] = made']
       ELSE freqChan' = [freqChan EXCEPT ![f] = 0] /\ UNCHANGED <<channels, made>>
    /\ UNCHANGED <<launched, command, groupChan, timers>>

\* The identity node restarts: requests and timers are gone.
OpRestart ==
    /\ request' = [r \in OpRequest |-> NoRequest] /\ timers' = {}
    /\ UNCHANGED <<eventVars, channels, made>>

OpNext ==
    \/ \E r \in OpRequest : \/ Launch(r) \/ CommitLaunch(r) \/ End(r) \/ ListChannels(r) \/ MoveOut(r) \/ Ended(r)
                            \/ SaveFreqs(r) \/ CommitFreqs(r)
    \/ \E t \in timers : Fire(t)
    \/ OpRestart

OpSpec == OpInit /\ [][OpNext]_opVars

-----------------------------------------------------------------------------
\* A running operation keeps its command and group channels, however often it was launched, ended
\* and launched again: no deletion an earlier end scheduled reaches them.
RunningKeepsChannels == launched =>
    command \in channels /\ \A g \in OpGroup : groupChan[g] \in channels
=============================================================================
