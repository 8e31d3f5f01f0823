------------------------------ MODULE VoiceLink ------------------------------
(***************************************************************************)
(* One CommLink: its connection to the relay, the timers that make it anew, *)
(* and the key it seals with (CommLink.jsx). A step runs from one await to  *)
(* the next. A closed transport is noticed before any of the timers, 600 ms *)
(* and more, is due.                                                        *)
(***************************************************************************)
EXTENDS Naturals

CONSTANTS
    Tunable,      \* the channels
    NoTune,       \* no channel
    MaxReconnects   \* MAX_AUTO_RECONNECT_ATTEMPTS (8)

ASSUME LinkBounds == NoTune \notin Tunable /\ MaxReconnects \in Nat

VARIABLES
    mounted,      \* the component is
    intentional,  \* intentionalDisconnectRef
    tuned,        \* channelRef.current.id
    waits,        \* the timers to connect: "reconnect", and "moved" after a Move
    attempt,      \* reconnectAttemptRef
    gated,        \* voiceGateError: the server wants a newer client
    dial,         \* where the connect() under way is
    line,         \* transportRef: "opening" also when it never opened
    closed,       \* a transport has closed and its monitorClosure has not run
    ping,         \* a presence ping is in flight
    sealOf,       \* the channel of the key in relayAudioTxRef
    sealFor,      \* audioKeyChannelRef
    retry,        \* voiceKeyRetryRef's timer
    tries,        \* the channels of its calls in flight (one of each is enough)
    refreshes     \* the refreshAudioKey calls in flight (likewise)

callVars == <<mounted, intentional, tuned, waits, attempt, gated, dial, line, closed, ping>>
sealVars == <<sealOf, sealFor, retry, tries, refreshes>>
linkVars == <<callVars, sealVars>>

LinkTypeOK ==
    /\ {mounted, intentional, gated, closed, ping, retry} \subseteq BOOLEAN
    /\ tuned \in Tunable /\ waits \subseteq {"reconnect", "moved"} /\ attempt \in 0..MaxReconnects
    /\ dial \in {"none", "group", "event", "ticket", "ready"} /\ line \in {"none", "opening", "up"}
    /\ {sealOf, sealFor} \subseteq Tunable \cup {NoTune}
    /\ tries \subseteq Tunable /\ refreshes \subseteq [of : Tunable, at : {"key", "cascade"}]

\* Mounted for a channel; the auto-connect has fired.
LinkInit ==
    /\ mounted = TRUE /\ intentional = FALSE /\ tuned \in Tunable
    /\ waits = {} /\ attempt = 0 /\ gated = FALSE
    /\ dial = "group" /\ line = "none" /\ closed = FALSE /\ ping = FALSE
    /\ sealOf = NoTune /\ sealFor = NoTune /\ retry = FALSE /\ tries = {} /\ refreshes = {}

\* The gate of the send path and of the retry: the key at hand is for the channel at hand.
HasKey(of, for) == of # NoTune /\ for = tuned

\* scheduleVoiceKeyRetry, with the key there is then.
ScheduleVoiceKeyRetry(of, for, timer) == retry' = (timer \/ ~(HasKey(of, for) \/ intentional))

\* scheduleReconnect.
ScheduleReconnect ==
    IF intentional \/ attempt = MaxReconnects THEN UNCHANGED <<attempt, waits>>
    ELSE attempt' = attempt + 1 /\ waits' = waits \cup {"reconnect"}

\* disconnect: a transport that was open will be seen to close.
Disconnects == line' = "none" /\ closed' = (closed \/ line = "up")

-----------------------------------------------------------------------------
(* connect, up to its first await; the key of another channel is dropped. *)
Connects ==
    /\ intentional' = FALSE /\ gated' = FALSE /\ dial' = "group"
    /\ IF sealFor = tuned THEN UNCHANGED <<sealOf, sealFor>> ELSE sealOf' = NoTune /\ sealFor' = NoTune
    /\ UNCHANGED <<mounted, tuned, attempt, line, closed, ping, retry, tries, refreshes>>

MoveDue == "moved" \in waits /\ ~closed /\ waits' = {} /\ Connects

ReconnectDue ==
    /\ "reconnect" \in waits /\ ~closed
    /\ waits' = waits \ {"reconnect"}
    /\ IF intentional
       THEN UNCHANGED <<mounted, intentional, tuned, attempt, gated, dial, line, closed, ping, sealVars>>
       ELSE Connects

\* The channel's key is derived, or it is not, and the one there may be stays.
GroupDone ==
    /\ dial = "group" /\ dial' = "event"
    /\ \/ sealOf' = tuned /\ sealFor' = tuned
       \/ UNCHANGED <<sealOf, sealFor>>
    /\ UNCHANGED <<mounted, intentional, tuned, waits, attempt, gated, line, closed, ping, retry, tries, refreshes>>

EventDone ==
    /\ dial = "event" /\ dial' = "ticket"
    /\ ScheduleVoiceKeyRetry(sealOf, sealFor, retry)
    /\ UNCHANGED <<mounted, intentional, tuned, waits, attempt, gated, line, closed, ping,
                   sealOf, sealFor, tries, refreshes>>

\* The ticket opens a transport; or this client is too old for one.
TicketDone ==
    /\ dial = "ticket"
    /\ \/ dial' = "ready" /\ line' = "opening" /\ gated' = gated
       \/ dial' = "none" /\ gated' = TRUE /\ line' = line
    /\ UNCHANGED <<mounted, intentional, tuned, waits, attempt, closed, ping, sealVars>>

Ready ==
    /\ dial = "ready" /\ line = "opening"
    /\ dial' = "none" /\ line' = "up" /\ attempt' = 0
    /\ UNCHANGED <<mounted, intentional, tuned, waits, gated, closed, ping, sealVars>>

\* Mutant of CallFails: only a transport that was up is made anew.
CallIsOver ==
    /\ dial \in {"ticket", "ready"} /\ dial' = "none"
    /\ UNCHANGED <<mounted, intentional, tuned, waits, attempt, gated, line, closed, ping, sealVars>>

\* No ticket, or the transport does not open: no monitorClosure will see to it.
CallFails ==
    /\ dial \in {"ticket", "ready"} /\ dial' = "none"
    /\ ScheduleReconnect
    /\ UNCHANGED <<mounted, intentional, tuned, gated, line, closed, ping, sealVars>>

-----------------------------------------------------------------------------
(* What ends a connection. *)
LineDrops ==
    /\ line = "up" /\ ~closed /\ closed' = TRUE
    /\ UNCHANGED <<mounted, intentional, tuned, waits, attempt, gated, dial, line, ping, sealVars>>

MonitorClosure ==
    /\ closed /\ closed' = FALSE /\ line' = "none"
    /\ ScheduleReconnect
    /\ UNCHANGED <<mounted, intentional, tuned, gated, dial, ping, sealVars>>

\* An admin moves the user.
Move(c) ==
    /\ line = "up" /\ c # tuned
    /\ tuned' = c /\ intentional' = TRUE /\ Disconnects
    /\ waits' = waits \cup {"moved"}
    /\ UNCHANGED <<mounted, attempt, gated, dial, ping, sealVars>>

\* The presence ping; a channel that is gone ends the connection there is by then.
PresencePing ==
    /\ \/ line = "up" /\ ~ping /\ ping' = TRUE /\ UNCHANGED <<line, closed>>
       \/ ping /\ ping' = FALSE /\ UNCHANGED <<line, closed>>
       \/ ping /\ ping' = FALSE /\ Disconnects
    /\ UNCHANGED <<mounted, intentional, tuned, waits, attempt, gated, dial, sealVars>>

\* The channel is left.
Unmount ==
    /\ mounted /\ mounted' = FALSE /\ intentional' = TRUE /\ Disconnects
    /\ waits' = waits \ {"reconnect"}
    /\ retry' = FALSE /\ sealOf' = NoTune
    /\ UNCHANGED <<tuned, attempt, gated, dial, ping, sealFor, tries, refreshes>>

-----------------------------------------------------------------------------
(* The key. *)
RetryDue ==
    /\ retry /\ retry' = FALSE
    /\ tries' = IF intentional THEN tries ELSE tries \cup {tuned}
    /\ UNCHANGED <<callVars, sealOf, sealFor, refreshes>>

RetryDone(c) ==
    /\ c \in tries /\ tries' = tries \ {c}
    /\ \/ c = tuned /\ sealOf' = c /\ sealFor' = c
       \/ UNCHANGED <<sealOf, sealFor>>
    /\ ScheduleVoiceKeyRetry(sealOf', sealFor', retry)
    /\ UNCHANGED <<callVars, refreshes>>

\* A roster change, a commit or a failed decryption starts a refresh.
Refresh ==
    /\ mounted /\ refreshes' = refreshes \cup {[of |-> tuned, at |-> "key"]}
    /\ UNCHANGED <<callVars, sealOf, sealFor, retry, tries>>

\* The channel's key is exported; moved meanwhile, the call ends there. Where the device is no
\* member, what key there is now goes.
RefreshKey(c) ==
    LET r == [of |-> c, at |-> "key"]  goesOn == (refreshes \ {r}) \cup {[r EXCEPT !.at = "cascade"]} IN
    /\ r \in refreshes
    /\ \/ c # tuned /\ refreshes' = refreshes \ {r} /\ UNCHANGED <<sealOf, sealFor>>
       \/ c = tuned /\ refreshes' = goesOn /\ sealOf' = c /\ sealFor' = c
       \/ refreshes' = goesOn /\ sealOf' = NoTune /\ sealFor' = NoTune
       \/ refreshes' = goesOn /\ UNCHANGED <<sealOf, sealFor>>
    /\ UNCHANGED <<callVars, retry, tries>>

\* However the refresh went, a key that is not there is asked for.
RefreshDone(c) ==
    /\ [of |-> c, at |-> "cascade"] \in refreshes
    /\ refreshes' = refreshes \ {[of |-> c, at |-> "cascade"]}
    /\ ScheduleVoiceKeyRetry(sealOf, sealFor, retry)
    /\ UNCHANGED <<callVars, sealOf, sealFor, tries>>

\* A frame from the microphone: without a key it is dropped and the retry is seen to.
Talk ==
    /\ mounted /\ ~HasKey(sealOf, sealFor)
    /\ ScheduleVoiceKeyRetry(sealOf, sealFor, retry)
    /\ UNCHANGED <<callVars, sealOf, sealFor, tries, refreshes>>

LinkNext ==
    \/ MoveDue \/ ReconnectDue \/ GroupDone \/ EventDone \/ TicketDone \/ Ready \/ CallFails
    \/ LineDrops \/ MonitorClosure \/ PresencePing \/ Unmount
    \/ RetryDue \/ Refresh \/ Talk
    \/ \E c \in Tunable : Move(c) \/ RetryDone(c) \/ RefreshKey(c) \/ RefreshDone(c)

LinkSpec == LinkInit /\ [][LinkNext]_linkVars

-----------------------------------------------------------------------------
\* A CommLink that is not connected is about to be, unless it is gated or has given up.
NeverStranded ==
    mounted /\ dial = "none" /\ waits = {} /\ ~closed /\ line # "up" => gated \/ attempt = MaxReconnects

\* No two connects overlap: a timer to connect runs only where none is under way and nothing is up.
OneDial == waits # {} => dial = "none" /\ (line = "up" => closed) /\ waits # {"reconnect", "moved"}

\* Connected without a key, the device asks for it again.
KeylessIsRetried ==
    mounted /\ line = "up" /\ ~closed /\ ~HasKey(sealOf, sealFor)
        => retry \/ tries # {} \/ \E r \in refreshes : r.at = "cascade"

\* Whatever was in flight across a Move, a frame that passes the gate is sealed with the key of the
\* channel it is for.
SealsForItsChannel == HasKey(sealOf, sealFor) => sealOf = tuned

\* The connection and the key look after themselves: connect, Move, the closing of the transport,
\* the reconnect timer, the key's retries and its refreshes, in any order.
LinkSound == NeverStranded /\ OneDial /\ KeylessIsRetried /\ SealsForItsChannel

\* What the teardown is for (CommLink.jsx:4258): a CommLink that is gone is not connected.
NoOrphan == ~mounted /\ dial = "none" => line # "up"
=============================================================================
