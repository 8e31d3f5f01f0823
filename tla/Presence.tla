------------------------------- MODULE Presence -------------------------------
(***************************************************************************)
(* Who the organisation sees in a voice channel: the presence table and map *)
(* of channelController.ts, kept by the calls of CommLink.jsx and by the    *)
(* session_end events the media relay sends to billingConsumer.ts. The      *)
(* handlers await the database between reading, writing and touching the    *)
(* map, and calls of one user overtake each other.                          *)
(***************************************************************************)
EXTENDS Naturals, FiniteSets

CONSTANTS
    Talker,          \* the users
    PresenceChannel,
    MaxCalls,        \* bound on calls under way at once, the heartbeats aside
    PresenceLosses   \* bound on lost calls, bulk moves and restarts

ASSUME PresenceBounds == MaxCalls \in Nat \ {0} /\ PresenceLosses \in Nat /\ 0 \notin PresenceChannel

Nowhere == 0

VARIABLES
    talking,  \* per user: the channel its client is connected to
    row,      \* channel_subscriptions: per user its one channel, and whether it is under 90 s old
    shown,    \* channelPresence: per channel the users in the map
    calls,    \* the calls and sweeps under way, at the step named by pc
    presenceLost

presenceVars == <<talking, row, shown, calls, presenceLost>>

NoPresence == [chan |-> Nowhere, fresh |-> FALSE]
CallOf(op, u, c, pc) == [op |-> op, user |-> u, chan |-> c, from |-> Nowhere, pc |-> pc]
CallSteps == [join |-> {"read", "db", "map"}, ping |-> {"db", "map"}, leave |-> {"db", "map"},
          evict |-> {"db", "map"}, sweep |-> {"map"}, move |-> {"db", "map"}]
AllCalls == {call \in [op : DOMAIN CallSteps, user : Talker, chan : PresenceChannel,
                       from : PresenceChannel \cup {Nowhere}, pc : {"read", "db", "map"}] :
               /\ call.pc \in CallSteps[call.op]
               /\ IF call.op = "move" THEN call.from \notin {Nowhere, call.chan} ELSE call.from = Nowhere}

PresenceTypeOK ==
    /\ talking \in [Talker -> PresenceChannel \cup {Nowhere}]
    /\ row \in [Talker -> [chan : PresenceChannel \cup {Nowhere}, fresh : BOOLEAN]]
    /\ shown \in [PresenceChannel -> SUBSET Talker]
    /\ calls \subseteq AllCalls
    /\ presenceLost \in 0..PresenceLosses

PresenceInit ==
    /\ talking = [u \in Talker |-> Nowhere]
    /\ row = [u \in Talker |-> NoPresence]
    /\ shown = [c \in PresenceChannel |-> {}]
    /\ calls = {}
    /\ presenceLost = 0

Loses == presenceLost < PresenceLosses /\ presenceLost' = presenceLost + 1
Begins(new) == calls' = calls \cup new
            /\ Cardinality({call \in calls' : call.op # "ping"}) <= MaxCalls

-----------------------------------------------------------------------------
\* The client

\* connect(), once the transport is ready.
StartTalking(u, c) ==
    /\ talking[u] = Nowhere
    /\ talking' = [talking EXCEPT ![u] = c]
    /\ Begins({CallOf("join", u, c, "read")})
    /\ UNCHANGED <<row, shown, presenceLost>>

\* The connection ends. disconnect() leaves the presence, unless it keeps it for a retry. The relay
\* reports the session's end, unless a newer session superseded it or the event is lost.
StopTalking(u, ops) ==
    /\ talking[u] # Nowhere
    /\ talking' = [talking EXCEPT ![u] = Nowhere]
    /\ Begins({CallOf(op, u, talking[u], "db") : op \in ops})
    /\ UNCHANGED <<row, shown, presenceLost>>

\* The 20 s heartbeat; the one before has been answered.
Ping(u) ==
    /\ talking[u] # Nowhere
    /\ \A call \in calls : ~(call.op = "ping" /\ call.user = u)
    /\ calls' = calls \cup {CallOf("ping", u, talking[u], "db")}
    /\ UNCHANGED <<talking, row, shown, presenceLost>>

-----------------------------------------------------------------------------
\* The identity node: the steps of one call

To(call, pc) == calls' = (calls \ {call}) \cup {[call EXCEPT !.pc = pc]}
Ends(call) == calls' = calls \ {call}

\* joinChannelPresence: the user leaves the map of the other channel its row names.
JoinReads(call) ==
    /\ call.op = "join" /\ call.pc = "read"
    /\ shown' = [c \in PresenceChannel |->
                   IF c = row[call.user].chan /\ c # call.chan THEN shown[c] \ {call.user} ELSE shown[c]]
    /\ To(call, "db")
    /\ UNCHANGED row

\* The upsert of joinChannelPresence, pingChannelPresence and bulkMoveUsers.
Upserts(call) ==
    /\ call.op \in {"join", "ping", "move"} /\ call.pc = "db"
    /\ row' = [row EXCEPT ![call.user] = [chan |-> call.chan, fresh |-> TRUE]]
    /\ To(call, "map")
    /\ UNCHANGED shown

\* The map set after it; mutant: only a join sets the map.
JoinShows(call) ==
    /\ call.op \in {"join", "ping"} /\ call.pc = "map"
    /\ shown' = IF call.op = "join" THEN [shown EXCEPT ![call.chan] = @ \cup {call.user}] ELSE shown
    /\ Ends(call)
    /\ UNCHANGED row
Shows(call) ==
    /\ call.op \in {"join", "ping"} /\ call.pc = "map"
    /\ shown' = [shown EXCEPT ![call.chan] = @ \cup {call.user}]
    /\ Ends(call)
    /\ UNCHANGED row

\* evictUserPresence: the row only if it names the channel.
Deletes(call) ==
    /\ call.op \in {"leave", "evict"} /\ call.pc = "db"
    /\ row' = IF row[call.user].chan = call.chan THEN [row EXCEPT ![call.user] = NoPresence] ELSE row
    /\ To(call, "map")
    /\ UNCHANGED shown

\* The map delete after it, or after the sweep's.
Hides(call) ==
    /\ call.op \in {"leave", "evict", "sweep"} /\ call.pc = "map"
    /\ shown' = [shown EXCEPT ![call.chan] = @ \ {call.user}]
    /\ Ends(call)
    /\ UNCHANGED row

\* bulkMoveUsers, which found the user in the channel from.
Moves(call) ==
    /\ call.op = "move" /\ call.pc = "map"
    /\ shown' = [shown EXCEPT ![call.from] = @ \ {call.user}, ![call.chan] = @ \cup {call.user}]
    /\ Ends(call)
    /\ UNCHANGED row

Serve(call) ==
    /\ call \in calls
    /\ JoinReads(call) \/ Upserts(call) \/ Shows(call) \/ Deletes(call) \/ Hides(call) \/ Moves(call)
    /\ UNCHANGED <<talking, presenceLost>>

\* A request that fails or never arrives.
LoseCall(call) ==
    /\ call.op # "sweep" /\ call.pc # "map" /\ Loses
    /\ Ends(call)
    /\ UNCHANGED <<talking, row, shown>>

\* 90 s without a heartbeat: the client is not connected to the row's channel.
Age(u) ==
    /\ row[u].fresh /\ talking[u] # row[u].chan
    /\ row' = [row EXCEPT ![u].fresh = FALSE]
    /\ UNCHANGED <<talking, shown, calls, presenceLost>>

\* startPresenceSweeper: DELETE ... RETURNING, then the map.
Sweep(u) ==
    /\ row[u].chan # Nowhere /\ ~row[u].fresh
    /\ row' = [row EXCEPT ![u] = NoPresence]
    /\ Begins({CallOf("sweep", u, row[u].chan, "map")})
    /\ UNCHANGED <<talking, shown, presenceLost>>

\* endOperation moves whoever the table has in a channel of the operation.
BulkMove(u, to) ==
    /\ Loses /\ row[u].chan \notin {Nowhere, to}
    /\ Begins({[CallOf("move", u, to, "db") EXCEPT !.from = row[u].chan]})
    /\ UNCHANGED <<talking, row, shown>>

\* The identity node restarts: seedPresenceFromDb wipes the table, calls under way are gone.
IdentityRestart ==
    /\ Loses
    /\ row' = [u \in Talker |-> NoPresence]
    /\ shown' = [c \in PresenceChannel |-> {}]
    /\ calls' = {}
    /\ UNCHANGED talking

PresenceNext ==
    \/ \E u \in Talker : Ping(u) \/ Age(u) \/ Sweep(u)
    \/ \E u \in Talker, c \in PresenceChannel : StartTalking(u, c) \/ BulkMove(u, c)
    \/ \E u \in Talker, ops \in SUBSET {"leave", "evict"} : StopTalking(u, ops)
    \/ \E call \in calls : Serve(call) \/ LoseCall(call)
    \/ IdentityRestart

PresenceSpec == PresenceInit /\ [][PresenceNext]_presenceVars

\* A call that arrived is served, and the heartbeat timer of a connected client fires. Nobody has
\* to connect or to stop.
PresenceFair(task) == IF task[1] = "ping" THEN Ping(task[2]) ELSE Serve(task[2])
PresenceTasks == ({"ping"} \X Talker) \cup ({"call"} \X AllCalls)

-----------------------------------------------------------------------------
\* A user that stays connected to a channel ends up shown there for good, whatever late leave,
\* session_end, sweep, bulk move or restart was still to come: the heartbeat puts back what they
\* removed.
PresenceHeals == \A u \in Talker, c \in PresenceChannel :
    []<>(talking[u] # c) \/ <>[](u \in shown[c])

\* Once nothing is under way, a user is shown only in the channel its row names.
ShownWhereSubscribed == calls = {} =>
    \A u \in Talker, c \in PresenceChannel : u \in shown[c] => row[u].chan = c
=============================================================================
