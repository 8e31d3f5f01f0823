--------------------------- MODULE PrioritySpeech ---------------------------
(***************************************************************************)
(* Priority speakers at the media relay: who holds a room and the rooms     *)
(* below it, when that ends, and what the listeners are told (main.rs,      *)
(* relay rooms). A user is in one room; a room without members does not     *)
(* exist. Of the 1500 ms of hangover only their end is modelled.            *)
(***************************************************************************)
EXTENDS Naturals, FiniteSets

CONSTANTS
    Crew,        \* the users
    Commander,   \* those whose tickets make them priority speakers
    Net,         \* the channels
    ParentOf     \* the event tree: each channel's parent, or NoNet
CONSTANT NoNet, NoOne

ASSUME SpeechSets == Commander \subseteq Crew /\ NoOne \notin Crew /\ NoNet \notin Net
ASSUME SpeechTree == ParentOf \in [Net -> Net \cup {NoNet}]

VARIABLES
    inNet,    \* the room each user is a member of
    holder,   \* per room priority_speaker
    timer,    \* per room priority_release_at: "none", "set", "due"
    muted,    \* the users whose gain in their room is 0.0
    told      \* per user the speaker its client has been told to duck the others for

speechVars == <<inNet, holder, timer, muted, told>>

SpeechTypeOK ==
    /\ inNet \in [Crew -> Net \cup {NoNet}]
    /\ holder \in [Net -> Crew \cup {NoOne}]
    /\ timer \in [Net -> {"none", "set", "due"}]
    /\ muted \subseteq Crew
    /\ told \in [Crew -> Crew \cup {NoOne}]

SpeechInit ==
    /\ inNet = [u \in Crew |-> NoNet]
    /\ holder = [n \in Net |-> NoOne]
    /\ timer = [n \in Net |-> "none"]
    /\ muted = {}
    /\ told = [u \in Crew |-> NoOne]

\* get_descendants: what is below a channel, however deep.
Above[k \in Nat] == IF k = 0 THEN [n \in Net |-> {ParentOf[n]}]
                    ELSE [n \in Net |-> Above[k - 1][n] \cup {ParentOf[m] : m \in Above[k - 1][n] \cap Net}]
Ancestors(n) == Above[Cardinality(Net)][n] \ {NoNet}
Descendants(n) == {m \in Net : n \in Ancestors(m)}

InNet(n) == {u \in Crew : inNet[u] = n}

-----------------------------------------------------------------------------
\* A user joins, or joins its room once more in a session that supersedes its earlier one. Its
\* gain is 1.0 again either way; of a duck under way it is not told.
JoinNet(u, n) ==
    /\ inNet[u] \in {NoNet, n}
    /\ inNet' = [inNet EXCEPT ![u] = n]
    /\ muted' = muted \ {u}
    /\ UNCHANGED <<holder, timer, told>>

\* The cleanup of the user's last session. A room whose last member leaves is removed; one whose
\* speaker leaves is free again.
LeaveNet(u) == LET n == inNet[u] IN
    /\ n # NoNet
    /\ inNet' = [inNet EXCEPT ![u] = NoNet]
    /\ muted' = muted \ {u}
    /\ IF holder[n] = u \/ InNet(n) = {u}
       THEN holder' = [holder EXCEPT ![n] = NoOne] /\ timer' = [timer EXCEPT ![n] = "none"]
       ELSE UNCHANGED <<holder, timer>>
    /\ UNCHANGED told

\* CommLink is mounted anew for another channel, which forgets what it was told.
Remount(u) ==
    /\ inNet[u] = NoNet /\ told[u] # NoOne
    /\ told' = [told EXCEPT ![u] = NoOne]
    /\ UNCHANGED <<inNet, holder, timer, muted>>

\* The "mute" and "unmute" commands.
MuteSpeaker(u) ==
    /\ inNet[u] # NoNet
    /\ muted' \in {muted \cup {u}, muted \ {u}}
    /\ UNCHANGED <<inNet, holder, timer, told>>

\* Mutant of MaySpeak: the room is the last one's who talked.
MayAlwaysSpeak(u, n) == TRUE
\* First past the post, locked until release.
MaySpeak(u, n) == holder[n] \in {NoOne, u}

\* A frame of a priority speaker: it holds its room and all rooms below, whoever held those; the
\* listeners are told when its own room was free before.
CommandFrame(u) == LET n == inNet[u]
                reached == {m \in {n} \cup Descendants(n) : InNet(m) # {}} IN
    /\ u \in Commander /\ n # NoNet /\ u \notin muted
    /\ MaySpeak(u, n)
    /\ holder' = [m \in Net |-> IF m \in reached THEN u ELSE holder[m]]
    /\ timer' = [m \in Net |-> IF m \in reached THEN "set" ELSE timer[m]]
    /\ told' = IF holder[n] = NoOne
               THEN [v \in Crew |-> IF inNet[v] \in reached THEN u ELSE told[v]] ELSE told
    /\ UNCHANGED <<inNet, muted>>

\* 1500 ms without a frame of u that counted.
Hangover(u) ==
    /\ \E n \in Net : holder[n] = u /\ timer[n] = "set"
    /\ timer' = [n \in Net |-> IF holder[n] = u /\ timer[n] = "set" THEN "due" ELSE timer[n]]
    /\ UNCHANGED <<inNet, holder, muted, told>>

\* duck_release_sweeper, each room's at its own 250 ms.
SweepNet(n) ==
    /\ timer[n] = "due"
    /\ holder' = [holder EXCEPT ![n] = NoOne]
    /\ timer' = [timer EXCEPT ![n] = "none"]
    /\ told' = [v \in Crew |-> IF inNet[v] = n THEN NoOne ELSE told[v]]
    /\ UNCHANGED <<inNet, muted>>

SpeechNext ==
    \/ \E u \in Crew : LeaveNet(u) \/ Remount(u) \/ MuteSpeaker(u) \/ CommandFrame(u) \/ Hangover(u)
                       \/ \E n \in Net : JoinNet(u, n)
    \/ \E n \in Net : SweepNet(n)

SpeechSpec == SpeechInit /\ [][SpeechNext]_speechVars

-----------------------------------------------------------------------------
\* First past the post, locked until release: a room passes from one priority speaker to another
\* without having been free only by command from above, and then all of the room is the commander's.
FirstPastThePost == [][\A n \in Net : LET u == holder'[n] IN
    holder[n] # NoOne /\ u \notin {NoOne, holder[n]} => inNet[u] \in Ancestors(n)]_speechVars

\* A listener told to duck is in a room whose sweeper will tell it of the end.
DuckEnds == \A u \in Crew : inNet[u] # NoNet /\ told[u] # NoOne => timer[inNet[u]] # "none"
=============================================================================
