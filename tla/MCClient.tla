------------------------------- MODULE MCClient -------------------------------
(***************************************************************************)
(* The desktop client's session with the server, its link to the relay and  *)
(* its presence in the channels, the keys of its monitors, and the memory   *)
(* between its MLS calls and the store, on small instances. A behaviour is  *)
(* of one of them, its part; the others stay in their initial state. What   *)
(* presence is told of the link it may be told at any time.                 *)
(***************************************************************************)
EXTENDS AuthSession, MlsPersist, Presence, VoiceLink, MonitorKeys, TLC

CONSTANTS m1, k1, k2   \* a monitor, and the groups of its channel and its event

MonitorGroups == m1 :> <<k1, k2>>

VARIABLE part

allVars == <<part, authVars, persistVars, presenceVars, linkVars, monitorVars>>

MCInit ==
    /\ part \in {"auth", "persist", "presence", "link", "monitors"}
    /\ AuthInit /\ PersistInit /\ PresenceInit /\ LinkInit /\ MonitorInit
    /\ part # "link" => tuned = CHOOSE c \in Tunable : TRUE
    \* The account signed in at first may be new; the other has used this device.
    /\ \A a \in Account \ {First} : disk[a] = NoState <=> part # "persist"
    /\ part # "persist" => disk[First] = NoState

AuthPart == AuthNext /\ UNCHANGED <<persistVars, presenceVars, linkVars, monitorVars>>
PersistPart == PersistNext /\ UNCHANGED <<authVars, presenceVars, linkVars, monitorVars>>
PresencePart == PresenceNext /\ UNCHANGED <<authVars, persistVars, linkVars, monitorVars>>
LinkPart == LinkNext /\ UNCHANGED <<authVars, persistVars, presenceVars, monitorVars>>
MonitorPart == MonitorNext /\ UNCHANGED <<authVars, persistVars, presenceVars, linkVars>>

MCNext ==
    /\ part' = part
    /\ \/ part = "auth" /\ AuthPart
       \/ part = "persist" /\ PersistPart
       \/ part = "presence" /\ PresencePart
       \/ part = "link" /\ LinkPart
       \/ part = "monitors" /\ MonitorPart

MCSpec ==
    /\ MCInit /\ [][MCNext]_allVars
    /\ \A task \in AuthTasks : WF_authVars(part = "auth" /\ AuthFair(task))
    /\ \A task \in PersistTasks : WF_persistVars(part = "persist" /\ PersistFair(task))
    /\ \A task \in PresenceTasks : WF_presenceVars(part = "presence" /\ PresenceFair(task))
=============================================================================
