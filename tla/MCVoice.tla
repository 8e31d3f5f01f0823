------------------------------- MODULE MCVoice --------------------------------
(***************************************************************************)
(* Voice, from the relay's rooms and shares to the receivers' keys, its     *)
(* metering, the chat beside it and the operations that make its channels,  *)
(* on small instances. A behaviour is of one component, its part; the       *)
(* others stay in their initial state. What a component is told by another  *)
(* (a session_end event) it may be told at any time. A screen share is      *)
(* checked in two parts: sessions that follow one another, and viewers of   *)
(* one session.                                                             *)
(***************************************************************************)
EXTENDS VoiceRooms, RelayAudio, ChatSync, Billing, OpLaunch, SignUps,
        VideoShare, PrioritySpeech, TLC

CONSTANTS n1, n2   \* a channel and the one below it

\* The event tree.
EventTree == n1 :> NoNet @@ n2 :> n1
\* In chat, each device is on an account of its own.
OwnAccount == [d \in Device |-> d]

VARIABLE part

mediaVars == <<videoVars, speechVars>>
otherVars == <<voiceVars, relayVars, chatVars, billingVars, opVars, signupVars>>
allVars == <<part, otherVars, mediaVars>>

FirstViewer == CHOOSE v \in Viewer : TRUE
FirstPilot == CHOOSE u \in Pilot : TRUE

\* A share whose setup is over; no viewer can have come before, one may be the first to watch.
VideoLive ==
    /\ share = [s \in Share |-> IF s > 1 THEN NoShare ELSE
          [NoShare EXCEPT !.user = CHOOSE u \in Sharer : TRUE, !.at = "live", !.done = 5, !.overlay = "announced"]]
    /\ maps = [u \in Sharer |-> [m \in VideoMap |->
          IF share[1].user = u /\ m \in {SetUp[i] : i \in 1..5} THEN 1 ELSE 0]]
    /\ out = [s \in Share |-> <<>>]
    /\ viewers \in 0..1 /\ watchers = [s \in Share |-> IF s > 1 THEN 0 ELSE viewers]
    /\ view = [v \in Viewer |-> IF viewers = 0 \/ v # FirstViewer THEN NoView ELSE
          [NoView EXCEPT !.user = share[1].user, !.at = "watching", !.of = 1, !.next = 1]]

MCInit ==
    /\ part \in {"rooms", "relay", "chat", "billing", "operation", "signups",
                "reconnects", "watches", "speech"}
    /\ VoiceInit /\ RelayInit /\ ChatInit /\ BillingInit /\ OpInit /\ SignUpInit
    /\ \/ VideoInit /\ part # "watches"
       \/ VideoLive /\ (part = "watches" \/ (part = "reconnects" /\ viewers = 0))
    /\ SpeechInit
    /\ part # "billing" => provider = "dev"
    /\ part # "operation" => freqs = {}
    /\ part # "signups" => \A s \in Squad : hulls[s] = 0 /\ \A r \in RoleName : mode[s][r] = "open"

RoomsPart == VoiceNext /\ UNCHANGED <<relayVars, chatVars, billingVars, opVars, signupVars, mediaVars>>
RelayPart == RelayNext /\ UNCHANGED <<voiceVars, chatVars, billingVars, opVars, signupVars, mediaVars>>
\* No device has more than two decrypts to do, and one request for a catch-up is open.
ChatPart ==
    /\ ChatNext
    /\ \A d \in Device : Len(chain'[d]) <= 2
    /\ Cardinality(asking') + Cardinality(UNION Range(asked')) <= 1
    /\ UNCHANGED <<voiceVars, relayVars, billingVars, opVars, signupVars, mediaVars>>
BillingPart == BillingNext /\ UNCHANGED <<voiceVars, relayVars, chatVars, opVars, signupVars, mediaVars>>
OpPart == OpNext /\ UNCHANGED <<voiceVars, relayVars, chatVars, billingVars, signupVars, mediaVars>>
\* Of the pilots one claims the hull, and that one also brings the ship with a reserved seat.
SignUpPart ==
    /\ SignUpNext
    /\ \A u \in Pilot \ {FirstPilot} : joining'[u].locked = 0 /\ \A s \in Squad : u \notin Range(claim'[s])
    /\ UNCHANGED <<voiceVars, relayVars, chatVars, billingVars, opVars, mediaVars>>

\* What was sent is of no account here but for the end, and there are no viewers.
ReconnectsPart ==
    /\ VideoNext /\ view' = view
    /\ \A s \in Share : out'[s] \in {<<>>, <<"end">>} /\ share'[s].at # "cached"
    /\ UNCHANGED <<otherVars, speechVars>>
\* One session, whose overlay is of no account; of the viewers all but one are only counted.
WatchesPart ==
    /\ VideoNext
    /\ \A s \in Share : (s > 1 => share'[s].at = "none") /\ share'[s].overlay \in {"none", "announced", "over"}
    /\ \A v \in Viewer \ {FirstViewer} : view'[v].last = 0 /\ ~view'[v].resync
    /\ UNCHANGED <<otherVars, speechVars>>
SpeechPart == SpeechNext /\ UNCHANGED <<otherVars, videoVars>>

MCNext ==
    /\ part' = part
    /\ \/ part = "rooms" /\ RoomsPart
       \/ part = "relay" /\ RelayPart
       \/ part = "chat" /\ ChatPart
       \/ part = "billing" /\ BillingPart
       \/ part = "operation" /\ OpPart
       \/ part = "signups" /\ SignUpPart
       \/ part = "reconnects" /\ ReconnectsPart
       \/ part = "watches" /\ WatchesPart
       \/ part = "speech" /\ SpeechPart

MCSpec == MCInit /\ [][MCNext]_allVars

\* Every component's variables stay within their types.
AllTypeOK ==
    /\ VoiceTypeOK /\ RelayTypeOK /\ ChatTypeOK /\ BillingTypeOK /\ OpTypeOK /\ SignUpTypeOK
    /\ VideoTypeOK /\ SpeechTypeOK
=============================================================================
