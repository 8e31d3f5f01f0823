---------------------------- MODULE IdentityProofs ----------------------------
(***************************************************************************)
(* The identity node's rows, for any number of requests, users and bounds.  *)
(* OpLaunch: a running operation keeps its channels. SignUps: who signed up *)
(* stays signed up. Billing: each succeeded contribution is in the pool     *)
(* once, and no usage is lost within a cycle. Presence: its types.          *)
(***************************************************************************)
EXTENDS OpLaunch, SignUps, Billing, Presence, FiniteSetTheorems, TLAPS

-----------------------------------------------------------------------------
(* Operations and sign-ups.                                                 *)

\* Whatever is numbered was made.
Numbered ==
    /\ channels \subseteq 1..made
    /\ \A t \in timers : t \subseteq 1..made
    /\ \A r \in OpRequest : request[r].ids \subseteq 1..made /\ request[r].debrief \subseteq 1..made

\* No timer is set for a channel of the running operation.
NotDoomed == launched => \A t \in timers : command \notin t /\ \A g \in OpGroup : groupChan[g] \notin t

OpInv == OpTypeOK /\ Numbered /\ RunningKeepsChannels /\ NotDoomed

\* Nothing is launched.
LEMMA OpInitially == OpInit => OpInv
<1> SUFFICES ASSUME OpInit PROVE OpInv
    OBVIOUS
<1>1. 0 \in 0..MaxChannels
    BY OpBounds
<1>2. NoRequest \in Steps /\ NoRequest.ids = {} /\ NoRequest.debrief = {}
    BY DEF NoRequest, Steps
<1>3. OpTypeOK
    BY <1>1, <1>2 DEF OpInit, OpTypeOK
<1> QED
    BY <1>2, <1>3 DEF OpInit, OpInv, Numbered, RunningKeepsChannels, NotDoomed

\* What a step must show when one request takes another record and channels are only made.
LEMMA RequestMoves ==
    ASSUME OpInv, NEW r \in OpRequest, NEW new \in Steps, Goes(r, new),
           made' \in made..MaxChannels, channels' \subseteq 1..made', timers' = timers,
           new.ids \subseteq 1..made', new.debrief \subseteq 1..made'
    PROVE  /\ request' \in [OpRequest -> Steps] /\ channels' \subseteq Chan
           /\ made' \in 0..MaxChannels /\ timers' \subseteq SUBSET Chan /\ Numbered'
<1>1. made \in Nat /\ made' \in Nat /\ made <= made' /\ made' <= MaxChannels /\ 1..made \subseteq 1..made'
      /\ 1..made' \subseteq Chan
    BY OpBounds DEF OpInv, OpTypeOK, Chan
<1>2. request' \in [OpRequest -> Steps] /\ \A q \in OpRequest : request'[q] = IF q = r THEN new ELSE request[q]
    BY DEF Goes, OpInv, OpTypeOK
<1>3. \A q \in OpRequest : request'[q].ids \subseteq 1..made' /\ request'[q].debrief \subseteq 1..made'
    BY <1>1, <1>2 DEF OpInv, Numbered
<1>4. \A t \in timers' : t \subseteq 1..made'
    BY <1>1 DEF OpInv, Numbered
<1> QED
    BY <1>1, <1>2, <1>3, <1>4 DEF OpInv, OpTypeOK, Numbered

\* The channels of a launch: as many as it makes, all of them new.
LEMMA LaunchIsNumbered ==
    ASSUME OpInv, Makes(1 + Cardinality(OpGroup) + Cardinality(freqs))
    PROVE  made' \in (made + 1)..MaxChannels /\ made \in Nat
<1>1. IsFiniteSet(freqs)
    BY OpBounds, FS_Subset DEF OpInv, OpTypeOK
<1>2. Cardinality(OpGroup) \in Nat /\ Cardinality(freqs) \in Nat
    BY <1>1, OpBounds, FS_CardinalityType
<1> QED
    BY <1>2, OpBounds DEF Makes, OpInv, OpTypeOK

LEMMA CommitLaunchKeeps ==
    ASSUME OpInv, NEW r \in OpRequest, CommitLaunch(r)
    PROVE  OpInv'
<1>0. /\ Makes(1 + Cardinality(OpGroup) + Cardinality(freqs))
      /\ channels' = channels \cup ((made + 1)..made')
      /\ launched' = TRUE /\ command' = made + 1
      /\ Goes(r, NoRequest) /\ UNCHANGED <<freqs, timers>>
    BY DEF CommitLaunch
<1>1. PICK order \in [OpGroup \cup freqs -> (made + 2)..made'] :
         /\ groupChan' = [g \in OpGroup |-> order[g]]
         /\ freqChan' = [f \in OpFreq |-> IF f \in freqs THEN order[f] ELSE 0]
    BY DEF CommitLaunch
<1>2. made' \in (made + 1)..MaxChannels /\ made \in Nat
    BY <1>0, LaunchIsNumbered
<1>3. \A g \in OpGroup : groupChan'[g] \in (made + 2)..made'
    BY <1>1
<1>4. \A f \in OpFreq : freqChan'[f] \in 0..MaxChannels
    BY <1>1, <1>2, OpBounds
<1>5. OpTypeOK' /\ Numbered'
    <2>1. groupChan' \in [OpGroup -> 0..MaxChannels] /\ freqChan' \in [OpFreq -> 0..MaxChannels]
        BY <1>1, <1>2, <1>3, <1>4, OpBounds
    <2>2. command' \in 0..MaxChannels /\ channels' \subseteq 1..made' /\ made' \in made..MaxChannels
        <3>1. channels \subseteq 1..made
            BY DEF OpInv, Numbered
        <3> QED
            BY <1>0, <1>2, <3>1, OpBounds
    <2>3. NoRequest \in Steps /\ NoRequest.ids = {} /\ NoRequest.debrief = {}
        BY DEF NoRequest, Steps
    <2>4. /\ request' \in [OpRequest -> Steps] /\ channels' \subseteq Chan
          /\ made' \in 0..MaxChannels /\ timers' \subseteq SUBSET Chan /\ Numbered'
        BY <1>0, <2>2, <2>3, RequestMoves
    <2> QED
        BY <1>0, <2>1, <2>2, <2>4 DEF OpInv, OpTypeOK
<1>6. RunningKeepsChannels'
    BY <1>0, <1>2, <1>3 DEF RunningKeepsChannels
<1>7. NotDoomed'
    BY <1>0, <1>2, <1>3 DEF NotDoomed, OpInv, Numbered
<1> QED
    BY <1>5, <1>6, <1>7 DEF OpInv

\* Launch, End, ListChannels and SaveFreqs: only a request's record changes.
LEMMA ReadKeeps ==
    ASSUME OpInv, NEW r \in OpRequest, Launch(r) \/ End(r) \/ ListChannels(r) \/ SaveFreqs(r)
    PROVE  OpInv'
<1>0. request[r] \in Steps /\ channels \in SUBSET Chan /\ channels \subseteq 1..made
      /\ request[r].debrief \subseteq 1..made
    BY DEF OpInv, OpTypeOK, Numbered
<1>1. PICK new \in Steps : Goes(r, new) /\ new.ids \subseteq 1..made /\ new.debrief \subseteq 1..made
    <2>1. CASE Launch(r)
        <3> DEFINE new == [NoRequest EXCEPT !.at = "launching"]
        <3>1. new \in Steps /\ new.ids = {} /\ new.debrief = {}
            BY <1>0 DEF NoRequest, Steps
        <3>2. Goes(r, new)
            BY <2>1 DEF Launch
        <3> HIDE DEF new
        <3> QED
            BY <3>1, <3>2, <1>0
    <2>2. CASE End(r)
        <3> DEFINE new == [NoRequest EXCEPT !.at = "ending"]
        <3>1. new \in Steps /\ new.ids = {} /\ new.debrief = {}
            BY <1>0 DEF NoRequest, Steps
        <3>2. Goes(r, new)
            BY <2>2 DEF End
        <3> HIDE DEF new
        <3> QED
            BY <3>1, <3>2, <1>0
    <2>3. CASE SaveFreqs(r)
        <3> DEFINE new == [NoRequest EXCEPT !.at = "saving", !.launched = launched /\ command # 0]
        <3>1. new \in Steps /\ new.ids = {} /\ new.debrief = {}
            BY <1>0 DEF NoRequest, Steps
        <3>2. Goes(r, new)
            BY <2>3 DEF SaveFreqs
        <3> HIDE DEF new
        <3> QED
            BY <3>1, <3>2, <1>0
    <2>4. CASE ListChannels(r)
        <3> DEFINE new == [request[r] EXCEPT !.at = "listed", !.ids = channels]
        <3>1. new \in Steps /\ new.ids = channels /\ new.debrief = request[r].debrief
            BY <1>0 DEF NoRequest, Steps
        <3>2. Goes(r, new)
            BY <2>4 DEF ListChannels
        <3> HIDE DEF new
        <3> QED
            BY <3>1, <3>2, <1>0
    <2> QED
        BY <2>1, <2>2, <2>3, <2>4
<1>2. UNCHANGED <<eventVars, channels, made, timers>>
    BY DEF Launch, End, SaveFreqs, ListChannels
<1>3. made' \in made..MaxChannels /\ channels' \subseteq 1..made'
    BY <1>2, OpBounds DEF OpInv, OpTypeOK, Numbered
<1>4. request' \in [OpRequest -> Steps] /\ Numbered'
    BY <1>1, <1>2, <1>3, RequestMoves
<1> QED
    BY <1>2, <1>4 DEF eventVars, OpInv, OpTypeOK, NotDoomed, RunningKeepsChannels

\* MoveOut: a channel may be made; nothing is deleted.
LEMMA MoveOutKeeps ==
    ASSUME OpInv, NEW r \in OpRequest, MoveOut(r)
    PROVE  OpInv'
<1>1. /\ UNCHANGED eventVars /\ timers' = timers
      /\ \/ made' = made /\ channels' = channels
         \/ made' = made + 1 /\ made' <= MaxChannels /\ channels' = channels \cup {made'}
    BY DEF MoveOut, Makes
<1>0. made \in Nat /\ made <= MaxChannels /\ channels \subseteq 1..made /\ request[r] \in Steps
      /\ request[r].ids \subseteq 1..made /\ request[r].debrief \subseteq 1..made
    BY OpBounds DEF OpInv, OpTypeOK, Numbered
<1>2. made' \in made..MaxChannels /\ channels' \subseteq 1..made' /\ 1..made \subseteq 1..made'
    <2>1. CASE made' = made /\ channels' = channels
        BY <2>1, <1>0, OpBounds
    <2>2. CASE made' = made + 1 /\ made' <= MaxChannels /\ channels' = channels \cup {made'}
        <3>1. made \in Nat /\ made' \in made..MaxChannels
            BY ONLY <1>0, <2>2, OpBounds
        <3>2. 1..made \subseteq 1..made' /\ made' \in 1..made'
            BY ONLY <2>2, <3>1, OpBounds
        <3> QED
            BY ONLY <1>0, <2>2, <3>1, <3>2
    <2> QED
        BY <1>1, <2>1, <2>2
<1>3. PICK new \in Steps : Goes(r, new) /\ new.ids \subseteq 1..made' /\ new.debrief \subseteq 1..made'
    <2>1. CASE Goes(r, [request[r] EXCEPT !.at = "moving"])
        <3> DEFINE new == [request[r] EXCEPT !.at = "moving"]
        <3>1. new \in Steps /\ new.ids = request[r].ids /\ new.debrief = request[r].debrief
            BY <1>0 DEF Steps
        <3> HIDE DEF new
        <3>2. new.ids \subseteq 1..made' /\ new.debrief \subseteq 1..made'
            BY <3>1, <1>0, <1>2
        <3>3. Goes(r, new)
            BY <2>1 DEF new
        <3> QED
            BY <3>1, <3>2, <3>3
    <2>2. CASE Makes(1) /\ Goes(r, [request[r] EXCEPT !.at = "moving", !.debrief = {made'}])
        <3> DEFINE new == [request[r] EXCEPT !.at = "moving", !.debrief = {made'}]
        <3>1. made' \in Chan /\ made' \in 1..made'
            BY <2>2, <1>0, OpBounds DEF Makes, Chan
        <3>2. {made'} \in SUBSET Chan /\ {made'} \subseteq 1..made'
            BY <3>1
        <3>3. new \in Steps /\ new.ids = request[r].ids /\ new.debrief = {made'}
            BY <1>0, <3>2 DEF Steps
        <3> HIDE DEF new
        <3>4. new.ids \subseteq 1..made' /\ new.debrief \subseteq 1..made'
            BY <3>3, <3>2, <1>0, <1>2
        <3>5. Goes(r, new)
            BY <2>2 DEF new
        <3> QED
            BY <3>3, <3>4, <3>5
    <2> QED
        BY <2>1, <2>2 DEF MoveOut
<1>4. /\ request' \in [OpRequest -> Steps] /\ channels' \subseteq Chan
      /\ made' \in 0..MaxChannels /\ timers' \subseteq SUBSET Chan /\ Numbered'
    BY <1>1, <1>2, <1>3, RequestMoves
<1> QED
    BY <1>1, <1>4 DEF eventVars, OpInv, OpTypeOK, NotDoomed, RunningKeepsChannels

\* Ended: the event is no longer launched, so its timers may name whatever was listed.
LEMMA EndedKeeps ==
    ASSUME OpInv, NEW r \in OpRequest, Ended(r)
    PROVE  OpInv'
<1>1. request[r] \in Steps /\ request[r].ids \subseteq 1..made /\ request[r].debrief \subseteq 1..made
    BY DEF OpInv, OpTypeOK, Numbered
<1>2. timers' \subseteq SUBSET Chan /\ \A t \in timers' : t \subseteq 1..made
    <2>1. timers' = timers \cup ({request[r].ids, request[r].debrief} \ {{}})
        BY DEF Ended
    <2>2. timers \subseteq SUBSET Chan /\ \A t \in timers : t \subseteq 1..made
        BY DEF OpInv, OpTypeOK, Numbered
    <2>3. request[r].ids \subseteq Chan /\ request[r].debrief \subseteq Chan
        BY ONLY <1>1 DEF Steps
    <2> QED
        BY ONLY <1>1, <2>1, <2>2, <2>3
<1>3. NoRequest \in Steps /\ NoRequest.ids = {} /\ NoRequest.debrief = {}
    BY DEF NoRequest, Steps
<1>4. request' \in [OpRequest -> Steps]
      /\ \A q \in OpRequest : request'[q].ids \subseteq 1..made /\ request'[q].debrief \subseteq 1..made
    BY <1>3 DEF Ended, Goes, OpInv, OpTypeOK, Numbered
<1>5. launched' = FALSE /\ UNCHANGED <<command, groupChan, freqs, freqChan, channels, made>>
    BY DEF Ended
<1>6. OpTypeOK' /\ Numbered'
    BY <1>2, <1>4, <1>5 DEF OpInv, OpTypeOK, Numbered
<1> QED
    BY <1>5, <1>6 DEF OpInv, RunningKeepsChannels, NotDoomed

\* CommitFreqs: a frequency's channel may be made; the command and group channels stay.
LEMMA CommitFreqsKeeps ==
    ASSUME OpInv, NEW r \in OpRequest, CommitFreqs(r)
    PROVE  OpInv'
<1>1. PICK f \in OpFreq :
         /\ freqs' = IF f \in freqs THEN freqs \ {f} ELSE freqs \cup {f}
         /\ \/ Makes(1) /\ channels' = channels \cup {made'} /\ freqChan' = [freqChan EXCEPT ![f] = made']
            \/ freqChan' = [freqChan EXCEPT ![f] = 0] /\ UNCHANGED <<channels, made>>
    BY DEF CommitFreqs
<1>2. UNCHANGED <<launched, command, groupChan, timers>> /\ Goes(r, NoRequest)
    BY DEF CommitFreqs
<1>3. made \in Nat /\ channels \subseteq 1..made /\ made <= MaxChannels
    BY OpBounds DEF OpInv, OpTypeOK, Numbered
<1>4. made' \in made..MaxChannels /\ channels' \subseteq 1..made' /\ channels \subseteq channels'
    <2>1. CASE Makes(1) /\ channels' = channels \cup {made'}
        BY <2>1, <1>3, OpBounds DEF Makes
    <2>2. CASE UNCHANGED <<channels, made>>
        BY <2>2, <1>3, OpBounds
    <2> QED
        BY <1>1, <2>1, <2>2
<1>5. freqs' \subseteq OpFreq /\ freqChan' \in [OpFreq -> 0..MaxChannels]
    <2>1. made' \in 0..MaxChannels /\ 0 \in 0..MaxChannels
        BY <1>3, <1>4, OpBounds
    <2> QED
        BY <1>1, <2>1 DEF OpInv, OpTypeOK
<1>6. NoRequest \in Steps /\ NoRequest.ids = {} /\ NoRequest.debrief = {}
    BY DEF NoRequest, Steps
<1>7. /\ request' \in [OpRequest -> Steps] /\ channels' \subseteq Chan
      /\ made' \in 0..MaxChannels /\ timers' \subseteq SUBSET Chan /\ Numbered'
    BY <1>2, <1>4, <1>6, RequestMoves
<1> QED
    BY <1>2, <1>4, <1>5, <1>7 DEF OpInv, OpTypeOK, NotDoomed, RunningKeepsChannels

\* A timer deletes channels that the running operation does not have; a restart forgets timers.
LEMMA FireKeeps ==
    ASSUME OpInv, NEW t \in timers, Fire(t)
    PROVE  OpInv'
BY DEF Fire, Doomed, eventVars, OpInv, OpTypeOK, Numbered, NotDoomed, RunningKeepsChannels

LEMMA OpRestartKeeps ==
    ASSUME OpInv, OpRestart
    PROVE  OpInv'
<1>1. NoRequest \in Steps /\ NoRequest.ids = {} /\ NoRequest.debrief = {}
    BY DEF NoRequest, Steps
<1> QED
    BY <1>1 DEF OpRestart, eventVars, OpInv, OpTypeOK, Numbered, NotDoomed, RunningKeepsChannels

\* The invariant of the operation's channels holds in every state.
THEOREM OpInvariance == OpSpec => []OpInv
<1>1. ASSUME OpInv, [OpNext]_opVars PROVE OpInv'
    <2>1. CASE UNCHANGED opVars
        BY <1>1, <2>1 DEF opVars, eventVars, OpInv, OpTypeOK, Numbered, NotDoomed, RunningKeepsChannels
    <2> QED
        BY <1>1, <2>1, CommitLaunchKeeps, ReadKeeps, MoveOutKeeps, EndedKeeps, CommitFreqsKeeps, FireKeeps,
           OpRestartKeeps DEF OpNext
<1> QED
    BY <1>1, OpInitially, PTL DEF OpSpec

\* No deletion that an earlier end scheduled reaches a channel of the running operation.
THEOREM RunningKeepsChannelsAlways == OpSpec => []RunningKeepsChannels
<1>1. OpInv => RunningKeepsChannels
    BY DEF OpInv
<1> QED
    BY <1>1, OpInvariance, PTL
-----------------------------------------------------------------------------
\* What SignUpsSurvive rests on: the rows and the joins under way have their types.
SignInv ==
    /\ squads \subseteq Squad /\ member \in [Squad -> [Pilot -> MemberRow]]
    /\ joining \in [Pilot -> JoinUnderWay] /\ own \subseteq Squad \X Pilot
    /\ SignUpsSurvive

LEMMA StatusIsIn == \A r : StatusOf(r) \in {"accepted", "pending"}
BY DEF StatusOf

LEMMA OutIsRow == Out \in MemberRow /\ Out.status = "out"
BY DEF Out, MemberRow

LEMMA SignInitially == SignUpInit => SignInv
<1>1. NoJoin \in JoinUnderWay
    BY DEF NoJoin, JoinUnderWay
<1> QED
    BY <1>1, OutIsRow DEF SignUpInit, SignInv, SignUpsSurvive

\* One row changes: the user enters own only with a row, and may leave it with any.
LEMMA OneRow ==
    ASSUME SignInv, NEW s \in Squad, NEW u \in Pilot, NEW sign \in MemberRow,
           member' = [member EXCEPT ![s][u] = sign], squads' = squads, joining' \in [Pilot -> JoinUnderWay],
           \/ own' = own \ {<<s, u>>}
           \/ own' \in {own, own \cup {<<s, u>>}} /\ sign.status # "out"
    PROVE  SignInv'
<1>1. /\ member' \in [Squad -> [Pilot -> MemberRow]]
      /\ \A t \in Squad, v \in Pilot : member'[t][v] = IF t = s /\ v = u THEN sign ELSE member[t][v]
    BY DEF SignInv
<1>2. \A t \in Squad, v \in Pilot : <<t, v>> \in own' => IsIn(t, v)'
    BY <1>1 DEF SignInv, SignUpsSurvive, IsIn
<1> QED
    BY <1>1, <1>2 DEF SignInv, SignUpsSurvive

\* The rows stay.
LEMMA RowsStay ==
    ASSUME SignInv, UNCHANGED <<squads, member, own>>, joining' \in [Pilot -> JoinUnderWay]
    PROVE  SignInv'
BY DEF SignInv, SignUpsSurvive, IsIn

LEMMA JoinRoleKeeps ==
    ASSUME SignInv, NEW s \in Squad, NEW u \in Pilot, NEW r \in RoleName, JoinRole(s, u, r)
    PROVE  SignInv'
<1>1. PICK j \in JoinUnderWay : joining' = [joining EXCEPT ![u] = j]
    <2>1. PICK locked \in {0, 1}, has \in BOOLEAN :
             joining' = [joining EXCEPT ![u] = [squad |-> s, role |-> IF has THEN r ELSE "none",
                                                locked |-> IF has /\ hulls[s] > 0 THEN locked ELSE 0]]
        BY DEF JoinRole
    <2> DEFINE j == [squad |-> s, role |-> IF has THEN r ELSE "none",
                     locked |-> IF has /\ hulls[s] > 0 THEN locked ELSE 0]
    <2>2. j \in JoinUnderWay
        BY DEF JoinUnderWay
    <2> QED
        BY <2>1, <2>2
<1>2. joining' \in [Pilot -> JoinUnderWay]
    BY <1>1 DEF SignInv
<1> QED
    BY <1>2, RowsStay DEF JoinRole

LEMMA JoinWritesKeeps ==
    ASSUME SignInv, NEW u \in Pilot, JoinWrites(u)
    PROVE  SignInv'
<1> DEFINE j == joining[u]
           s == j.squad
<1>1. j \in JoinUnderWay /\ s \in Squad
    BY DEF JoinWrites, SignInv
<1>2. joining' \in [Pilot -> JoinUnderWay]
    BY DEF JoinWrites, NoJoin, JoinUnderWay, SignInv
<1>3. squads' = squads
    BY DEF JoinWrites
<1>4. CASE UNCHANGED <<member, own>>
    BY <1>2, <1>3, <1>4, RowsStay
<1>5. CASE \E locks \in {0, j.locked} :
              /\ member' = [member EXCEPT ![s][u] =
                     [role |-> j.role, held |-> locks,
                      status |-> IF j.role = "none" THEN "accepted" ELSE StatusOf(j.role)]]
              /\ own' = own \cup {<<s, u>>}
    <2>1. PICK locks \in {0, j.locked} :
              /\ member' = [member EXCEPT ![s][u] =
                     [role |-> j.role, held |-> locks,
                      status |-> IF j.role = "none" THEN "accepted" ELSE StatusOf(j.role)]]
              /\ own' = own \cup {<<s, u>>}
        BY <1>5
    <2> DEFINE sign == [role |-> j.role, held |-> locks,
                       status |-> IF j.role = "none" THEN "accepted" ELSE StatusOf(j.role)]
    <2>2. sign \in MemberRow /\ sign.status # "out"
        BY <1>1, StatusIsIn DEF JoinUnderWay, MemberRow
    <2> HIDE DEF sign, j, s
    <2> QED
        BY <1>1, <1>2, <1>3, <2>1, <2>2, OneRow DEF sign
<1> QED
    BY <1>4, <1>5 DEF JoinWrites

LEMMA QuickJoinKeeps ==
    ASSUME SignInv, NEW u \in Pilot, QuickJoin(u)
    PROVE  SignInv'
<1>1. \A r \in RoleName : LET sign == [role |-> r, status |-> StatusOf(r), held |-> 0]
                          IN sign \in MemberRow /\ sign.status # "out"
    BY StatusIsIn DEF MemberRow
<1>2. LET sign == [Out EXCEPT !.status = "accepted"] IN sign \in MemberRow /\ sign.status # "out"
    BY DEF Out, MemberRow
<1>3. squads' = squads /\ joining' \in [Pilot -> JoinUnderWay]
    BY DEF QuickJoin, SignInv
<1>4. PICK s \in Squad, sign \in MemberRow :
         sign.status # "out" /\ member' = [member EXCEPT ![s][u] = sign] /\ own' = own \cup {<<s, u>>}
    BY <1>1, <1>2 DEF QuickJoin, SignInv
<1> QED
    BY <1>3, <1>4, OneRow

\* joinEventGroup and the approvals keep the row and give it a status; the others take it away.
LEMMA StatusKeeps ==
    ASSUME SignInv, NEW s \in Squad, NEW u \in Pilot, JoinGroup(s, u) \/ Approve(s, u)
    PROVE  SignInv'
<1> DEFINE sign == [member[s][u] EXCEPT !.status = "accepted"]
<1>0. member[s][u] \in MemberRow
    BY DEF SignInv
<1>1. sign \in MemberRow /\ sign.status # "out"
    BY <1>0 DEF MemberRow
<1>2. /\ member' = [member EXCEPT ![s][u] = sign] /\ own' \in {own, own \cup {<<s, u>>}}
      /\ squads' = squads /\ joining' \in [Pilot -> JoinUnderWay]
    BY DEF JoinGroup, Approve, SignInv
<1> HIDE DEF sign
<1> QED
    BY <1>1, <1>2, OneRow

LEMMA LeaveKeeps ==
    ASSUME SignInv, NEW s \in Squad, NEW u \in Pilot, Leave(s, u) \/ Removed(s, u) \/ Unclaim(s, u)
    PROVE  SignInv'
<1>1. squads' = squads /\ joining' \in [Pilot -> JoinUnderWay]
    BY DEF Leave, Removed, Unclaim, SignInv
<1>2. \/ UNCHANGED <<member, own>>
      \/ member' = [member EXCEPT ![s][u] = Out] /\ own' = own \ {<<s, u>>}
    BY DEF Leave, Removed, Unclaim
<1> QED
    BY <1>1, <1>2, OneRow, RowsStay, OutIsRow

LEMMA ClaimKeeps ==
    ASSUME SignInv, NEW s \in Squad, NEW u \in Pilot, NEW i \in Slot, Claim(s, u, i)
    PROVE  SignInv'
<1> DEFINE sign == [role |-> "pilot", status |-> StatusOf("pilot"), held |-> 0]
<1>1. sign \in MemberRow /\ sign.status # "out"
    BY StatusIsIn DEF MemberRow, RoleName
<1>2. squads' = squads /\ joining' \in [Pilot -> JoinUnderWay]
    BY DEF Claim, SignInv
<1>3. \/ UNCHANGED <<member, own>>
      \/ member' = [member EXCEPT ![s][u] = sign] /\ own' = own \cup {<<s, u>>}
    BY DEF Claim
<1> HIDE DEF sign
<1> QED
    BY <1>1, <1>2, <1>3, OneRow, RowsStay

LEMMA EveryRowKeeps ==
    ASSUME SignInv, NEW u \in Pilot, LeaveAll(u) \/ \E status \in {"accepted", "declined"} : Respond(u, status)
    PROVE  SignInv'
<1>1. CASE LeaveAll(u)
    <2>1. /\ member' \in [Squad -> [Pilot -> MemberRow]] /\ own' \subseteq own
          /\ \A s \in Squad, v \in Pilot : v # u => member'[s][v] = member[s][v]
          /\ \A s \in Squad : <<s, u>> \notin own'
        BY <1>1, OutIsRow DEF LeaveAll, SignInv
    <2> QED
        BY <1>1, <2>1 DEF LeaveAll, SignInv, SignUpsSurvive, IsIn
<1>2. ASSUME NEW status \in {"accepted", "declined"}, Respond(u, status) PROVE SignInv'
    <2>1. \A s \in Squad : LET sign == [member[s][u] EXCEPT !.status = status]
                           IN sign \in MemberRow /\ sign.status = status
        <3>1. \A s \in Squad : member[s][u] \in MemberRow
            BY DEF SignInv
        <3> QED
            BY <3>1 DEF MemberRow
    <2>2. member' = [s \in Squad |-> IF IsIn(s, u) THEN [member[s] EXCEPT ![u].status = status] ELSE member[s]]
        BY <1>2 DEF Respond
    <2>3. /\ member' \in [Squad -> [Pilot -> MemberRow]]
          /\ \A s \in Squad, v \in Pilot : member'[s][v].status \in {member[s][v].status, status}
        BY <2>1, <2>2 DEF SignInv
    <2> QED
        BY <1>2, <2>3 DEF Respond, SignInv, SignUpsSurvive, IsIn
<1> QED
    BY <1>1, <1>2

\* A role's pass over a row keeps it in, unless the row has that role and the role is direct.
LEMMA PassKeeps ==
    ASSUME NEW sign \in MemberRow, NEW u, NEW r \in RoleName, NEW to, NEW assigned
    PROVE  /\ Pass(sign, u, r, to, assigned) \in MemberRow
           /\ sign.status # "out" /\ ~(sign.role = r /\ to = "direct") =>
                 Pass(sign, u, r, to, assigned).status # "out"
           /\ Pass(sign, u, r, to, assigned).role \in {sign.role, r, "none"}
<1>1. LET new == [sign EXCEPT !.role = r, !.status = "pending"]
      IN new \in MemberRow /\ new.status # "out" /\ new.role = r
    BY DEF MemberRow
<1>2. LET new == [sign EXCEPT !.role = "none"]
      IN new \in MemberRow /\ new.status = sign.status /\ new.role = "none"
    BY DEF MemberRow
<1>3. Out \in MemberRow /\ Out.role = "none"
    BY DEF Out, MemberRow
<1> QED
    BY <1>1, <1>2, <1>3 DEF Pass, UnlinksRole

LEMMA SaveKeeps ==
    ASSUME SignInv, Save
    PROVE  SignInv'
<1>1. PICK s \in squads, n \in 0..MaxHulls, to \in [RoleName -> {"open", "direct", "gone"}],
           assigned \in [RoleName -> Pilot \cup {NoPilot}] : SaveGroup(s, n, to, assigned)
    BY DEF Save
<1>2. "pilot" \in RoleName /\ "crew" \in RoleName /\ s \in Squad
    BY <1>1 DEF RoleName, SignInv
<1> DEFINE kept(u) == IF Stale(s, u, n) THEN Out ELSE member[s][u]
           first(u) == Pass(kept(u), u, "pilot", to["pilot"], assigned["pilot"])
           sign(u) == Pass(first(u), u, "crew", to["crew"], assigned["crew"])
<1>3. \A u \in Pilot : kept(u) \in MemberRow
    BY <1>2, OutIsRow DEF SignInv
<1>4. \A u \in Pilot : sign(u) \in MemberRow
    BY <1>2, <1>3, PassKeeps
<1>5. /\ member' = [member EXCEPT ![s] = [u \in Pilot |-> sign(u)]]
      /\ own' = own \ {<<s, u>> : u \in {v \in Pilot :
                   Stale(s, v, n) \/ \E r \in RoleName : member[s][v].role = r /\ to[r] = "direct"}}
      /\ UNCHANGED <<squads, joining>>
    BY <1>1 DEF SaveGroup
<1>6. ASSUME NEW u \in Pilot, <<s, u>> \in own' PROVE sign(u).status # "out"
    <2>1. ~Stale(s, u, n) /\ \A r \in RoleName : ~(member[s][u].role = r /\ to[r] = "direct")
        BY <1>5, <1>6
    <2>2. kept(u) = member[s][u] /\ kept(u).status # "out"
        BY <1>2, <1>5, <1>6, <2>1 DEF SignInv, SignUpsSurvive, IsIn
    <2>3. first(u) \in MemberRow /\ first(u).status # "out" /\ first(u).role \in {kept(u).role, "pilot", "none"}
        BY <1>2, <1>3, <2>1, <2>2, PassKeeps
    <2>4. ~(first(u).role = "crew" /\ to["crew"] = "direct")
        BY <1>2, <2>1, <2>2, <2>3
    <2> HIDE DEF first
    <2> QED
        BY <1>2, <2>3, <2>4, PassKeeps
<1> HIDE DEF sign
<1>7. /\ member' \in [Squad -> [Pilot -> MemberRow]]
      /\ \A t \in Squad, v \in Pilot : member'[t][v] = IF t = s THEN sign(v) ELSE member[t][v]
    BY <1>2, <1>4, <1>5 DEF SignInv
<1>8. own' \subseteq own
    BY <1>5
<1>9. \A t \in Squad, v \in Pilot : <<t, v>> \in own' => IsIn(t, v)'
    BY <1>6, <1>7, <1>8 DEF SignInv, SignUpsSurvive, IsIn
<1> QED
    BY <1>5, <1>7, <1>8, <1>9 DEF SignInv, SignUpsSurvive

LEMMA DropGroupKeeps ==
    ASSUME SignInv, NEW s \in Squad, DropGroup(s)
    PROVE  SignInv'
<1>1. /\ member' \in [Squad -> [Pilot -> MemberRow]] /\ own' \subseteq own
      /\ \A t \in Squad : t # s => member'[t] = member[t]
      /\ \A u \in Pilot : <<s, u>> \notin own'
    BY OutIsRow DEF DropGroup, SignInv
<1> QED
    BY <1>1 DEF DropGroup, SignInv, SignUpsSurvive, IsIn

\* The rows of those who signed up are there in every state.
THEOREM SignUpInvariance == SignUpSpec => []SignInv
<1>1. ASSUME SignInv, [SignUpNext]_signupVars PROVE SignInv'
    <2>1. CASE UNCHANGED signupVars
        BY <1>1, <2>1 DEF signupVars, SignInv, SignUpsSurvive, IsIn
    <2>2. ASSUME NEW u \in Pilot, JoinFails(u) PROVE SignInv'
        <3>1. joining' \in [Pilot -> JoinUnderWay]
            BY <1>1, <2>2 DEF JoinFails, NoJoin, JoinUnderWay, SignInv
        <3> QED
            BY <1>1, <2>2, <3>1, RowsStay DEF JoinFails
    <2>3. ASSUME NEW s \in Squad, NEW u \in Pilot, BeginRemoval(s, u) PROVE SignInv'
        BY <1>1, <2>3, RowsStay DEF BeginRemoval, SignInv
    <2> QED
        BY <1>1, <2>1, <2>2, <2>3, JoinRoleKeeps, JoinWritesKeeps, QuickJoinKeeps, StatusKeeps, LeaveKeeps,
           ClaimKeeps, EveryRowKeeps, SaveKeeps, DropGroupKeeps DEF SignUpNext
<1> QED
    BY <1>1, SignInitially, PTL DEF SignUpSpec

\* Who signed up stays signed up, for any users, groups, hulls and saves.
THEOREM SignUpsSurviveAlways == SignUpSpec => []SignUpsSurvive
<1>1. SignInv => SignUpsSurvive
    BY DEF SignInv
<1> QED
    BY <1>1, SignUpInvariance, PTL

-----------------------------------------------------------------------------
(* Billing.                                                                 *)

\* An event is about a session that was opened for a contribution.
HooksAreOfCheckouts ==
    /\ \A k \in Checkout : checkout[k].state # "none" => checkout[k].of \in Contribution
    /\ \A e \in hooks : checkout[e.checkout].state # "none"

BillingInv == BillingTypeOK /\ HooksAreOfCheckouts /\ CreditedOnce

\* Nothing is contributed, paid or counted yet.
LEMMA BillingInitially == BillingInit => BillingInv
<1> SUFFICES ASSUME BillingInit PROVE BillingInv
    OBVIOUS
<1>1. BillingTypeOK
    BY BillingBounds DEF BillingInit, BillingTypeOK, NoReading
<1>2. HooksAreOfCheckouts /\ CreditedOnce
    BY DEF BillingInit, HooksAreOfCheckouts, CreditedOnce, Is
<1> QED
    BY <1>1, <1>2 DEF BillingInv

\* creditContribution credits a pending row once and leaves every other alone.
LEMMA CreditKeeps ==
    ASSUME BillingInv, NEW c \in Contribution, Credit(c, contribution)
    PROVE  /\ contribution' \in [Contribution -> [status : {"none", "pending", "succeeded", "failed", "canceled"},
                                                  invoice : BOOLEAN]]
           /\ pool' \in [Contribution -> Nat]
           /\ CreditedOnce'
<1>1. /\ contribution \in [Contribution -> [status : {"none", "pending", "succeeded", "failed", "canceled"},
                                            invoice : BOOLEAN]]
      /\ pool \in [Contribution -> Nat] /\ CreditedOnce
    BY DEF BillingInv, BillingTypeOK
<1>2. CASE Is(c, "pending")
    <2>1. contribution' = [contribution EXCEPT ![c].status = "succeeded"] /\ pool' = [pool EXCEPT ![c] = @ + 1]
        BY <1>2 DEF Credit, Creditable
    <2>2. contribution[c].status = "pending" /\ pool[c] = 0
        BY <1>1, <1>2 DEF CreditedOnce, Is
    <2>3. pool' \in [Contribution -> Nat] /\ pool'[c] = 1 /\ \A d \in Contribution \ {c} : pool'[d] = pool[d]
        BY ONLY <1>1, <2>1, <2>2, c \in Contribution
    <2>4. /\ contribution' \in [Contribution -> [status : {"none", "pending", "succeeded", "failed", "canceled"},
                                                 invoice : BOOLEAN]]
          /\ contribution'[c].status = "succeeded" /\ \A d \in Contribution \ {c} : contribution'[d] = contribution[d]
        BY ONLY <1>1, <2>1, c \in Contribution
    <2> QED
        BY ONLY <1>1, <2>3, <2>4 DEF CreditedOnce, Is
<1>3. CASE ~Is(c, "pending")
    BY <1>1, <1>3 DEF Credit, Creditable, CreditedOnce, Is
<1> QED
    BY <1>2, <1>3

\* markContributionFailed leaves a credited row alone.
LEMMA MarkFailedKeeps ==
    ASSUME BillingInv, NEW c \in Contribution, NEW status \in {"failed", "canceled"}, MarkFailed(c, status)
    PROVE  /\ contribution' \in [Contribution -> [status : {"none", "pending", "succeeded", "failed", "canceled"},
                                                  invoice : BOOLEAN]]
           /\ CreditedOnce'
BY DEF BillingInv, BillingTypeOK, CreditedOnce, MarkFailed, Is

\* Stripe's createCheckout opens a session and credits nothing.
LEMMA SessionOpens ==
    ASSUME BillingInv, NEW c \in Contribution, NEW rows, CreateCheckout(c, rows), provider = "stripe"
    PROVE  /\ contribution' = rows /\ pool' = pool
           /\ checkout' \in [Checkout -> [of : 0..MaxContributions, state : {"none", "open", "paid", "expired"}]]
           /\ \A k \in Checkout : checkout'[k].state # "none" => checkout'[k].of \in Contribution
           /\ \A k \in Checkout : checkout[k].state # "none" => checkout'[k].state # "none"
<1>1. PICK k \in Checkout : checkout' = [checkout EXCEPT ![k] = [of |-> c, state |-> "open"]]
    BY DEF CreateCheckout
<1>2. c \in 0..MaxContributions
    BY DEF Contribution
<1> QED
    BY <1>1, <1>2 DEF CreateCheckout, BillingInv, BillingTypeOK, HooksAreOfCheckouts

\* The pool's actions.
LEMMA PoolStep ==
    ASSUME BillingInv,
           \/ \E c \in Contribution : Contribute(c) \/ IssueInvoice(c) \/ FindInvoice(c) \/ PayInvoice(c)
           \/ \E k \in Checkout, type \in {"succeeded", "failed", "expired"} : CheckoutEnds(k, type)
           \/ \E e \in hooks : Webhook(e)
    PROVE  BillingInv'
<1> USE DEF BillingInv
<1>0. UNCHANGED cycleVars
    BY DEF Contribute, IssueInvoice, FindInvoice, PayInvoice, CheckoutEnds, Webhook
<1>1. ASSUME NEW c \in Contribution, Contribute(c) PROVE BillingInv'
    <2>0. Is(c, "none") /\ UNCHANGED <<provider, paying, hooks, taken, cycleVars>>
          /\ CreateCheckout(c, [contribution EXCEPT ![c].status = "pending"])
        BY <1>1 DEF Contribute, New
    <2>1. CASE provider = "dev"
        <3>1. /\ contribution' = [contribution EXCEPT ![c].status = "succeeded"]
              /\ pool' = [pool EXCEPT ![c] = @ + 1] /\ UNCHANGED checkout
            BY <2>0, <2>1 DEF CreateCheckout, BillingTypeOK
        <3>2. BillingTypeOK'
            BY <2>0, <3>1 DEF BillingTypeOK, cycleVars
        <3>3. CreditedOnce'
            BY <2>0, <3>1 DEF BillingTypeOK, CreditedOnce, Is
        <3> QED
            BY <2>0, <3>1, <3>2, <3>3 DEF HooksAreOfCheckouts
    <2>2. CASE provider = "stripe"
        <3>1. contribution' = [contribution EXCEPT ![c].status = "pending"]
            BY <2>0, <2>2, SessionOpens
        <3>2. BillingTypeOK'
            BY <2>0, <2>2, <3>1, SessionOpens DEF BillingTypeOK, cycleVars
        <3>3. CreditedOnce'
            BY <2>0, <2>2, <3>1, SessionOpens DEF BillingTypeOK, CreditedOnce, Is
        <3>4. HooksAreOfCheckouts'
            BY <2>0, <2>2, SessionOpens DEF BillingTypeOK, HooksAreOfCheckouts, Hook
        <3> QED
            BY <3>2, <3>3, <3>4
    <2> QED
        BY <2>1, <2>2 DEF BillingTypeOK
<1>2. ASSUME NEW c \in Contribution, IssueInvoice(c) PROVE BillingInv'
    BY <1>2, <1>0 DEF IssueInvoice, New, Is, BillingTypeOK, HooksAreOfCheckouts, CreditedOnce, cycleVars
<1>3. ASSUME NEW c \in Contribution, FindInvoice(c) PROVE BillingInv'
    BY <1>3, <1>0 DEF FindInvoice, Is, BillingTypeOK, HooksAreOfCheckouts, CreditedOnce, cycleVars
<1>4. ASSUME NEW c \in Contribution, PayInvoice(c) PROVE BillingInv'
    <2>0. UNCHANGED <<provider, hooks, taken, cycleVars>> /\ paying' \in SUBSET Contribution
        BY <1>4 DEF PayInvoice, BillingTypeOK
    <2>1. CASE Credit(c, contribution) /\ UNCHANGED checkout
        BY <2>0, <2>1, CreditKeeps DEF BillingTypeOK, HooksAreOfCheckouts, cycleVars
    <2>2. CASE provider = "stripe" /\ CreateCheckout(c, contribution)
        <3>1. BillingTypeOK' /\ CreditedOnce'
            BY <2>0, <2>2, SessionOpens DEF BillingTypeOK, CreditedOnce, Is, cycleVars
        <3>2. HooksAreOfCheckouts'
            BY <2>0, <2>2, SessionOpens DEF BillingTypeOK, HooksAreOfCheckouts, Hook
        <3> QED
            BY <3>1, <3>2
    <2> QED
        BY <1>4, <2>1, <2>2 DEF PayInvoice
<1>5. ASSUME NEW k \in Checkout, NEW type \in {"succeeded", "failed", "expired"}, CheckoutEnds(k, type)
      PROVE  BillingInv'
    <2> DEFINE e == [type |-> type, checkout |-> k]
    <2>1. e \in Hook /\ checkout[k].state = "open" /\ hooks' = hooks \cup {e}
        BY <1>5 DEF CheckoutEnds, Hook
    <2>2. PICK state \in {"paid", "open", "expired"} : checkout' = [checkout EXCEPT ![k].state = state]
        BY <1>5 DEF CheckoutEnds
    <2>3. BillingTypeOK'
        BY <1>5, <1>0, <2>1, <2>2 DEF CheckoutEnds, BillingTypeOK, cycleVars
    <2>4. HooksAreOfCheckouts'
        BY <2>1, <2>2 DEF BillingTypeOK, HooksAreOfCheckouts, Hook
    <2> QED
        BY <1>5, <2>3, <2>4 DEF CheckoutEnds, CreditedOnce, Is
<1>6. ASSUME NEW e \in hooks, Webhook(e) PROVE BillingInv'
    <2> DEFINE c == checkout[e.checkout].of
    <2>1. c \in Contribution /\ e.type \in {"succeeded", "failed", "expired"}
        BY DEF HooksAreOfCheckouts, BillingTypeOK, Hook
    <2> HIDE DEF c
    <2>2. \/ Credit(c, contribution)
          \/ \E status \in {"failed", "canceled"} : MarkFailed(c, status)
        BY <1>6, <2>1 DEF Webhook, c
    <2>3. UNCHANGED <<provider, checkout, paying, hooks, cycleVars>> /\ taken' \subseteq hooks
        BY <1>6 DEF Webhook, BillingTypeOK
    <2>4. pool' \in [Contribution -> Nat]
        BY <2>1, <2>2, CreditKeeps DEF MarkFailed, BillingTypeOK
    <2>5. /\ contribution' \in [Contribution -> [status : {"none", "pending", "succeeded", "failed", "canceled"},
                                                 invoice : BOOLEAN]]
          /\ CreditedOnce'
        BY <2>1, <2>2, CreditKeeps, MarkFailedKeeps
    <2> QED
        BY <2>3, <2>4, <2>5 DEF BillingTypeOK, HooksAreOfCheckouts, cycleVars
<1> QED
    BY <1>1, <1>2, <1>3, <1>4, <1>5, <1>6

\* The usage cycle's actions.
LEMMA CycleStep ==
    ASSUME BillingInv,
           MonthPasses \/ Meter \/ (\E r \in StatusReader : ReadCycle(r) \/ RollOver(r)) \/ UNCHANGED billingVars
    PROVE  BillingInv'
<1>1. UNCHANGED poolVars
    BY DEF MonthPasses, Meter, ReadCycle, RollOver, billingVars
<1>2. BillingTypeOK'
    <2> USE DEF BillingInv, BillingTypeOK, poolVars
    <2>1. CASE MonthPasses
        BY <1>1, <2>1, BillingBounds DEF MonthPasses
    <2>2. CASE Meter
        BY <1>1, <2>2, BillingBounds DEF Meter
    <2>3. ASSUME NEW r \in StatusReader, ReadCycle(r) PROVE BillingTypeOK'
        BY <1>1, <2>3, BillingBounds DEF ReadCycle
    <2>4. ASSUME NEW r \in StatusReader, RollOver(r) PROVE BillingTypeOK'
        BY <1>1, <2>4, BillingBounds DEF RollOver
    <2>5. CASE UNCHANGED billingVars
        BY <2>5 DEF billingVars, cycleVars
    <2> QED
        BY <2>1, <2>2, <2>3, <2>4, <2>5
<1>3. HooksAreOfCheckouts' /\ CreditedOnce'
    BY <1>1 DEF BillingInv, HooksAreOfCheckouts, CreditedOnce, Is, poolVars
<1> QED
    BY <1>2, <1>3 DEF BillingInv

\* The invariant of the billing tables holds in every state.
THEOREM BillingInvariance == BillingSpec => []BillingInv
<1>1. BillingInv /\ [BillingNext]_billingVars => BillingInv'
    BY PoolStep, CycleStep DEF BillingNext
<1> QED
    BY <1>1, BillingInitially, PTL DEF BillingSpec

\* However webhooks are repeated, delayed and reordered, a contribution is credited once or not.
THEOREM CreditedOnceAlways == BillingSpec => []CreditedOnce
<1>1. BillingInv => CreditedOnce
    BY DEF BillingInv
<1> QED
    BY <1>1, BillingInvariance, PTL

\* However many status requests saw the old cycle, no usage is lost while a cycle lasts.
THEOREM UsageKeptAlways == BillingSpec => UsageKept
<1>1. BillingInv /\ [BillingNext]_billingVars => [cycleStart' = cycleStart => bytesOut' >= bytesOut]_billingVars
    <2> SUFFICES ASSUME BillingInv, [BillingNext]_billingVars, cycleStart' = cycleStart
                 PROVE  bytesOut' >= bytesOut
        OBVIOUS
    <2>0. bytesOut \in Nat /\ cycleStart \in Nat /\ month \in Nat
        BY BillingBounds DEF BillingInv, BillingTypeOK
    <2>1. CASE bytesOut' = bytesOut
        BY <2>0, <2>1
    <2>2. CASE Meter
        BY <2>0, <2>2 DEF Meter
    <2>3. ASSUME NEW r \in StatusReader, RollOver(r) PROVE bytesOut' >= bytesOut
        BY <2>0, <2>3 DEF RollOver, StillThatCycle
    <2> QED
        BY <2>1, <2>2, <2>3 DEF BillingNext, Contribute, IssueInvoice, FindInvoice, PayInvoice, CheckoutEnds,
            Webhook, MonthPasses, ReadCycle, billingVars, cycleVars
<1> QED
    BY <1>1, BillingInvariance, PTL DEF BillingSpec, UsageKept

-----------------------------------------------------------------------------
(* Presence.                                                                *)

\* A call of each kind is a call, at each of its steps.
LEMMA CallsAre ==
    ASSUME NEW u \in Talker, NEW c \in PresenceChannel
    PROVE  /\ CallOf("join", u, c, "read") \in AllCalls /\ CallOf("ping", u, c, "db") \in AllCalls
           /\ CallOf("leave", u, c, "db") \in AllCalls /\ CallOf("evict", u, c, "db") \in AllCalls
           /\ CallOf("sweep", u, c, "map") \in AllCalls
           /\ \A from \in PresenceChannel \ {c} : [CallOf("move", u, c, "db") EXCEPT !.from = from] \in AllCalls
<1>1. Nowhere \notin PresenceChannel
    BY PresenceBounds DEF Nowhere
<1>2. CallOf("join", u, c, "read") \in AllCalls /\ CallOf("ping", u, c, "db") \in AllCalls
    BY DEF AllCalls, CallSteps, CallOf
<1>3. CallOf("leave", u, c, "db") \in AllCalls /\ CallOf("evict", u, c, "db") \in AllCalls
    BY DEF AllCalls, CallSteps, CallOf
<1>4. CallOf("sweep", u, c, "map") \in AllCalls
    BY DEF AllCalls, CallSteps, CallOf
<1>5. ASSUME NEW from \in PresenceChannel \ {c}
      PROVE  [CallOf("move", u, c, "db") EXCEPT !.from = from] \in AllCalls
    BY <1>1 DEF AllCalls, CallSteps, CallOf
<1> QED
    BY <1>2, <1>3, <1>4, <1>5

\* A call is of a user and a channel, and its next step is a step of it.
LEMMA CallIs ==
    ASSUME NEW call \in AllCalls
    PROVE  /\ call.user \in Talker /\ call.chan \in PresenceChannel
           /\ call.from \in PresenceChannel \cup {Nowhere} /\ (call.op = "move" => call.from # Nowhere)
           /\ call.op = "join" => [call EXCEPT !.pc = "db"] \in AllCalls
           /\ call.op # "sweep" => [call EXCEPT !.pc = "map"] \in AllCalls
<1>1. /\ call \in [op : DOMAIN CallSteps, user : Talker, chan : PresenceChannel,
                   from : PresenceChannel \cup {Nowhere}, pc : {"read", "db", "map"}]
      /\ IF call.op = "move" THEN call.from \notin {Nowhere, call.chan} ELSE call.from = Nowhere
    BY DEF AllCalls
<1>2. call.op \in {"join", "ping", "leave", "evict", "sweep", "move"}
    BY <1>1 DEF CallSteps
<1>3. ASSUME NEW pc \in {"db", "map"}, pc \in CallSteps[call.op] PROVE [call EXCEPT !.pc = pc] \in AllCalls
    BY <1>1, <1>3 DEF AllCalls
<1>4. (call.op = "join" => "db" \in CallSteps[call.op]) /\ "map" \in CallSteps[call.op]
    BY <1>2 DEF CallSteps
<1> QED
    BY <1>1, <1>3, <1>4

LEMMA ServeTyped ==
    ASSUME PresenceTypeOK, NEW call \in calls, Serve(call)
    PROVE  PresenceTypeOK'
<1>1. /\ call \in AllCalls /\ call.user \in Talker /\ call.chan \in PresenceChannel
      /\ call.from \in PresenceChannel \cup {Nowhere} /\ (call.op = "move" => call.from # Nowhere)
    BY CallIs DEF PresenceTypeOK
<1>2. UNCHANGED <<talking, presenceLost>>
    BY DEF Serve
<1>3. row' \in [Talker -> [chan : PresenceChannel \cup {Nowhere}, fresh : BOOLEAN]]
    <2>1. CASE Upserts(call)
        BY <1>1, <2>1 DEF Upserts, PresenceTypeOK
    <2>2. CASE Deletes(call)
        BY <1>1, <2>2 DEF Deletes, PresenceTypeOK, NoPresence
    <2>3. CASE JoinReads(call) \/ Shows(call) \/ Hides(call) \/ Moves(call)
        BY <2>3 DEF JoinReads, Shows, Hides, Moves, PresenceTypeOK
    <2> QED
        BY <2>1, <2>2, <2>3 DEF Serve
<1>4. shown' \in [PresenceChannel -> SUBSET Talker]
    <2>1. CASE JoinReads(call)
        BY <2>1 DEF JoinReads, PresenceTypeOK
    <2>2. CASE Upserts(call) \/ Deletes(call)
        BY <2>2 DEF Upserts, Deletes, PresenceTypeOK
    <2>3. CASE Shows(call) \/ Hides(call)
        BY <1>1, <2>3 DEF Shows, Hides, PresenceTypeOK
    <2>4. CASE Moves(call)
        BY <1>1, <2>4 DEF Moves, PresenceTypeOK
    <2> QED
        BY <2>1, <2>2, <2>3, <2>4 DEF Serve
<1>5. calls' \subseteq AllCalls
    <2>1. CASE JoinReads(call)
        BY <1>1, <2>1, CallIs DEF JoinReads, To, PresenceTypeOK
    <2>2. CASE Upserts(call) \/ Deletes(call)
        BY <1>1, <2>2, CallIs DEF Upserts, Deletes, To, PresenceTypeOK
    <2>3. CASE Shows(call) \/ Hides(call) \/ Moves(call)
        BY <2>3 DEF Shows, Hides, Moves, Ends, PresenceTypeOK
    <2> QED
        BY <2>1, <2>2, <2>3 DEF Serve
<1> QED
    BY <1>2, <1>3, <1>4, <1>5 DEF PresenceTypeOK

LEMMA PresenceTyped == PresenceTypeOK /\ [PresenceNext]_presenceVars => PresenceTypeOK'
<1> SUFFICES ASSUME PresenceTypeOK, [PresenceNext]_presenceVars PROVE PresenceTypeOK'
    OBVIOUS
<1>1. \A u \in Talker : /\ talking[u] \in PresenceChannel \cup {Nowhere}
                        /\ row[u].chan \in PresenceChannel \cup {Nowhere} /\ row[u].fresh \in BOOLEAN
    BY DEF PresenceTypeOK
<1>2. Loses => presenceLost' \in 0..PresenceLosses
    BY PresenceBounds DEF Loses, PresenceTypeOK
<1>3. ASSUME NEW u \in Talker, Ping(u) \/ Age(u) \/ Sweep(u) PROVE PresenceTypeOK'
    <2>1. CASE Ping(u)
        BY <1>1, <2>1, CallsAre DEF Ping, PresenceTypeOK
    <2>2. CASE Age(u)
        <3>1. row' \in [Talker -> [chan : PresenceChannel \cup {Nowhere}, fresh : BOOLEAN]]
            BY <2>2 DEF Age, PresenceTypeOK
        <3> QED
            BY <2>2, <3>1 DEF Age, PresenceTypeOK
    <2>3. CASE Sweep(u)
        <3>1. row' \in [Talker -> [chan : PresenceChannel \cup {Nowhere}, fresh : BOOLEAN]]
            BY <2>3 DEF Sweep, NoPresence, PresenceTypeOK
        <3>2. calls' \subseteq AllCalls
            BY <1>1, <2>3, CallsAre DEF Sweep, Begins, PresenceTypeOK
        <3> QED
            BY <2>3, <3>1, <3>2 DEF Sweep, PresenceTypeOK
    <2> QED
        BY <1>3, <2>1, <2>2, <2>3
<1>4. ASSUME NEW u \in Talker, NEW c \in PresenceChannel, StartTalking(u, c) \/ BulkMove(u, c) PROVE PresenceTypeOK'
    <2>1. CASE StartTalking(u, c)
        BY <2>1, CallsAre DEF StartTalking, Begins, PresenceTypeOK
    <2>2. CASE BulkMove(u, c)
        <3> PICK from : from = row[u].chan
            OBVIOUS
        <3>1. from \in PresenceChannel \ {c}
            BY <1>1, <2>2 DEF BulkMove
        <3>2. [CallOf("move", u, c, "db") EXCEPT !.from = from] \in AllCalls
            BY <3>1, CallsAre
        <3>3. calls' = calls \cup {[CallOf("move", u, c, "db") EXCEPT !.from = from]}
            BY <2>2 DEF BulkMove, Begins
        <3> QED
            BY <1>2, <2>2, <3>2, <3>3 DEF BulkMove, PresenceTypeOK
    <2> QED
        BY <1>4, <2>1, <2>2
<1>5. ASSUME NEW u \in Talker, NEW ops \in SUBSET {"leave", "evict"}, StopTalking(u, ops) PROVE PresenceTypeOK'
    <2>1. talking[u] \in PresenceChannel /\ talking' = [talking EXCEPT ![u] = Nowhere]
        BY <1>1, <1>5 DEF StopTalking
    <2>2. \A op \in ops : CallOf(op, u, talking[u], "db") \in AllCalls
        BY <2>1, CallsAre
    <2>3. calls' = calls \cup {CallOf(op, u, talking[u], "db") : op \in ops}
        BY <1>5 DEF StopTalking, Begins
    <2> QED
        BY <1>5, <2>1, <2>2, <2>3 DEF StopTalking, PresenceTypeOK
<1>6. ASSUME NEW call \in calls, Serve(call) \/ LoseCall(call) PROVE PresenceTypeOK'
    BY <1>2, <1>6, ServeTyped DEF LoseCall, Ends, PresenceTypeOK
<1>7. ASSUME IdentityRestart PROVE PresenceTypeOK'
    BY <1>2, <1>7 DEF IdentityRestart, NoPresence, PresenceTypeOK
<1>8. CASE UNCHANGED presenceVars
    BY <1>8 DEF presenceVars, PresenceTypeOK
<1> QED
    BY <1>3, <1>4, <1>5, <1>6, <1>7, <1>8 DEF PresenceNext

\* The presence calls of CommLink.jsx and the handlers of channelController.ts and billingConsumer.ts
\* stay within their types, whatever is lost or overtaken.
THEOREM PresenceTypeCorrect == PresenceSpec => []PresenceTypeOK
<1>1. PresenceInit => PresenceTypeOK
    BY PresenceBounds DEF PresenceInit, PresenceTypeOK, NoPresence
<1> QED
    BY <1>1, PresenceTyped, PTL DEF PresenceSpec
=============================================================================
