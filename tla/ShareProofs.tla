----------------------------- MODULE ShareProofs -----------------------------
(***************************************************************************)
(* Proofs about VideoShare, for any users, viewers, sessions and frames.    *)
(*                                                                         *)
(* The argument: the nonce entry is the newest session's or nobody's, so of *)
(* a user's sessions only the newest can pass its nonce check; when the     *)
(* others were not between two maps as it claimed, none of them touches the *)
(* maps again (Calm), and its entries are as its own progress left them     *)
(* (Listed). A session is watched only after it was live (Seen), so its     *)
(* activation channel starts from zero, and each viewer enters and leaves   *)
(* the counts once.                                                        *)
(***************************************************************************)
EXTENDS VideoShare, FiniteSetTheorems, TLAPS

\* The maps a share's setup fills.
Main == {"nonce", "act", "header", "stream", "sharer"}
\* Where a session leaves these maps alone, once a later one holds the nonce.
Calm == {"live", "cached", "ended", "over"}

VideoShape ==
    /\ share \in [Share -> [user : Sharer \cup {0},
                            at : {"none", "setup", "waiting", "live", "cached", "ended", "failed",
                                  "dropping", "teardown", "over"},
                            done : 0..6, key : Nat,
                            overlay : {"none", "announced", "live", "ended", "half", "over"},
                            alone : BOOLEAN]]
    /\ maps \in [Sharer -> [VideoMap -> 0..MaxShares]]
    /\ out \in [Share -> Seq({"key", "delta", "end"})]
    /\ watchers \in [Share -> Nat]
    /\ view \in [Viewer -> [user : Sharer \cup {0},
                            at : {"none", "found", "subscribed", "ready", "watching", "leaving", "over"},
                            of : 0..MaxShares, prefix : Nat, next : Nat, last : Nat, resync : BOOLEAN]]

\* Sessions claim in the order of their numbers, and keep their user.
ClaimOrder ==
    /\ \A s \in Share : StandsAt(s, "none") <=> share[s].user = 0
    /\ \A s, t \in Share : s < t /\ StandsAt(s, "none") => StandsAt(t, "none")

\* How far a session is with its maps and its overlay.
ProgressOf(s) ==
    /\ StandsAt(s, "setup") => share[s].done \in 1..4
    /\ StandsAt(s, "waiting") => share[s].done = 2
    /\ share[s].at \in {"live", "cached"} => share[s].done = 5
    /\ StandsAt(s, "teardown") => share[s].done \in 0..5
    /\ share[s].at \in {"none", "setup", "waiting", "failed", "dropping"} => share[s].overlay = "none"
Progress == \A s \in Share : ProgressOf(s)

Newest(u, s) == s \in SharesOf(u) /\ \A t \in SharesOf(u) : t <= s
HasNewest == \A u \in Sharer :
    \/ SharesOf(u) = {} /\ \A m \in Main : maps[u][m] = 0
    \/ \E s \in Share : Newest(u, s)

\* A nonce entry is the newest session's; the other entries are of sessions that got so far.
EntriesOf(u, s) ==
    /\ maps[u]["nonce"] = s => Newest(u, s)
    /\ maps[u]["act"] = s => s \in SharesOf(u) /\ (StandsAt(s, "setup") => share[s].done >= 2)
    /\ maps[u]["sharer"] = s => s \in SharesOf(u) /\ share[s].overlay # "none"
EntriesFit == \A u \in Sharer, s \in Share : EntriesOf(u, s)

\* What the newest session of a user can rely on when it claimed alone.
OthersCalm(u, s) == \A t \in SharesOf(u) \ {s} : share[t].at \in Calm
Listed(u, s) ==
    /\ share[s].at \in {"setup", "waiting", "live", "cached"} => \A i \in 1..share[s].done : maps[u][SetUp[i]] = s
    /\ share[s].at \in {"setup", "waiting", "live", "cached", "ended", "failed"} => maps[u]["nonce"] = s
    /\ share[s].at \in {"dropping", "teardown", "over"} => maps[u]["nonce"] = 0
    /\ StandsAt(s, "teardown") =>
          \A i \in 1..share[s].done : TearDown[i] \in Main => maps[u][TearDown[i]] = 0
    /\ StandsAt(s, "over") /\ share[s].overlay # "none" => \A m \in Main : maps[u][m] = 0
NewestKept == \A u \in Sharer, s \in Share : Newest(u, s) /\ share[s].alone => OthersCalm(u, s) /\ Listed(u, s)

ShareInv == ClaimOrder /\ Progress /\ HasNewest /\ EntriesFit /\ NewestKept

\* A viewer has found a share that once was live.
Seen == \A v \in Viewer : view[v].at # "none" =>
    view[v].user \in Sharer /\ \E s \in SharesOf(view[v].user) : share[s].overlay # "none"
\* A delta that comes next follows the frame written last.
InStep == \A v \in Viewer :
    /\ view[v].at \in {"none", "found", "subscribed", "ready"} => view[v].last = 0
    /\ view[v].at = "watching" /\ ~view[v].resync /\ view[v].last # 0 => view[v].last = view[v].next - 1
    /\ view[v].at \in {"subscribed", "ready", "watching"} => view[v].of \in Share
NotYetCounted == \A s \in Share :
    StandsAt(s, "none") \/ (StandsAt(s, "setup") /\ share[s].done = 1) => watchers[s] = 0
ViewInv == Seen /\ NotYetCounted /\ ViewersCounted

ShareAll == VideoShape /\ ShareInv /\ ViewInv /\ InStep

-----------------------------------------------------------------------------
(* Types.                                                                  *)

ShareRec == [user : Sharer \cup {0},
             at : {"none", "setup", "waiting", "live", "cached", "ended", "failed",
                   "dropping", "teardown", "over"},
             done : 0..6, key : Nat,
             overlay : {"none", "announced", "live", "ended", "half", "over"},
             alone : BOOLEAN]
ViewRec == [user : Sharer \cup {0},
            at : {"none", "found", "subscribed", "ready", "watching", "leaving", "over"},
            of : 0..MaxShares, prefix : Nat, next : Nat, last : Nat, resync : BOOLEAN]

LEMMA Steps ==
  /\ SetUp[1] = "nonce" /\ SetUp[2] = "act" /\ SetUp[3] = "header" /\ SetUp[4] = "stream" /\ SetUp[5] = "sharer"
  /\ TearDown[1] = "header" /\ TearDown[2] = "keyframe" /\ TearDown[3] = "ovHeader" /\ TearDown[4] = "act"
  /\ TearDown[5] = "stream" /\ TearDown[6] = "sharer"
BY DEF SetUp, TearDown

LEMMA StepMaps ==
  /\ \A i \in 1..5 : SetUp[i] \in Main /\ SetUp[i] \in VideoMap
  /\ \A i \in 1..6 : TearDown[i] \in VideoMap
  /\ Main \subseteq VideoMap
<1>1. /\ \A i \in 1..5 : i = 1 \/ i = 2 \/ i = 3 \/ i = 4 \/ i = 5
      /\ \A i \in 1..6 : i = 1 \/ i = 2 \/ i = 3 \/ i = 4 \/ i = 5 \/ i = 6
  OBVIOUS
<1> QED
  BY <1>1, Steps DEF Main, VideoMap

LEMMA ShapeOf ==
  VideoShape <=> /\ share \in [Share -> ShareRec] /\ maps \in [Sharer -> [VideoMap -> 0..MaxShares]]
                 /\ out \in [Share -> Seq({"key", "delta", "end"})] /\ watchers \in [Share -> Nat]
                 /\ view \in [Viewer -> ViewRec]
BY DEF VideoShape, ShareRec, ViewRec

LEMMA ShareNumbers == \A s \in Share : s \in Nat /\ s # 0 /\ s \in 0..MaxShares
BY VideoBounds DEF Share

\* The record of a session that has just claimed.
Claimed(u, b) == [NoShare EXCEPT !.user = u, !.at = "setup", !.done = 1, !.alone = b]

LEMMA ClaimedRecord ==
  ASSUME NEW u \in Sharer, NEW b \in BOOLEAN
  PROVE  LET r == Claimed(u, b) IN
         /\ r \in ShareRec
         /\ r.user = u /\ r.at = "setup" /\ r.done = 1 /\ r.overlay = "none" /\ r.alone = b
<1> DEFINE r == Claimed(u, b)
<1> USE DEF Claimed
<1>1. 1 \in 0..6 /\ 0 \in Nat
  OBVIOUS
<1>2. r.user = u
  BY DEF NoShare
<1>3. r.at = "setup" /\ r.done = 1 /\ r.overlay = "none"
  BY DEF NoShare
<1>4. r.alone = b
  BY DEF NoShare
<1>5. r \in ShareRec
  BY ONLY <1>1, u \in Sharer, b \in BOOLEAN DEF NoShare, ShareRec, Claimed
<1> QED
  BY <1>2, <1>3, <1>4, <1>5

\* A claim makes the next number the user's newest session.
LEMMA ClaimDoes ==
  ASSUME VideoShape, NEW u \in Sharer, ClaimShare(u)
  PROVE  \E s \in Share :
           /\ StandsAt(s, "none") /\ \A t \in Share : t < s => ~StandsAt(t, "none")
           /\ VideoShape'
           /\ \A t \in Share : t # s => share'[t] = share[t]
           /\ share'[s].user = u /\ share'[s].at = "setup" /\ share'[s].done = 1 /\ share'[s].overlay = "none"
           /\ share'[s].alone => \A t \in SharesOf(u) : share[t].at \in Calm
           /\ \A x \in Sharer, m \in VideoMap :
                 maps'[x][m] = IF x = u /\ m = "nonce" THEN s ELSE maps[x][m]
           /\ UNCHANGED <<out, watchers, view, viewers>>
<1>1. PICK s \in Share :
        /\ StandsAt(s, "none") /\ \A t \in 1..(s - 1) : ~StandsAt(t, "none")
        /\ share' = [share EXCEPT ![s] = [NoShare EXCEPT !.user = u, !.at = "setup", !.done = 1,
                     !.alone = \A t \in SharesOf(u) : share[t].at \in {"live", "cached", "ended", "over"}]]
        /\ maps' = [maps EXCEPT ![u]["nonce"] = s]
  BY DEF ClaimShare
<1>2. PICK b \in BOOLEAN :
        /\ share' = [share EXCEPT ![s] = [NoShare EXCEPT !.user = u, !.at = "setup", !.done = 1, !.alone = b]]
        /\ b => \A t \in SharesOf(u) : share[t].at \in Calm
  <2> DEFINE alone == \A t \in SharesOf(u) : share[t].at \in {"live", "cached", "ended", "over"}
             claimed(b) == [share EXCEPT ![s] = [NoShare EXCEPT !.user = u, !.at = "setup", !.done = 1, !.alone = b]]
  <2>1. alone \in BOOLEAN
    OBVIOUS
  <2>2. share' = claimed(alone)
    BY <1>1
  <2>3. alone => \A t \in SharesOf(u) : share[t].at \in Calm
    BY DEF Calm
  <2> HIDE DEF alone, claimed
  <2>4. \E b \in BOOLEAN : share' = claimed(b) /\ (b => \A t \in SharesOf(u) : share[t].at \in Calm)
    BY <2>1, <2>2, <2>3
  <2> QED
    BY <2>4 DEF claimed
<1> DEFINE r == Claimed(u, b)
<1>3. share' = [share EXCEPT ![s] = r]
  BY <1>2 DEF Claimed
<1>4. /\ r \in ShareRec
      /\ r.user = u /\ r.at = "setup" /\ r.done = 1 /\ r.overlay = "none" /\ r.alone = b
  BY ClaimedRecord
<1> HIDE DEF r
<1>5. r.alone => \A t \in SharesOf(u) : share[t].at \in Calm
  BY <1>2, <1>4
<1>6. share' \in [Share -> ShareRec] /\ share'[s] = r /\ \A t \in Share : t # s => share'[t] = share[t]
  BY <1>3, <1>4, ShapeOf
<1>7. maps' \in [Sharer -> [VideoMap -> 0..MaxShares]]
  BY <1>1, ShapeOf, ShareNumbers DEF VideoMap
<1>8. \A x \in Sharer, m \in VideoMap : maps'[x][m] = IF x = u /\ m = "nonce" THEN s ELSE maps[x][m]
  BY <1>1, ShapeOf
<1>9. UNCHANGED <<out, watchers, view, viewers>>
  BY DEF ClaimShare
<1>10. VideoShape'
  BY <1>6, <1>7, <1>9 DEF VideoShape, ShareRec
<1>11. \A t \in Share : t < s => ~StandsAt(t, "none")
  BY <1>1, ShareNumbers DEF Share
<1> QED
  BY <1>1, <1>4, <1>5, <1>6, <1>8, <1>9, <1>10, <1>11

\* What a step of session s has in common with every other.
Stays(s) ==
    /\ \A t \in Share : t # s => share'[t] = share[t]
    /\ share'[s].user = share[s].user /\ share'[s].alone = share[s].alone
    /\ share[s].at # "none" /\ share'[s].at # "none"
    /\ share[s].overlay # "none" => share'[s].overlay # "none"
    /\ \A u \in Sharer : u # share[s].user => maps'[u] = maps[u]
    /\ UNCHANGED <<watchers, view, viewers>>
MainSame(s) == \A m \in Main : maps'[share[s].user][m] = maps[share[s].user][m]

LEMMA EnterDoes ==
  ASSUME VideoShape, ClaimOrder, Progress, NEW s \in Share, Enter(s)
  PROVE  LET u == share[s].user  i == share[s].done + 1 IN
         /\ VideoShape' /\ Stays(s) /\ ProgressOf(s)'
         /\ u \in Sharer /\ i \in 2..5 /\ StandsAt(s, "setup") /\ share'[s].done = i
         /\ share'[s].at = IF i = 2 THEN "waiting" ELSE IF i = 5 THEN "live" ELSE "setup"
         /\ share'[s].overlay = IF i = 5 THEN "announced" ELSE share[s].overlay
         /\ \A m \in VideoMap : maps'[u][m] = IF m = SetUp[i] THEN s ELSE maps[u][m]
<1> DEFINE u == share[s].user  i == share[s].done + 1  map == SetUp[i]
           r == [share[s] EXCEPT !.done = @ + 1,
                   !.at = CASE map = "act" -> "waiting" [] map = "sharer" -> "live" [] OTHER -> "setup",
                   !.overlay = IF map = "sharer" THEN "announced" ELSE @]
<1>1. share[s] \in ShareRec /\ share \in [Share -> ShareRec] /\ maps \in [Sharer -> [VideoMap -> 0..MaxShares]]
  BY ShapeOf
<1>2. StandsAt(s, "setup") /\ u \in Sharer /\ i \in 2..5
  BY <1>1 DEF Enter, ClaimOrder, Progress, ProgressOf, StandsAt, ShareRec
<1>3. map \in VideoMap /\ (map = "act" <=> i = 2) /\ (map = "sharer" <=> i = 5)
  <2>1. i = 2 \/ i = 3 \/ i = 4 \/ i = 5
    BY <1>2
  <2> QED
    BY <2>1, Steps DEF VideoMap
<1>4. share' = [share EXCEPT ![s] = r]
  BY <1>1 DEF Enter
<1> DEFINE at2 == IF i = 2 THEN "waiting" ELSE IF i = 5 THEN "live" ELSE "setup"
           ov2 == IF i = 5 THEN "announced" ELSE share[s].overlay
<1>5. r = [share[s] EXCEPT !.done = i, !.at = at2, !.overlay = ov2]
  BY <1>1, <1>3 DEF ShareRec
<1>6. /\ r \in ShareRec /\ r.done = i /\ r.at = at2 /\ r.overlay = ov2
      /\ r.user = share[s].user /\ r.alone = share[s].alone
  <2>1. /\ at2 \in {"waiting", "live", "setup"} /\ i \in 0..6
        /\ ov2 \in {"none", "announced", "live", "ended", "half", "over"}
    BY <1>1, <1>2 DEF ShareRec
  <2> HIDE DEF at2, ov2, i, r
  <2> QED
    BY <1>1, <1>5, <2>1 DEF ShareRec
<1> HIDE DEF r
<1>7. maps' = [maps EXCEPT ![u][map] = s] /\ UNCHANGED <<out, watchers, view, viewers>>
  BY DEF Enter
<1>8. maps' \in [Sharer -> [VideoMap -> 0..MaxShares]]
  BY <1>1, <1>2, <1>3, <1>7, ShareNumbers
<1>9. share' \in [Share -> ShareRec] /\ share'[s] = r /\ \A t \in Share : t # s => share'[t] = share[t]
  BY <1>1, <1>4, <1>6
<1>10. VideoShape'
  BY <1>7, <1>8, <1>9 DEF VideoShape, ShareRec
<1>11. \A m \in VideoMap : maps'[u][m] = IF m = map THEN s ELSE maps[u][m]
  BY <1>1, <1>2, <1>7
<1>12. \A x \in Sharer : x # u => maps'[x] = maps[x]
  BY <1>1, <1>7
<1>13. share[s].at # "none" /\ r.at # "none" /\ (share[s].overlay # "none" => r.overlay # "none")
  BY <1>2, <1>6 DEF StandsAt
<1>14. ProgressOf(s)'
  BY <1>2, <1>6, <1>9 DEF ProgressOf, StandsAt, Progress
<1> QED
  BY <1>2, <1>6, <1>7, <1>9, <1>10, <1>11, <1>12, <1>13, <1>14 DEF Stays

\* What the steps may do that leave the maps of the setup alone.
QuietMove(s) ==
    /\ VideoShape' /\ Stays(s) /\ ProgressOf(s)' /\ MainSame(s) /\ share'[s].done = share[s].done
    /\ \/ share'[s].at = share[s].at
       \/ StandsAt(s, "waiting") /\ share'[s].at \in {"setup", "failed", "ended"}
       \/ share[s].at \in {"live", "cached"} /\ share'[s].at \in {"live", "cached", "ended"}
    /\ share'[s].at = "over" /\ share'[s].overlay # "none" => share[s].overlay # "none"

\* Only the record of s changes, and of its user's maps only m.
LEMMA QuietShape ==
  ASSUME VideoShape, ClaimOrder, NEW s \in Share, share[s].at # "none",
         NEW r \in ShareRec, share' = [share EXCEPT ![s] = r],
         NEW m \in VideoMap \ Main, NEW e \in 0..MaxShares,
         maps' = maps \/ maps' = [maps EXCEPT ![share[s].user][m] = e],
         out' \in [Share -> Seq({"key", "delta", "end"})], UNCHANGED <<watchers, view, viewers>>,
         r.user = share[s].user, r.alone = share[s].alone, r.at # "none",
         share[s].overlay # "none" => r.overlay # "none"
  PROVE  /\ VideoShape' /\ Stays(s) /\ MainSame(s) /\ share'[s] = r
<1>1. share[s] \in ShareRec /\ share \in [Share -> ShareRec] /\ maps \in [Sharer -> [VideoMap -> 0..MaxShares]]
  BY ShapeOf
<1>2. share[s].user \in Sharer
  BY <1>1 DEF ClaimOrder, StandsAt, ShareRec
<1>3. share' \in [Share -> ShareRec] /\ share'[s] = r /\ \A t \in Share : t # s => share'[t] = share[t]
  BY <1>1
<1>4. /\ maps' \in [Sharer -> [VideoMap -> 0..MaxShares]]
      /\ \A u \in Sharer : u # share[s].user => maps'[u] = maps[u]
      /\ MainSame(s)
  <2>1. CASE maps' = maps
    BY <1>1, <2>1 DEF MainSame
  <2>2. CASE maps' = [maps EXCEPT ![share[s].user][m] = e]
    BY <1>1, <1>2, <2>2, StepMaps DEF MainSame
  <2> QED
    BY <2>1, <2>2
<1>5. VideoShape'
  BY <1>3, <1>4 DEF VideoShape, ShareRec
<1> QED
  BY <1>3, <1>4, <1>5 DEF Stays

LEMMA HeaderDoes ==
  ASSUME VideoShape, ClaimOrder, Progress, NEW s \in Share, HeaderArrives(s)
  PROVE  QuietMove(s)
<1>1. PICK next \in {"setup", "failed", "ended"} : share' = [share EXCEPT ![s].at = next]
  BY DEF HeaderArrives
<1> DEFINE r == [share[s] EXCEPT !.at = next]
<1>2. share[s] \in ShareRec /\ share' = [share EXCEPT ![s] = r]
  BY <1>1, ShapeOf
<1>3. /\ r \in ShareRec /\ r.at = next /\ r.done = share[s].done /\ r.overlay = share[s].overlay
      /\ r.user = share[s].user /\ r.alone = share[s].alone
  BY <1>2 DEF ShareRec
<1> HIDE DEF r
<1>4. "keyframe" \in VideoMap \ Main /\ 0 \in 0..MaxShares
  BY VideoBounds DEF VideoMap, Main
<1>5. VideoShape' /\ Stays(s) /\ MainSame(s) /\ share'[s] = r
  BY <1>2, <1>3, <1>4, QuietShape, ShapeOf DEF HeaderArrives, StandsAt
<1>6. ProgressOf(s)'
  BY <1>3, <1>5 DEF HeaderArrives, StandsAt, Progress, ProgressOf
<1> QED
  BY <1>3, <1>5, <1>6 DEF QuietMove, HeaderArrives, StandsAt

LEMMA CacheDoes ==
  ASSUME VideoShape, ClaimOrder, Progress, NEW s \in Share, CacheKey(s)
  PROVE  QuietMove(s)
<1> DEFINE r == [share[s] EXCEPT !.at = "cached", !.key = Len(out[s]) + 1]
<1>1. share[s] \in ShareRec /\ Len(out[s]) + 1 \in Nat
  <2>1. out[s] \in Seq({"key", "delta", "end"})
    BY ShapeOf
  <2> QED
    BY <2>1, ShapeOf
<1>2. share' = [share EXCEPT ![s] = r]
  BY ShapeOf DEF CacheKey
<1>3. /\ r \in ShareRec /\ r.at = "cached" /\ r.done = share[s].done /\ r.overlay = share[s].overlay
      /\ r.user = share[s].user /\ r.alone = share[s].alone
  BY <1>1 DEF ShareRec
<1> HIDE DEF r
<1>4. "keyframe" \in VideoMap \ Main /\ s \in 0..MaxShares
  BY ShareNumbers DEF VideoMap, Main
<1>5. VideoShape' /\ Stays(s) /\ MainSame(s) /\ share'[s] = r
  BY <1>2, <1>3, <1>4, QuietShape, ShapeOf DEF CacheKey, StandsAt
<1>6. ProgressOf(s)'
  BY <1>3, <1>5 DEF CacheKey, StandsAt, Progress, ProgressOf
<1> QED
  BY <1>3, <1>5, <1>6 DEF QuietMove, CacheKey, StandsAt

LEMMA SendFrameDoes ==
  ASSUME VideoShape, ClaimOrder, Progress, NEW s \in Share, SendFrame(s)
  PROVE  QuietMove(s)
<1> DEFINE r == [share[s] EXCEPT !.at = "live"]
<1>1. share[s] \in ShareRec /\ out \in [Share -> Seq({"key", "delta", "end"})] /\ share[s].at \in {"live", "cached"}
  BY ShapeOf DEF SendFrame, StandsAt
<1>2. share' = [share EXCEPT ![s] = r]
  BY ShapeOf DEF SendFrame
<1>3. /\ r \in ShareRec /\ r.at = "live" /\ r.done = share[s].done /\ r.overlay = share[s].overlay
      /\ r.user = share[s].user /\ r.alone = share[s].alone
  BY <1>1 DEF ShareRec
<1> HIDE DEF r
<1>4. "keyframe" \in VideoMap \ Main /\ 0 \in 0..MaxShares
  BY VideoBounds DEF VideoMap, Main
<1>5. out' \in [Share -> Seq({"key", "delta", "end"})]
  <2>1. \A f \in {"key", "delta"} : Append(out[s], f) \in Seq({"key", "delta", "end"})
    BY <1>1
  <2> QED
    BY <1>1, <2>1 DEF SendFrame
<1>6. VideoShape' /\ Stays(s) /\ MainSame(s) /\ share'[s] = r
  <2>1. maps' = maps /\ UNCHANGED <<watchers, view, viewers>>
    BY DEF SendFrame
  <2>2. share[s].at # "none" /\ r.at # "none" /\ (share[s].overlay # "none" => r.overlay # "none")
    BY <1>1, <1>3
  <2> QED
    BY <1>2, <1>3, <1>4, <1>5, <2>1, <2>2, QuietShape
<1>7. ProgressOf(s)'
  BY <1>1, <1>3, <1>6 DEF StandsAt, Progress, ProgressOf
<1> QED
  BY <1>1, <1>3, <1>6, <1>7 DEF QuietMove

LEMMA StreamEndDoes ==
  ASSUME VideoShape, ClaimOrder, Progress, NEW s \in Share, StreamEnds(s)
  PROVE  QuietMove(s)
<1> DEFINE r == [share[s] EXCEPT !.at = "ended", !.overlay = "over"]
<1>1. share[s] \in ShareRec /\ share[s].at = "live"
  BY ShapeOf DEF StreamEnds, StandsAt
<1>2. share' = [share EXCEPT ![s] = r]
  BY ShapeOf DEF StreamEnds
<1>3. /\ r \in ShareRec /\ r.at = "ended" /\ r.done = share[s].done /\ r.overlay = "over"
      /\ r.user = share[s].user /\ r.alone = share[s].alone
  BY <1>1 DEF ShareRec
<1> HIDE DEF r
<1>4. "keyframe" \in VideoMap \ Main /\ 0 \in 0..MaxShares
  BY VideoBounds DEF VideoMap, Main
<1>5. VideoShape' /\ Stays(s) /\ MainSame(s) /\ share'[s] = r
  BY <1>1, <1>2, <1>3, <1>4, QuietShape, ShapeOf DEF StreamEnds
<1>6. ProgressOf(s)'
  BY <1>3, <1>5 DEF StandsAt, Progress, ProgressOf
<1> QED
  BY <1>1, <1>3, <1>5, <1>6 DEF QuietMove

LEMMA OverlayDoes ==
  ASSUME VideoShape, ClaimOrder, Progress, NEW s \in Share, Overlay(s)
  PROVE  QuietMove(s)
<1>1. PICK next \in {"half", "live", "ended", "over"}, m \in {"ovHeader", "ovStream"}, e \in {0, s} :
        /\ share' = [share EXCEPT ![s].overlay = next]
        /\ maps' = maps \/ maps' = [maps EXCEPT ![share[s].user][m] = e]
  BY DEF Overlay
<1> DEFINE r == [share[s] EXCEPT !.overlay = next]
<1>2. share[s] \in ShareRec /\ share[s].overlay # "none"
  BY ShapeOf DEF Overlay
<1>3. share' = [share EXCEPT ![s] = r]
  BY <1>1, ShapeOf
<1>4. /\ r \in ShareRec /\ r.at = share[s].at /\ r.done = share[s].done /\ r.overlay = next
      /\ r.user = share[s].user /\ r.alone = share[s].alone
  BY <1>2 DEF ShareRec
<1> HIDE DEF r
<1>5. m \in VideoMap \ Main /\ e \in 0..MaxShares
  BY ShareNumbers, VideoBounds DEF VideoMap, Main
<1>6. share[s].at # "none"
  BY <1>2 DEF Progress, ProgressOf
<1>7. VideoShape' /\ Stays(s) /\ MainSame(s) /\ share'[s] = r
  BY <1>1, <1>3, <1>4, <1>5, <1>6, QuietShape, ShapeOf DEF Overlay
<1>8. ProgressOf(s)'
  BY <1>2, <1>4, <1>7 DEF StandsAt, Progress, ProgressOf
<1> QED
  BY <1>2, <1>4, <1>7, <1>8 DEF QuietMove

\* The nonce is compared, and goes when it is the session's own.
LEMMA CheckDoes ==
  ASSUME VideoShape, ClaimOrder, Progress, NEW s \in Share, CheckNonce(s),
         NEW u, u = share[s].user
  PROVE  /\ VideoShape' /\ Stays(s) /\ ProgressOf(s)' /\ u \in Sharer
         /\ share[s].at \in {"ended", "failed"} /\ share'[s].overlay = share[s].overlay /\ share'[s].done = 0
         /\ share'[s].at = IF maps[u]["nonce"] # s THEN "over" ELSE IF StandsAt(s, "failed") THEN "dropping" ELSE "teardown"
         /\ \A m \in VideoMap : maps'[u][m] = IF m = "nonce" /\ maps[u]["nonce"] = s THEN 0 ELSE maps[u][m]
<1> DEFINE at2 == IF maps[u]["nonce"] # s THEN "over" ELSE IF StandsAt(s, "failed") THEN "dropping" ELSE "teardown"
           r == [share[s] EXCEPT !.done = 0, !.at = at2]
<1>1. share[s] \in ShareRec /\ share \in [Share -> ShareRec] /\ maps \in [Sharer -> [VideoMap -> 0..MaxShares]]
  BY ShapeOf
<1>2. share[s].at \in {"ended", "failed"} /\ u \in Sharer
  BY <1>1 DEF CheckNonce, ClaimOrder, StandsAt, ShareRec
<1>3. at2 = IF EntryOf(s, "nonce") # s THEN "over" ELSE IF StandsAt(s, "failed") THEN "dropping" ELSE "teardown"
  BY DEF EntryOf
<1>4. at2 \in {"over", "dropping", "teardown"} /\ 0 \in 0..6 /\ (at2 = "dropping" => share[s].at = "failed")
  BY DEF StandsAt
<1>5. share' = [share EXCEPT ![s].done = 0, ![s].at = at2] /\ UNCHANGED <<out, watchers, view, viewers>>
  BY <1>3 DEF CheckNonce
<1>6. maps' = IF maps[u]["nonce"] = s THEN [maps EXCEPT ![u]["nonce"] = 0] ELSE maps
  BY DEF CheckNonce, ComparesNonce, EntryOf
<1> HIDE DEF at2
<1>7. share' = [share EXCEPT ![s] = r]
  BY <1>1, <1>5
<1>8. /\ r \in ShareRec /\ r.at = at2 /\ r.done = 0 /\ r.overlay = share[s].overlay
      /\ r.user = share[s].user /\ r.alone = share[s].alone
  BY <1>1, <1>4 DEF ShareRec
<1> HIDE DEF r
<1>9. share' \in [Share -> ShareRec] /\ share'[s] = r /\ \A t \in Share : t # s => share'[t] = share[t]
  BY <1>1, <1>7, <1>8
<1>10. /\ maps' \in [Sharer -> [VideoMap -> 0..MaxShares]]
       /\ \A x \in Sharer : x # u => maps'[x] = maps[x]
       /\ \A m \in VideoMap : maps'[u][m] = IF m = "nonce" /\ maps[u]["nonce"] = s THEN 0 ELSE maps[u][m]
  <2>1. "nonce" \in VideoMap /\ 0 \in 0..MaxShares
    BY VideoBounds DEF VideoMap
  <2>2. CASE maps[u]["nonce"] = s
    BY <1>1, <1>2, <1>6, <2>1, <2>2
  <2>3. CASE maps[u]["nonce"] # s
    BY <1>1, <1>6, <2>3
  <2> QED
    BY <2>2, <2>3
<1>11. VideoShape'
  BY <1>5, <1>9, <1>10 DEF VideoShape, ShareRec
<1>12. Stays(s)
  BY <1>2, <1>4, <1>5, <1>8, <1>9, <1>10 DEF Stays
<1>13. ProgressOf(s)'
  BY <1>4, <1>8, <1>9 DEF Progress, ProgressOf, StandsAt
<1> QED
  BY <1>2, <1>8, <1>9, <1>10, <1>11, <1>12, <1>13 DEF at2

LEMMA DropDoes ==
  ASSUME VideoShape, ClaimOrder, Progress, NEW s \in Share, DropAct(s),
         NEW u, u = share[s].user
  PROVE  /\ VideoShape' /\ Stays(s) /\ ProgressOf(s)' /\ u \in Sharer
         /\ share[s].at = "dropping" /\ share'[s].overlay = "none" /\ share'[s].at = "over"
         /\ \A m \in VideoMap : maps'[u][m] = IF m = "act" THEN 0 ELSE maps[u][m]
<1> DEFINE r == [share[s] EXCEPT !.at = "over"]
<1>1. share[s] \in ShareRec /\ share \in [Share -> ShareRec] /\ maps \in [Sharer -> [VideoMap -> 0..MaxShares]]
  BY ShapeOf
<1>2. share[s].at = "dropping" /\ u \in Sharer /\ share[s].overlay = "none"
  BY <1>1 DEF DropAct, ClaimOrder, StandsAt, ShareRec, Progress, ProgressOf
<1>3. share' = [share EXCEPT ![s] = r] /\ maps' = [maps EXCEPT ![u]["act"] = 0]
      /\ UNCHANGED <<out, watchers, view, viewers>>
  BY <1>1 DEF DropAct
<1>4. /\ r \in ShareRec /\ r.at = "over" /\ r.overlay = share[s].overlay
      /\ r.user = share[s].user /\ r.alone = share[s].alone
  BY <1>1 DEF ShareRec
<1> HIDE DEF r
<1>5. share' \in [Share -> ShareRec] /\ share'[s] = r /\ \A t \in Share : t # s => share'[t] = share[t]
  BY <1>1, <1>3, <1>4
<1>6. "act" \in VideoMap /\ 0 \in 0..MaxShares
  BY VideoBounds DEF VideoMap
<1>7. /\ maps' \in [Sharer -> [VideoMap -> 0..MaxShares]]
      /\ \A x \in Sharer : x # u => maps'[x] = maps[x]
      /\ \A m \in VideoMap : maps'[u][m] = IF m = "act" THEN 0 ELSE maps[u][m]
  BY <1>1, <1>2, <1>3, <1>6
<1>8. VideoShape'
  BY <1>3, <1>5, <1>7 DEF VideoShape, ShareRec
<1>9. Stays(s)
  BY <1>2, <1>3, <1>4, <1>5, <1>7 DEF Stays
<1>10. ProgressOf(s)'
  BY <1>2, <1>4, <1>5 DEF Progress, ProgressOf, StandsAt
<1> QED
  BY <1>2, <1>4, <1>5, <1>7, <1>8, <1>9, <1>10

LEMMA RemoveDoes ==
  ASSUME VideoShape, ClaimOrder, Progress, NEW s \in Share, RemoveEntry(s),
         NEW u, u = share[s].user, NEW i, i = share[s].done + 1
  PROVE  /\ VideoShape' /\ Stays(s) /\ ProgressOf(s)' /\ u \in Sharer
         /\ share[s].at = "teardown" /\ share'[s].overlay = share[s].overlay
         /\ i \in 1..6 /\ share'[s].done = i /\ share'[s].at = IF i = 6 THEN "over" ELSE "teardown"
         /\ \A m \in VideoMap : maps'[u][m] = IF m = TearDown[i] THEN 0 ELSE maps[u][m]
<1> DEFINE map == TearDown[i]
           at2 == IF i = 6 THEN "over" ELSE "teardown"
           r == [share[s] EXCEPT !.done = i, !.at = at2]
<1>1. /\ share[s] \in ShareRec /\ share \in [Share -> ShareRec] /\ maps \in [Sharer -> [VideoMap -> 0..MaxShares]]
      /\ out \in [Share -> Seq({"key", "delta", "end"})]
  BY ShapeOf
<1>2. share[s].at = "teardown" /\ u \in Sharer /\ i \in 1..6
  BY <1>1 DEF RemoveEntry, ClaimOrder, StandsAt, ShareRec, Progress, ProgressOf
<1>3. map \in VideoMap /\ 0 \in 0..MaxShares /\ (map = "sharer" <=> i = 6) /\ i \in 0..6 /\ at2 \in {"over", "teardown"}
  <2>1. i = 1 \/ i = 2 \/ i = 3 \/ i = 4 \/ i = 5 \/ i = 6
    BY <1>2
  <2>2. map = "sharer" <=> i = 6
    BY <2>1, Steps
  <2> QED
    BY <1>2, <2>2, StepMaps, VideoBounds
<1>4. at2 = IF map = "sharer" THEN "over" ELSE share[s].at
  BY <1>2, <1>3
<1>5. /\ share' = [share EXCEPT ![s].done = @ + 1, ![s].at = IF map = "sharer" THEN "over" ELSE @]
      /\ maps' = [maps EXCEPT ![u][map] = 0]
      /\ UNCHANGED <<watchers, view, viewers>>
  BY DEF RemoveEntry
<1>6. share' = [share EXCEPT ![s] = r]
  BY <1>1, <1>4, <1>5
<1> HIDE DEF at2
<1>7. /\ r \in ShareRec /\ r.at = at2 /\ r.done = i /\ r.overlay = share[s].overlay
      /\ r.user = share[s].user /\ r.alone = share[s].alone
  BY <1>1, <1>3 DEF ShareRec
<1> HIDE DEF r
<1>8. share' \in [Share -> ShareRec] /\ share'[s] = r /\ \A t \in Share : t # s => share'[t] = share[t]
  BY <1>1, <1>6, <1>7
<1> HIDE DEF map
<1>9. /\ maps' \in [Sharer -> [VideoMap -> 0..MaxShares]]
      /\ \A x \in Sharer : x # u => maps'[x] = maps[x]
      /\ \A m \in VideoMap : maps'[u][m] = IF m = map THEN 0 ELSE maps[u][m]
  BY <1>1, <1>2, <1>3, <1>5
<1>10. out' \in [Share -> Seq({"key", "delta", "end"})]
  <2>1. out' = out \/ out' = [out EXCEPT ![s] = Append(@, "end")]
    BY DEF RemoveEntry
  <2>2. Append(out[s], "end") \in Seq({"key", "delta", "end"})
    BY <1>1
  <2> QED
    BY <1>1, <2>1, <2>2
<1>11. VideoShape'
  BY <1>5, <1>8, <1>9, <1>10 DEF VideoShape, ShareRec
<1>12. Stays(s)
  BY <1>2, <1>3, <1>5, <1>7, <1>8, <1>9 DEF Stays
<1>13. ProgressOf(s)'
  <2>1. i = 6 \/ i \in 0..5
    BY <1>2
  <2> QED
    BY <1>7, <1>8, <2>1 DEF ProgressOf, StandsAt, at2
<1> QED
  BY <1>2, <1>7, <1>8, <1>9, <1>11, <1>12, <1>13 DEF at2, map

-----------------------------------------------------------------------------
(* The maps and the sessions.                                              *)

LEMMA SameUsers ==
  ASSUME \A t \in Share : share'[t].user = share[t].user
  PROVE  \A u : SharesOf(u)' = SharesOf(u) /\ \A s : Newest(u, s)' <=> Newest(u, s)
BY DEF SharesOf, Newest

\* A step of a session keeps what relates sessions and maps, if it keeps what its user's newest
\* session relies on: its own part when it is the newest, and otherwise the maps of the setup.
LEMMA PublishKeeps ==
  ASSUME VideoShape, ShareInv, NEW s \in Share, NEW u \in Sharer, u = share[s].user,
         Stays(s), ProgressOf(s)',
         Newest(u, s) /\ share[s].alone => Listed(u, s)',
         \A t \in Share : t # s /\ Newest(u, t) /\ share[t].alone => share'[s].at \in Calm /\ MainSame(s),
         maps'[u]["nonce"] \in {maps[u]["nonce"], 0},
         maps'[u]["act"] \in {maps[u]["act"], 0, s}, maps'[u]["sharer"] \in {maps[u]["sharer"], 0, s},
         maps'[u]["act"] = s => (share'[s].at = "setup" => share'[s].done >= 2),
         maps'[u]["sharer"] = s => share'[s].overlay # "none"
  PROVE  ShareInv'
<1>1. \A t \in Share : share'[t].user = share[t].user /\ share'[t].alone = share[t].alone
  BY DEF Stays
<1>2. \A x : SharesOf(x)' = SharesOf(x) /\ \A t : Newest(x, t)' <=> Newest(x, t)
  BY <1>1, SameUsers
<1>3. \A t \in Share : t # s => share'[t] = share[t]
  BY DEF Stays
<1>4. \A x \in Sharer : x # u => maps'[x] = maps[x]
  BY DEF Stays
<1>5. ClaimOrder'
  <2>1. \A t \in Share : StandsAt(t, "none")' <=> StandsAt(t, "none")
    BY <1>3 DEF Stays, StandsAt
  <2> QED
    BY <1>1, <2>1 DEF ShareInv, ClaimOrder
<1>6. Progress'
  BY <1>3 DEF ShareInv, Progress, ProgressOf, StandsAt
<1>7. s \in SharesOf(u)
  BY DEF SharesOf
<1>8. HasNewest'
  BY <1>2, <1>4, <1>7 DEF ShareInv, HasNewest
<1>9. EntriesFit'
  <2> SUFFICES ASSUME NEW x \in Sharer, NEW t \in Share
               PROVE  /\ maps'[x]["nonce"] = t => Newest(x, t)
                      /\ maps'[x]["act"] = t => t \in SharesOf(x) /\ (share'[t].at = "setup" => share'[t].done >= 2)
                      /\ maps'[x]["sharer"] = t => t \in SharesOf(x) /\ share'[t].overlay # "none"
    BY <1>2 DEF EntriesFit, EntriesOf, StandsAt
  <2>1. /\ maps[x]["nonce"] = t => Newest(x, t)
        /\ maps[x]["act"] = t => t \in SharesOf(x) /\ (share[t].at = "setup" => share[t].done >= 2)
        /\ maps[x]["sharer"] = t => t \in SharesOf(x) /\ share[t].overlay # "none"
    BY DEF ShareInv, EntriesFit, EntriesOf, StandsAt
  <2>2. t # 0
    BY ShareNumbers
  <2>3. CASE x # u
    <3>1. t = s => s \notin SharesOf(x)
      BY <2>3 DEF SharesOf
    <3>2. t = s => ~Newest(x, t)
      BY <3>1 DEF Newest
    <3> QED
      BY <1>3, <1>4, <2>1, <2>3, <3>1, <3>2
  <2>4. CASE x = u /\ t = s
    <3>1. maps'[u]["nonce"] = s => Newest(u, s)
      BY <2>1, <2>2, <2>4
    <3> QED
      BY <1>7, <2>4, <3>1
  <2>5. CASE x = u /\ t # s
    BY <1>3, <2>1, <2>2, <2>5
  <2> QED
    BY <2>3, <2>4, <2>5
<1>10. NewestKept'
  <2> SUFFICES ASSUME NEW x \in Sharer, NEW t \in Share, Newest(x, t), share[t].alone
               PROVE  OthersCalm(x, t)' /\ Listed(x, t)'
    BY <1>1, <1>2 DEF NewestKept
  <2>1. OthersCalm(x, t) /\ Listed(x, t)
    BY DEF ShareInv, NewestKept
  <2>2. CASE x # u
    <3>1. s \notin SharesOf(x) /\ t # s
      BY <2>2 DEF SharesOf, Newest
    <3>2. OthersCalm(x, t)'
      BY <1>2, <1>3, <2>1, <3>1 DEF OthersCalm, SharesOf
    <3>3. Listed(x, t)'
      BY <1>3, <1>4, <2>1, <2>2, <3>1 DEF Listed, StandsAt
    <3> QED
      BY <3>2, <3>3
  <2>3. CASE x = u /\ t = s
    <3>1. OthersCalm(x, t)'
      BY <1>2, <1>3, <2>1, <2>3 DEF OthersCalm, SharesOf
    <3>2. Listed(x, t)'
      BY <2>3
    <3> QED
      BY <3>1, <3>2
  <2>4. CASE x = u /\ t # s
    <3>1. share'[s].at \in Calm /\ MainSame(s) /\ share'[t] = share[t]
      BY <1>3, <2>4
    <3>2. OthersCalm(x, t)'
      BY <1>2, <1>3, <2>1, <3>1 DEF OthersCalm, SharesOf
    <3>3. \A m \in Main : maps'[x][m] = maps[x][m]
      BY <2>4, <3>1 DEF MainSame
    <3>4. share[t].at \in {"setup", "waiting", "live", "cached"} => \A i \in 1..share[t].done : SetUp[i] \in Main
      <4>1. share[t].at \in {"setup", "waiting", "live", "cached"} => share[t].done \in 1..5
        BY DEF ShareInv, Progress, ProgressOf, StandsAt
      <4> QED
        BY <4>1, StepMaps
    <3>5. Listed(x, t)'
      <4>1. "nonce" \in Main
        BY DEF Main
      <4> QED
        BY <2>1, <3>1, <3>3, <3>4, <4>1 DEF Listed, StandsAt
    <3> QED
      BY <3>2, <3>5
  <2> QED
    BY <2>2, <2>3, <2>4
<1> QED
  BY <1>5, <1>6, <1>8, <1>9, <1>10 DEF ShareInv

LEMMA QuietKeeps ==
  ASSUME VideoShape, ShareInv, NEW s \in Share, QuietMove(s), NEW u, u = share[s].user
  PROVE  ShareInv'
<1>1. share[s] \in ShareRec /\ u \in Sharer /\ s \in SharesOf(u)
  BY ShapeOf DEF QuietMove, Stays, ShareInv, ClaimOrder, StandsAt, ShareRec, SharesOf
<1>2. \A m \in Main : maps'[u][m] = maps[u][m]
  BY DEF QuietMove, MainSame
<1>3. "nonce" \in Main /\ "act" \in Main /\ "sharer" \in Main
  BY DEF Main
<1>4. ProgressOf(s) /\ ProgressOf(s)'
  BY DEF QuietMove, ShareInv, Progress
<1>5. share'[s].done = share[s].done
  BY DEF QuietMove
<1>6. share[s].at \in {"setup", "waiting", "live", "cached"} => \A i \in 1..share[s].done : SetUp[i] \in Main
  <2>1. share[s].at \in {"setup", "waiting", "live", "cached"} => share[s].done \in 1..5
    BY <1>4 DEF ProgressOf, StandsAt
  <2> QED
    BY <2>1, StepMaps
<1>7. \/ share'[s].at = share[s].at
      \/ share[s].at = "waiting" /\ share'[s].at \in {"setup", "failed", "ended"}
      \/ share[s].at \in {"live", "cached"} /\ share'[s].at \in {"live", "cached", "ended"}
  BY DEF QuietMove, StandsAt
<1>8. ASSUME Newest(u, s), share[s].alone PROVE Listed(u, s)'
  <2>1. Listed(u, s)
    BY <1>1, <1>8 DEF ShareInv, NewestKept
  <2>2. share'[s].at = "over" /\ share'[s].overlay # "none" => share[s].overlay # "none"
    BY DEF QuietMove
  <2>3. /\ share'[s].at \in {"setup", "waiting", "live", "cached"}
             => \A i \in 1..share'[s].done : maps'[u][SetUp[i]] = s
        /\ share'[s].at \in {"setup", "waiting", "live", "cached", "ended", "failed"} => maps'[u]["nonce"] = s
        /\ share'[s].at \in {"dropping", "teardown", "over"} => maps'[u]["nonce"] = 0
        /\ share'[s].at = "teardown"
             => \A i \in 1..share'[s].done : TearDown[i] \in Main => maps'[u][TearDown[i]] = 0
        /\ share'[s].at = "over" /\ share'[s].overlay # "none" => \A m \in Main : maps'[u][m] = 0
    BY <1>2, <1>3, <1>5, <1>6, <1>7, <2>1, <2>2 DEF Listed, StandsAt
  <2> QED
    BY <2>3 DEF Listed, StandsAt
<1>9. ASSUME NEW t \in Share, t # s, Newest(u, t), share[t].alone PROVE share'[s].at \in Calm /\ MainSame(s)
  <2>1. share[s].at \in Calm
    BY <1>1, <1>9 DEF ShareInv, NewestKept, OthersCalm
  <2> QED
    BY <1>7, <2>1 DEF Calm, QuietMove
<1>10. EntriesOf(u, s)
  BY <1>1 DEF ShareInv, EntriesFit, EntriesOf, StandsAt
<1>11. maps'[u]["act"] = s => (share'[s].at = "setup" => share'[s].done >= 2)
  BY <1>2, <1>3, <1>4, <1>5, <1>7, <1>10 DEF EntriesOf, ProgressOf, StandsAt
<1>12. maps'[u]["sharer"] = s => share'[s].overlay # "none"
  BY <1>2, <1>3, <1>10 DEF EntriesOf, QuietMove, Stays
<1>13. Stays(s) /\ ProgressOf(s)'
  BY DEF QuietMove
<1> QED
  BY <1>1, <1>2, <1>3, <1>8, <1>9, <1>11, <1>12, <1>13, PublishKeeps

LEMMA EnterKeeps ==
  ASSUME VideoShape, ShareInv, NEW s \in Share, Enter(s), NEW u, u = share[s].user
  PROVE  ShareInv'
<1> DEFINE i == share[s].done + 1
<1>1. /\ Stays(s) /\ ProgressOf(s)'
      /\ u \in Sharer /\ i \in 2..5 /\ share[s].at = "setup" /\ share'[s].done = i
      /\ share'[s].at = IF i = 2 THEN "waiting" ELSE IF i = 5 THEN "live" ELSE "setup"
      /\ share'[s].overlay = IF i = 5 THEN "announced" ELSE share[s].overlay
      /\ \A m \in VideoMap : maps'[u][m] = IF m = SetUp[i] THEN s ELSE maps[u][m]
  BY EnterDoes DEF ShareInv, StandsAt
<1>2. share[s] \in ShareRec /\ s \in SharesOf(u) /\ ProgressOf(s)
  BY ShapeOf DEF SharesOf, ShareInv, Progress
<1>3. share[s].done \in 1..4
  BY <1>1, <1>2 DEF ProgressOf, StandsAt
<1>4. (SetUp[i] = "act" <=> i = 2) /\ (SetUp[i] = "sharer" <=> i = 5) /\ SetUp[i] # "nonce"
  <2>1. i = 2 \/ i = 3 \/ i = 4 \/ i = 5
    BY <1>1
  <2> QED
    BY <2>1, Steps
<1>5. \A k \in 1..share[s].done : SetUp[k] \in VideoMap
  BY <1>3, StepMaps
<1>6. ASSUME Newest(u, s), share[s].alone PROVE Listed(u, s)'
  <2>1. Listed(u, s)
    BY <1>1, <1>6 DEF ShareInv, NewestKept
  <2>2. \A k \in 1..share[s].done : maps[u][SetUp[k]] = s
    BY <1>1, <2>1 DEF Listed
  <2>3. \A k \in 1..i : k \in 1..share[s].done \/ k = i
    BY <1>3
  <2>4. \A k \in 1..i : maps'[u][SetUp[k]] = s
    <3>1. SetUp[i] \in VideoMap
      BY <1>1, StepMaps
    <3> QED
      BY <1>1, <1>5, <2>2, <2>3, <3>1
  <2>5. maps'[u]["nonce"] = s
    BY <1>1, <1>4, <2>1 DEF Listed, VideoMap
  <2>6. share'[s].at \in {"waiting", "live", "setup"}
    BY <1>1
  <2> QED
    BY <1>1, <2>4, <2>5, <2>6 DEF Listed, StandsAt
<1>7. ASSUME NEW t \in Share, t # s, Newest(u, t), share[t].alone PROVE FALSE
  BY <1>1, <1>2, <1>7 DEF ShareInv, NewestKept, OthersCalm, Calm
<1>8. EntriesOf(u, s)
  BY <1>1 DEF ShareInv, EntriesFit
<1>9. /\ maps'[u]["nonce"] = maps[u]["nonce"]
      /\ maps'[u]["act"] \in {maps[u]["act"], s} /\ maps'[u]["sharer"] \in {maps[u]["sharer"], s}
  BY <1>1, <1>4 DEF VideoMap
<1>10. maps'[u]["act"] = s => (share'[s].at = "setup" => share'[s].done >= 2)
  BY <1>1
<1>11. maps'[u]["sharer"] = s => share'[s].overlay # "none"
  <2>1. CASE i = 5
    BY <1>1, <2>1
  <2>2. CASE i # 5
    BY <1>1, <1>4, <1>8, <2>2 DEF EntriesOf, VideoMap
  <2> QED
    BY <2>1, <2>2
<1> QED
  BY <1>1, <1>6, <1>7, <1>9, <1>10, <1>11, PublishKeeps

LEMMA CheckKeeps ==
  ASSUME VideoShape, ShareInv, NEW s \in Share, CheckNonce(s), NEW u, u = share[s].user
  PROVE  ShareInv'
<1>1. /\ Stays(s) /\ ProgressOf(s)' /\ u \in Sharer
      /\ share[s].at \in {"ended", "failed"} /\ share'[s].overlay = share[s].overlay /\ share'[s].done = 0
      /\ share'[s].at = IF maps[u]["nonce"] # s THEN "over" ELSE IF share[s].at = "failed" THEN "dropping" ELSE "teardown"
      /\ \A m \in VideoMap : maps'[u][m] = IF m = "nonce" /\ maps[u]["nonce"] = s THEN 0 ELSE maps[u][m]
  BY CheckDoes DEF ShareInv, StandsAt
<1>2. s \in SharesOf(u) /\ EntriesOf(u, s)
  BY <1>1 DEF SharesOf, ShareInv, EntriesFit
<1>3. /\ maps'[u]["nonce"] \in {maps[u]["nonce"], 0}
      /\ maps'[u]["act"] = maps[u]["act"] /\ maps'[u]["sharer"] = maps[u]["sharer"]
  BY <1>1 DEF VideoMap
<1>4. ASSUME Newest(u, s), share[s].alone PROVE Listed(u, s)'
  <2>1. maps[u]["nonce"] = s
    BY <1>1, <1>4 DEF ShareInv, NewestKept, Listed
  <2>2. maps'[u]["nonce"] = 0 /\ share'[s].at \in {"dropping", "teardown"}
    BY <1>1, <2>1 DEF VideoMap
  <2> QED
    BY <1>1, <2>2 DEF Listed, StandsAt
<1>5. ASSUME NEW t \in Share, t # s, Newest(u, t), share[t].alone PROVE share'[s].at \in Calm /\ MainSame(s)
  <2>1. maps[u]["nonce"] # s
    <3>1. ~Newest(u, s)
      BY <1>2, <1>5, ShareNumbers DEF Newest
    <3> QED
      BY <1>2, <3>1 DEF EntriesOf
  <2> QED
    BY <1>1, <2>1, StepMaps DEF Calm, MainSame
<1>6. maps'[u]["sharer"] = s => share'[s].overlay # "none"
  BY <1>1, <1>2, <1>3 DEF EntriesOf
<1> QED
  BY <1>1, <1>3, <1>4, <1>5, <1>6, PublishKeeps

LEMMA DropKeeps ==
  ASSUME VideoShape, ShareInv, NEW s \in Share, DropAct(s), NEW u, u = share[s].user
  PROVE  ShareInv'
<1>1. /\ Stays(s) /\ ProgressOf(s)' /\ u \in Sharer
      /\ share[s].at = "dropping" /\ share'[s].overlay = "none" /\ share'[s].at = "over"
      /\ \A m \in VideoMap : maps'[u][m] = IF m = "act" THEN 0 ELSE maps[u][m]
  BY DropDoes DEF ShareInv
<1>2. s \in SharesOf(u) /\ EntriesOf(u, s) /\ share[s].overlay = "none"
  BY <1>1 DEF SharesOf, ShareInv, EntriesFit, Progress, ProgressOf
<1>3. /\ maps'[u]["nonce"] = maps[u]["nonce"]
      /\ maps'[u]["act"] = 0 /\ maps'[u]["sharer"] = maps[u]["sharer"]
  BY <1>1 DEF VideoMap
<1>4. ASSUME Newest(u, s), share[s].alone PROVE Listed(u, s)'
  <2>1. maps[u]["nonce"] = 0
    BY <1>1, <1>4 DEF ShareInv, NewestKept, Listed
  <2> QED
    BY <1>1, <1>3, <2>1 DEF Listed, StandsAt
<1>5. ASSUME NEW t \in Share, t # s, Newest(u, t), share[t].alone PROVE FALSE
  BY <1>1, <1>2, <1>5 DEF ShareInv, NewestKept, OthersCalm, Calm
<1>6. maps'[u]["sharer"] = s => share'[s].overlay # "none"
  BY <1>2, <1>3 DEF EntriesOf
<1>7. share'[s].at # "setup"
  BY <1>1
<1> QED
  BY <1>1, <1>3, <1>4, <1>5, <1>6, <1>7, PublishKeeps

LEMMA RemoveKeeps ==
  ASSUME VideoShape, ShareInv, NEW s \in Share, RemoveEntry(s), NEW u, u = share[s].user,
         NEW i, i = share[s].done + 1
  PROVE  ShareInv'
<1>1. /\ Stays(s) /\ ProgressOf(s)' /\ u \in Sharer
      /\ share[s].at = "teardown" /\ share'[s].overlay = share[s].overlay
      /\ i \in 1..6 /\ share'[s].done = i /\ share'[s].at = IF i = 6 THEN "over" ELSE "teardown"
      /\ \A m \in VideoMap : maps'[u][m] = IF m = TearDown[i] THEN 0 ELSE maps[u][m]
  BY RemoveDoes DEF ShareInv
<1>2. s \in SharesOf(u) /\ EntriesOf(u, s) /\ share[s] \in ShareRec
  BY <1>1, ShapeOf DEF SharesOf, ShareInv, EntriesFit
<1>3. /\ maps'[u]["nonce"] \in {maps[u]["nonce"], 0}
      /\ maps'[u]["act"] \in {maps[u]["act"], 0} /\ maps'[u]["sharer"] \in {maps[u]["sharer"], 0}
  BY <1>1 DEF VideoMap
<1>4. ASSUME Newest(u, s), share[s].alone PROVE Listed(u, s)'
  <2>1. /\ maps[u]["nonce"] = 0
        /\ \A k \in 1..share[s].done : TearDown[k] \in Main => maps[u][TearDown[k]] = 0
    BY <1>1, <1>4 DEF ShareInv, NewestKept, Listed, StandsAt
  <2>2. \A k \in 1..i : k \in 1..share[s].done \/ k = i
    BY <1>1, <1>2 DEF ShareRec
  <2>3. \A k \in 1..6 : k \in 1..i /\ TearDown[k] \in Main => maps'[u][TearDown[k]] = 0
    BY <1>1, <2>1, <2>2, StepMaps
  <2>4. i = 6 => \A m \in Main : maps'[u][m] = 0
    <3>1. \A m \in Main : m = "nonce" \/ \E k \in 1..6 : TearDown[k] = m
      <4>1. 1 \in 1..6 /\ 4 \in 1..6 /\ 5 \in 1..6 /\ 6 \in 1..6
        OBVIOUS
      <4> QED
        BY <4>1, Steps DEF Main
    <3> QED
      BY <1>3, <2>1, <2>3, <3>1
  <2>5. maps'[u]["nonce"] = 0
    BY <1>3, <2>1
  <2>6. share'[s].at \in {"teardown", "over"} /\ (share'[s].at = "over" => i = 6)
    BY <1>1
  <2>7. \A k \in 1..i : k \in 1..6
    BY <1>1
  <2> QED
    BY <1>1, <2>3, <2>4, <2>5, <2>6, <2>7 DEF Listed, StandsAt
<1>5. ASSUME NEW t \in Share, t # s, Newest(u, t), share[t].alone PROVE FALSE
  BY <1>1, <1>2, <1>5 DEF ShareInv, NewestKept, OthersCalm, Calm
<1>6. maps'[u]["sharer"] = s => share'[s].overlay # "none"
  BY <1>1, <1>2, <1>3, ShareNumbers DEF EntriesOf
<1>7. share'[s].at # "setup"
  BY <1>1
<1> QED
  BY <1>1, <1>3, <1>4, <1>5, <1>6, <1>7, PublishKeeps

\* The session that claims is its user's newest, and nothing else is of it yet.
LEMMA ClaimKeeps ==
  ASSUME VideoShape, ShareInv, NEW u \in Sharer, ClaimShare(u)
  PROVE  ShareInv'
<1>1. PICK s \in Share :
        /\ StandsAt(s, "none") /\ \A t \in Share : t < s => ~StandsAt(t, "none")
        /\ VideoShape'
        /\ \A t \in Share : t # s => share'[t] = share[t]
        /\ share'[s].user = u /\ share'[s].at = "setup" /\ share'[s].done = 1 /\ share'[s].overlay = "none"
        /\ share'[s].alone => \A t \in SharesOf(u) : share[t].at \in Calm
        /\ \A x \in Sharer, m \in VideoMap :
              maps'[x][m] = IF x = u /\ m = "nonce" THEN s ELSE maps[x][m]
        /\ UNCHANGED <<out, watchers, view, viewers>>
  BY ClaimDoes
<1>2. u # 0 /\ share[s].user = 0
  BY <1>1, VideoNobody DEF ShareInv, ClaimOrder
<1>3. \A t \in Share : t > s => share[t].user = 0
  BY <1>1, ShareNumbers DEF ShareInv, ClaimOrder
<1>4. \A x \in Sharer : SharesOf(x)' = IF x = u THEN SharesOf(u) \cup {s} ELSE SharesOf(x)
  BY <1>1, <1>2, VideoNobody DEF SharesOf
<1>5. \A x \in Sharer : s \notin SharesOf(x)
  BY <1>2, VideoNobody DEF SharesOf
<1>6. \A t \in SharesOf(u) : t \in Share /\ t < s
  BY <1>2, <1>3, <1>5, ShareNumbers DEF SharesOf
<1>7. \A t \in Share : Newest(u, t)' <=> t = s
  <2>1. Newest(u, s)'
    BY <1>4, <1>6, ShareNumbers DEF Newest
  <2>2. \A t \in Share : Newest(u, t)' => t = s
    BY <1>4, <1>6, ShareNumbers DEF Newest
  <2> QED
    BY <2>1, <2>2
<1>8. \A x \in Sharer, t \in Share : x # u => (Newest(x, t)' <=> Newest(x, t))
  BY <1>4 DEF Newest
<1>9. Main \subseteq VideoMap /\ "nonce" \in Main /\ "act" \in Main /\ "sharer" \in Main
  BY DEF Main, VideoMap
<1>10. ClaimOrder'
  <2>1. \A t \in Share : StandsAt(t, "none")' <=> StandsAt(t, "none") /\ t # s
    BY <1>1 DEF StandsAt
  <2>2. \A t \in Share : StandsAt(t, "none")' <=> share'[t].user = 0
    BY <1>1, <1>2, <2>1 DEF ShareInv, ClaimOrder
  <2>3. \A t, w \in Share : t < w /\ StandsAt(t, "none")' => StandsAt(w, "none")'
    BY <1>1, <2>1 DEF ShareInv, ClaimOrder
  <2> QED
    BY <2>2, <2>3 DEF ClaimOrder
<1>11. Progress'
  <2>1. ProgressOf(s)'
    BY <1>1 DEF ProgressOf, StandsAt
  <2> QED
    BY <1>1, <2>1 DEF ShareInv, Progress, ProgressOf, StandsAt
<1>12. HasNewest'
  <2> SUFFICES ASSUME NEW x \in Sharer
               PROVE  \/ SharesOf(x)' = {} /\ \A m \in Main : maps'[x][m] = 0
                      \/ \E t \in Share : Newest(x, t)'
    BY DEF HasNewest
  <2>1. CASE x = u
    BY <1>7, <2>1
  <2>2. CASE x # u
    <3>1. \A m \in Main : maps'[x][m] = maps[x][m]
      BY <1>1, <1>9, <2>2
    <3> QED
      BY <1>4, <1>8, <2>2, <3>1 DEF ShareInv, HasNewest
  <2> QED
    BY <2>1, <2>2
<1>13. EntriesFit'
  <2> SUFFICES ASSUME NEW x \in Sharer, NEW t \in Share
               PROVE  /\ maps'[x]["nonce"] = t => Newest(x, t)'
                      /\ maps'[x]["act"] = t => t \in SharesOf(x)' /\ (share'[t].at = "setup" => share'[t].done >= 2)
                      /\ maps'[x]["sharer"] = t => t \in SharesOf(x)' /\ share'[t].overlay # "none"
    BY DEF EntriesFit, EntriesOf, StandsAt
  <2>1. /\ maps[x]["nonce"] = t => Newest(x, t)
        /\ maps[x]["act"] = t => t \in SharesOf(x) /\ (share[t].at = "setup" => share[t].done >= 2)
        /\ maps[x]["sharer"] = t => t \in SharesOf(x) /\ share[t].overlay # "none"
    BY DEF ShareInv, EntriesFit, EntriesOf, StandsAt
  <2>2. /\ maps'[x]["act"] = maps[x]["act"] /\ maps'[x]["sharer"] = maps[x]["sharer"]
        /\ maps'[x]["nonce"] = IF x = u THEN s ELSE maps[x]["nonce"]
    BY <1>1, <1>9
  <2>3. t \in SharesOf(x) => t \in SharesOf(x)' /\ share'[t] = share[t]
    BY <1>1, <1>4, <1>5
  <2> QED
    BY <1>7, <1>8, <2>1, <2>2, <2>3
<1>14. NewestKept'
  <2> SUFFICES ASSUME NEW x \in Sharer, NEW t \in Share, Newest(x, t)', share'[t].alone
               PROVE  OthersCalm(x, t)' /\ Listed(x, t)'
    BY DEF NewestKept
  <2>1. CASE x = u
    <3>1. t = s
      BY <1>7, <2>1
    <3>2. OthersCalm(x, t)'
      BY <1>1, <1>4, <1>5, <2>1, <3>1 DEF OthersCalm, SharesOf
    <3>3. maps'[u]["nonce"] = s
      BY <1>1, <1>9
    <3>4. \A i \in 1..share'[s].done : maps'[u][SetUp[i]] = s
      <4>1. \A i \in 1..1 : i = 1
        OBVIOUS
      <4> QED
        BY <1>1, <3>3, <4>1, Steps
    <3>5. Listed(x, t)'
      BY <1>1, <2>1, <3>1, <3>3, <3>4 DEF Listed, StandsAt
    <3> QED
      BY <3>2, <3>5
  <2>2. CASE x # u
    <3>1. Newest(x, t) /\ t # s /\ share'[t] = share[t] /\ SharesOf(x)' = SharesOf(x)
      BY <1>1, <1>4, <1>5, <1>8, <2>2 DEF Newest
    <3>2. OthersCalm(x, t) /\ Listed(x, t)
      BY <3>1 DEF ShareInv, NewestKept
    <3>3. OthersCalm(x, t)'
      BY <1>1, <1>5, <3>1, <3>2 DEF OthersCalm, SharesOf
    <3>4. \A m \in Main : maps'[x][m] = maps[x][m]
      BY <1>1, <1>9, <2>2
    <3>5. share[t].at \in {"setup", "waiting", "live", "cached"} => \A i \in 1..share[t].done : SetUp[i] \in Main
      <4>1. share[t].at \in {"setup", "waiting", "live", "cached"} => share[t].done \in 1..5
        BY DEF ShareInv, Progress, ProgressOf, StandsAt
      <4> QED
        BY <4>1, StepMaps
    <3>6. Listed(x, t)'
      BY <1>9, <3>1, <3>2, <3>4, <3>5 DEF Listed, StandsAt
    <3> QED
      BY <3>3, <3>6
  <2> QED
    BY <2>1, <2>2
<1> QED
  BY <1>10, <1>11, <1>12, <1>13, <1>14 DEF ShareInv

-----------------------------------------------------------------------------
(* The viewers and their counts.                                           *)

\* A session whose activation channel no viewer can have found.
Fresh(s) == StandsAt(s, "none") \/ (StandsAt(s, "setup") /\ share[s].done = 1)
\* The viewers the activation of the user's first share counts.
CountedOf(u) == {v \in Viewer : view[v].user = u /\ view[v].at \in {"watching", "leaving"}}

LEMMA CountsMean ==
  ViewersCounted <=>
    /\ viewers = Cardinality(Watching)
    /\ \A u \in Sharer, s \in Share :
          SharesOf(u) = {s} /\ maps[u]["act"] = s => watchers[s] = Cardinality(CountedOf(u))
BY DEF ViewersCounted, CountedOf

LEMMA FiniteViews == \A u : IsFiniteSet(CountedOf(u)) /\ IsFiniteSet(Watching)
<1>1. \A u : CountedOf(u) \subseteq Viewer /\ Watching \subseteq Viewer
  BY DEF CountedOf, Watching
<1> QED
  BY <1>1, VideoBounds, FS_Subset

\* A step of a session that lists its activation channel only before anybody can have found it.
LEMMA PublishCounts ==
  ASSUME VideoShape, ShareInv, ViewInv, NEW s \in Share, NEW u \in Sharer, u = share[s].user,
         Stays(s), Fresh(s)' => Fresh(s),
         maps'[u]["act"] \in {maps[u]["act"], 0} \/ (Fresh(s) /\ share[s].overlay = "none")
  PROVE  ViewInv'
<1>1. \A t \in Share : share'[t].user = share[t].user /\ (share[t].overlay # "none" => share'[t].overlay # "none")
  BY DEF Stays
<1>2. \A x : SharesOf(x)' = SharesOf(x)
  BY <1>1, SameUsers
<1>3. UNCHANGED <<watchers, view, viewers>>
  BY DEF Stays
<1>4. Seen'
  BY <1>1, <1>2, <1>3 DEF ViewInv, Seen, SharesOf
<1>5. NotYetCounted'
  <2>1. \A t \in Share : Fresh(t)' => Fresh(t)
    BY DEF Stays, Fresh, StandsAt
  <2> QED
    BY <1>3, <2>1 DEF ViewInv, NotYetCounted, Fresh
<1>6. viewers' = Cardinality(Watching)' /\ \A x : CountedOf(x)' = CountedOf(x)
  BY <1>3 DEF ViewInv, ViewersCounted, Watching, CountedOf
<1>7. ASSUME NEW x \in Sharer, NEW t \in Share, SharesOf(x)' = {t}, maps'[x]["act"] = t
      PROVE  watchers'[t] = Cardinality(CountedOf(x)')
  <2>1. SharesOf(x) = {t}
    BY <1>2, <1>7
  <2>2. CASE maps[x]["act"] = t
    BY <1>3, <1>6, <2>1, <2>2, CountsMean DEF ViewInv
  <2>3. CASE maps[x]["act"] # t
    <3>1. x = u /\ t = s
      BY <1>7, <2>1, <2>3 DEF Stays, SharesOf
    <3>2. Fresh(s) /\ share[s].overlay = "none"
      BY <1>7, <2>3, <3>1, ShareNumbers
    <3>3. watchers[s] = 0
      BY <3>2 DEF ViewInv, NotYetCounted, Fresh
    <3>4. CountedOf(x) = {}
      BY <2>1, <3>1, <3>2 DEF ViewInv, Seen, CountedOf
    <3> QED
      BY <1>3, <1>6, <3>1, <3>3, <3>4, FS_EmptySet
  <2> QED
    BY <2>2, <2>3
<1>8. ViewersCounted'
  BY <1>6, <1>7 DEF ViewersCounted, CountedOf
<1> QED
  BY <1>4, <1>5, <1>8 DEF ViewInv

LEMMA ClaimCounts ==
  ASSUME VideoShape, ShareInv, ViewInv, NEW u \in Sharer, ClaimShare(u)
  PROVE  ViewInv'
<1>1. PICK s \in Share :
        /\ StandsAt(s, "none") /\ VideoShape'
        /\ \A t \in Share : t # s => share'[t] = share[t]
        /\ share'[s].user = u /\ share'[s].at = "setup" /\ share'[s].done = 1
        /\ \A x \in Sharer, m \in VideoMap :
              maps'[x][m] = IF x = u /\ m = "nonce" THEN s ELSE maps[x][m]
        /\ UNCHANGED <<watchers, view, viewers>>
  BY ClaimDoes
<1>2. \A x \in Sharer : s \notin SharesOf(x)
  BY <1>1, VideoNobody DEF ShareInv, ClaimOrder, SharesOf
<1>3. \A x \in Sharer : SharesOf(x)' = IF x = u THEN SharesOf(u) \cup {s} ELSE SharesOf(x)
  BY <1>1, <1>2, VideoNobody DEF SharesOf
<1>4. Seen'
  <2> SUFFICES ASSUME NEW v \in Viewer, view[v].at # "none"
               PROVE  /\ view[v].user \in Sharer
                      /\ \E t \in Share : share'[t].user = view[v].user /\ share'[t].overlay # "none"
    BY <1>1 DEF Seen, SharesOf
  <2>1. view[v].user \in Sharer /\ \E t \in SharesOf(view[v].user) : share[t].overlay # "none"
    BY DEF ViewInv, Seen
  <2>2. PICK t \in SharesOf(view[v].user) : share[t].overlay # "none"
    BY <2>1
  <2>3. t \in Share /\ t # s /\ share[t].user = view[v].user
    BY <1>2, <2>1 DEF SharesOf
  <2> QED
    BY <1>1, <2>1, <2>2, <2>3
<1>5. NotYetCounted'
  <2>1. \A t \in Share : Fresh(t)' => Fresh(t)
    BY <1>1 DEF Fresh, StandsAt
  <2> QED
    BY <1>1, <2>1 DEF ViewInv, NotYetCounted, Fresh
<1>6. viewers' = Cardinality(Watching)' /\ \A x : CountedOf(x)' = CountedOf(x)
  BY <1>1 DEF ViewInv, ViewersCounted, Watching, CountedOf
<1>7. ASSUME NEW x \in Sharer, NEW t \in Share, SharesOf(x)' = {t}, maps'[x]["act"] = t
      PROVE  watchers'[t] = Cardinality(CountedOf(x)')
  <2>1. maps[x]["act"] = t
    BY <1>1, <1>7 DEF VideoMap
  <2>2. t \in SharesOf(x)
    BY <2>1 DEF ShareInv, EntriesFit, EntriesOf
  <2>3. SharesOf(x) = {t}
    BY <1>2, <1>3, <1>7, <2>2
  <2> QED
    BY <1>1, <1>6, <2>1, <2>3, CountsMean DEF ViewInv
<1>8. ViewersCounted'
  BY <1>6, <1>7 DEF ViewersCounted, CountedOf
<1> QED
  BY <1>4, <1>5, <1>8 DEF ViewInv

\* What a viewer's session has of the delta rule.
FitsStep(r) ==
    /\ r.at \in {"none", "found", "subscribed", "ready"} => r.last = 0
    /\ r.at = "watching" /\ ~r.resync /\ r.last # 0 => r.last = r.next - 1
    /\ r.at \in {"subscribed", "ready", "watching"} => r.of \in Share

LEMMA InStepMeans == InStep <=> \A v \in Viewer : FitsStep(view[v])
BY DEF InStep, FitsStep

\* A step of one viewer's session.
ViewMove(v, r) == view' = [view EXCEPT ![v] = r] /\ UNCHANGED <<share, maps, out>>

LEMMA ViewMoves ==
  ASSUME VideoShape, ShareInv, InStep, NEW v \in Viewer, NEW r \in ViewRec, ViewMove(v, r),
         watchers' \in [Share -> Nat], FitsStep(r)
  PROVE  /\ VideoShape' /\ ShareInv' /\ InStep'
         /\ view'[v] = r /\ \A x \in Viewer : x # v => view'[x] = view[x]
         /\ \A u : SharesOf(u)' = SharesOf(u)
<1>1. view \in [Viewer -> ViewRec]
  BY ShapeOf
<1>2. view' \in [Viewer -> ViewRec] /\ view'[v] = r /\ \A x \in Viewer : x # v => view'[x] = view[x]
  BY <1>1 DEF ViewMove
<1>3. UNCHANGED <<share, maps, out>>
  BY DEF ViewMove
<1>4. VideoShape'
  BY <1>2, <1>3 DEF VideoShape, ViewRec
<1>5. InStep'
  <2>1. \A x \in Viewer : FitsStep(view'[x])
    BY <1>2, InStepMeans
  <2> QED
    BY <2>1 DEF InStep, FitsStep
<1>6. \A u : SharesOf(u)' = SharesOf(u)
  BY <1>3 DEF SharesOf
<1>7. ClaimOrder' /\ Progress' /\ HasNewest' /\ EntriesFit' /\ NewestKept'
  BY <1>3 DEF ShareInv, ClaimOrder, Progress, ProgressOf, HasNewest, EntriesFit, EntriesOf, NewestKept,
              OthersCalm, Listed, Newest, SharesOf, StandsAt
<1> QED
  BY <1>2, <1>4, <1>5, <1>6, <1>7 DEF ShareInv

LEMMA SeenKept ==
  ASSUME Seen, NEW v \in Viewer, UNCHANGED share,
         \A x \in Viewer : x # v => view'[x] = view[x],
         view[v].at # "none", view'[v].user = view[v].user
  PROVE  Seen'
<1>1. \A u : SharesOf(u)' = SharesOf(u)
  BY DEF SharesOf
<1> QED
  BY <1>1 DEF Seen

\* A step that counts nobody in or out.
LEMMA ViewCountsSame ==
  ASSUME VideoShape, ViewInv, NEW v \in Viewer, UNCHANGED <<share, maps, out, watchers, viewers>>,
         \A x \in Viewer : x # v => view'[x] = view[x],
         view'[v].user = view[v].user \/ view[v].at = "none",
         view'[v].at = "watching" <=> view[v].at = "watching", view'[v].at # "leaving", view[v].at # "leaving"
  PROVE  NotYetCounted' /\ ViewersCounted'
<1>1. Watching' = Watching
  BY DEF Watching
<1>2. \A x : CountedOf(x)' = CountedOf(x) /\ SharesOf(x)' = SharesOf(x)
  BY DEF CountedOf, SharesOf
<1>3. NotYetCounted'
  BY DEF ViewInv, NotYetCounted, StandsAt
<1>4. ViewersCounted'
  BY <1>1, <1>2, CountsMean DEF ViewInv, ViewersCounted, CountedOf
<1> QED
  BY <1>3, <1>4

\* What each step of a viewer does to its session.
LEMMA FindDoes ==
  ASSUME VideoShape, ShareAll, NEW v \in Viewer, NEW u \in Sharer, FindSharer(v, u)
  PROVE  ShareAll'
<1> DEFINE r == [NoView EXCEPT !.user = u, !.at = "found"]
<1>1. r \in ViewRec /\ r.user = u /\ r.at = "found" /\ r.last = 0
  <2>1. r.user = u /\ r.at = "found" /\ r.last = 0
    BY DEF NoView
  <2>2. 0 \in 0..MaxShares /\ 0 \in Nat
    BY VideoBounds
  <2>3. r \in ViewRec
    BY ONLY <2>2, u \in Sharer DEF NoView, ViewRec
  <2> QED
    BY <2>1, <2>3
<1>2. FitsStep(r)
  BY <1>1 DEF FitsStep
<1>3. ViewMove(v, r) /\ watchers' \in [Share -> Nat] /\ UNCHANGED <<share, maps, out, watchers, viewers>>
  BY ShapeOf DEF FindSharer, ViewMove
<1>4. view[v].at = "none" /\ maps[u]["sharer"] # 0
  BY DEF FindSharer
<1> HIDE DEF r
<1>5. /\ VideoShape' /\ ShareInv' /\ InStep' /\ view'[v] = r
      /\ \A x \in Viewer : x # v => view'[x] = view[x]
      /\ \A x : SharesOf(x)' = SharesOf(x)
  BY <1>1, <1>2, <1>3, ViewMoves DEF ShareAll
<1>6. maps[u]["sharer"] \in Share
  BY <1>4, ShapeOf, VideoBounds DEF Share, VideoMap
<1>7. maps[u]["sharer"] \in SharesOf(u) /\ share[maps[u]["sharer"]].overlay # "none"
  BY <1>6 DEF ShareAll, ShareInv, EntriesFit, EntriesOf
<1>8. Seen'
  <2> SUFFICES ASSUME NEW x \in Viewer, view'[x].at # "none"
               PROVE  view'[x].user \in Sharer /\ \E t \in Share : share[t].user = view'[x].user /\ share[t].overlay # "none"
    BY <1>3 DEF Seen, SharesOf
  <2>1. CASE x = v
    BY <1>1, <1>5, <1>7, <2>1 DEF SharesOf
  <2>2. CASE x # v
    BY <1>5, <2>2 DEF ShareAll, ViewInv, Seen, SharesOf
  <2> QED
    BY <2>1, <2>2
<1>9. NotYetCounted' /\ ViewersCounted'
  BY <1>1, <1>3, <1>4, <1>5, ViewCountsSame DEF ShareAll
<1> QED
  BY <1>5, <1>8, <1>9 DEF ShareAll, ViewInv

\* A step of a viewer's session after which the same are counted.
LEMMA UncountedStep ==
  ASSUME ShareAll, NEW v \in Viewer, NEW r \in ViewRec, ViewMove(v, r), UNCHANGED <<watchers, viewers>>,
         FitsStep(r), view[v].at # "none", r.user = view[v].user,
         r.at = "watching" <=> view[v].at = "watching", r.at # "leaving", view[v].at # "leaving"
  PROVE  ShareAll'
<1>1. UNCHANGED <<share, maps, out, watchers, viewers>> /\ VideoShape
  BY DEF ViewMove, ShareAll
<1>2. /\ VideoShape' /\ ShareInv' /\ InStep' /\ view'[v] = r
      /\ \A x \in Viewer : x # v => view'[x] = view[x]
  BY <1>1, ViewMoves, ShapeOf DEF ShareAll
<1>3. Seen'
  BY <1>1, <1>2, SeenKept DEF ShareAll, ViewInv
<1>4. NotYetCounted' /\ ViewersCounted'
  BY <1>1, <1>2, ViewCountsSame DEF ShareAll
<1> QED
  BY <1>2, <1>3, <1>4 DEF ShareAll, ViewInv

LEMMA SubscribeKeeps ==
  ASSUME ShareAll, NEW v \in Viewer, Subscribe(v)
  PROVE  ShareAll'
<1>1. /\ view[v] \in ViewRec /\ view \in [Viewer -> ViewRec] /\ view[v].at = "found"
      /\ out \in [Share -> Seq({"key", "delta", "end"})]
  BY ShapeOf DEF Subscribe, ShareAll
<1>2. view[v].last = 0 /\ view[v].user \in Sharer
  BY <1>1 DEF ShareAll, InStep, ViewInv, Seen
<1>3. PICK s : s = maps[view[v].user]["stream"]
  OBVIOUS
<1>4. s \in 0..MaxShares
  BY <1>2, <1>3, ShapeOf DEF ShareAll, VideoMap
<1>5. CASE s = 0
  <2> DEFINE r == [view[v] EXCEPT !.at = "over"]
  <2>1. ViewMove(v, r) /\ UNCHANGED <<watchers, viewers>>
    BY <1>1, <1>3, <1>5 DEF Subscribe, ViewMove
  <2>2. r \in ViewRec /\ r.at = "over" /\ r.user = view[v].user /\ r.last = 0
    BY <1>1, <1>2 DEF ViewRec
  <2> HIDE DEF r
  <2> QED
    BY <1>1, <2>1, <2>2, UncountedStep DEF FitsStep
<1>6. CASE s # 0
  <2>1. s \in Share /\ Len(out[s]) + 1 \in Nat
    <3>1. s \in Share
      BY <1>4, <1>6, VideoBounds DEF Share
    <3>2. out[s] \in Seq({"key", "delta", "end"})
      BY <1>1, <3>1
    <3> QED
      BY <3>1, <3>2
  <2> DEFINE next == Len(out[s]) + 1
             r == [view[v] EXCEPT !.at = "subscribed", !.of = s, !.next = next]
  <2>2. ViewMove(v, r) /\ UNCHANGED <<watchers, viewers>>
    BY <1>1, <1>3, <1>6 DEF Subscribe, ViewMove
  <2> HIDE DEF next
  <2>3. r \in ViewRec /\ r.at = "subscribed" /\ r.user = view[v].user /\ r.last = 0 /\ r.of = s
    BY <1>1, <1>2, <1>4, <2>1 DEF ViewRec, next
  <2> HIDE DEF r
  <2> QED
    BY <1>1, <2>1, <2>2, <2>3, UncountedStep DEF FitsStep
<1> QED
  BY <1>5, <1>6

LEMMA PrefixKeeps ==
  ASSUME ShareAll, NEW v \in Viewer, ReadPrefix(v)
  PROVE  ShareAll'
<1>1. view[v] \in ViewRec /\ view \in [Viewer -> ViewRec] /\ view[v].at = "subscribed"
  BY ShapeOf DEF ReadPrefix, ShareAll
<1>2. view[v].last = 0 /\ view[v].user \in Sharer /\ view[v].of \in Share
  BY <1>1 DEF ShareAll, InStep, ViewInv, Seen
<1>3. PICK s : s = maps[view[v].user]["keyframe"]
  OBVIOUS
<1> DEFINE p == IF s = view[v].of THEN share[s].key ELSE 0
           r == [view[v] EXCEPT !.at = "ready", !.prefix = p]
<1>4. ViewMove(v, r) /\ UNCHANGED <<watchers, viewers>>
  BY <1>1, <1>3 DEF ReadPrefix, ViewMove
<1>5. p \in Nat
  BY <1>2, ShapeOf DEF ShareAll, ShareRec
<1> HIDE DEF p
<1>6. r \in ViewRec /\ r.at = "ready" /\ r.user = view[v].user /\ r.last = 0 /\ r.of = view[v].of
  BY <1>1, <1>2, <1>5 DEF ViewRec
<1> HIDE DEF r
<1> QED
  BY <1>1, <1>2, <1>4, <1>6, UncountedStep DEF FitsStep

LEMMA LaggedKeeps ==
  ASSUME ShareAll, NEW v \in Viewer, Lagged(v)
  PROVE  ShareAll'
<1>1. view[v] \in ViewRec /\ view \in [Viewer -> ViewRec] /\ view[v].at = "watching"
  BY ShapeOf DEF Lagged, ShareAll
<1>2. view[v].user \in Sharer /\ view[v].of \in Share
  BY <1>1 DEF ShareAll, InStep, ViewInv, Seen
<1> DEFINE n == Oldest(view[v].of)
           r == [view[v] EXCEPT !.next = n, !.resync = TRUE]
<1>3. ViewMove(v, r) /\ UNCHANGED <<watchers, viewers>>
  BY <1>1 DEF Lagged, ViewMove
<1>4. n \in Nat
  <2>1. out[view[v].of] \in Seq({"key", "delta", "end"})
    BY <1>2, ShapeOf DEF ShareAll
  <2> DEFINE l == Len(out[view[v].of])
  <2>2. l \in Nat
    BY <2>1
  <2>3. n = IF l > Backlog THEN l - Backlog + 1 ELSE 1
    BY DEF Oldest
  <2> HIDE DEF l, n
  <2> QED
    BY <2>2, <2>3, VideoBounds
<1> HIDE DEF n
<1>5. r \in ViewRec /\ r.at = "watching" /\ r.user = view[v].user /\ r.of = view[v].of
  BY <1>1, <1>4 DEF ViewRec
<1>6. r.resync
  BY <1>1 DEF ViewRec
<1> HIDE DEF r
<1> QED
  BY <1>1, <1>2, <1>3, <1>5, <1>6, UncountedStep DEF FitsStep

LEMMA ReceiveKeeps ==
  ASSUME ShareAll, NEW v \in Viewer, Receive(v)
  PROVE  ShareAll'
<1>1. /\ view[v] \in ViewRec /\ view \in [Viewer -> ViewRec] /\ view[v].at = "watching"
      /\ view[v].next \in Nat /\ view[v].next + 1 \in Nat /\ (view[v].next + 1) - 1 = view[v].next
  <2>1. view[v] \in ViewRec /\ view \in [Viewer -> ViewRec] /\ view[v].at = "watching"
    BY ShapeOf DEF Receive, ShareAll
  <2> QED
    BY <2>1 DEF ViewRec
<1>2. view[v].user \in Sharer /\ view[v].of \in Share
  BY <1>1 DEF ShareAll, InStep, ViewInv, Seen
<1>3. UNCHANGED <<share, maps, out, watchers, viewers>>
  BY DEF Receive
<1> DEFINE n == view[v].next
           m == view[v].next + 1
           write == [view[v] EXCEPT !.next = m, !.last = n, !.resync = FALSE]
           pass == [view[v] EXCEPT !.next = m, !.resync = TRUE]
<1>4. CASE view' = [view EXCEPT ![v] = write]
  <2>1. n \in Nat /\ m \in Nat /\ m - 1 = n
    BY <1>1
  <2> HIDE DEF n, m
  <2>2. write \in ViewRec /\ write.at = "watching" /\ write.user = view[v].user /\ write.of = view[v].of
        /\ write.last = n /\ write.next = m
    BY <1>1, <2>1 DEF ViewRec
  <2>3. ViewMove(v, write)
    BY <1>3, <1>4 DEF ViewMove
  <2> HIDE DEF write
  <2> QED
    BY <1>1, <1>2, <1>3, <2>1, <2>2, <2>3, UncountedStep DEF FitsStep
<1>5. CASE view' = [view EXCEPT ![v] = pass]
  <2>1. m \in Nat
    BY <1>1
  <2> HIDE DEF n, m
  <2>2. pass \in ViewRec /\ pass.at = "watching" /\ pass.user = view[v].user /\ pass.of = view[v].of
    BY <1>1, <2>1 DEF ViewRec
  <2>3. pass.resync
    BY <1>1 DEF ViewRec
  <2>4. ViewMove(v, pass)
    BY <1>3, <1>5 DEF ViewMove
  <2> HIDE DEF pass
  <2> QED
    BY <1>1, <1>2, <1>3, <2>2, <2>3, <2>4, UncountedStep DEF FitsStep
<1> QED
  BY <1>4, <1>5 DEF Receive

\* What the counts need of a step: who is counted, and the activation it changes.
LEMMA CountedAfter ==
  ASSUME ShareAll, NEW v \in Viewer, NEW u \in Sharer, u = view[v].user, NEW a, a = maps[u]["act"],
         UNCHANGED <<share, maps, out>>,
         \A x \in Sharer : x # u => CountedOf(x)' = CountedOf(x),
         \A s \in Share : s # a => watchers'[s] = watchers[s],
         viewers' = Cardinality(Watching'),
         a \in Share /\ watchers[a] = Cardinality(CountedOf(u)) => watchers'[a] = Cardinality(CountedOf(u)')
  PROVE  NotYetCounted' /\ ViewersCounted'
<1>1. \A x : SharesOf(x)' = SharesOf(x)
  BY DEF SharesOf
<1>2. a \in Share => a \in SharesOf(u) /\ (share[a].at = "setup" => share[a].done >= 2)
  BY DEF ShareAll, ShareInv, EntriesFit, EntriesOf, StandsAt
<1>3. a \in Share => ~Fresh(a)
  BY <1>2, VideoNobody DEF Fresh, StandsAt, ShareAll, ShareInv, ClaimOrder, SharesOf
<1>4. NotYetCounted'
  <2>1. \A s \in Share : Fresh(s)' <=> Fresh(s)
    BY DEF Fresh, StandsAt
  <2>2. \A s \in Share : Fresh(s) => s # a /\ watchers[s] = 0
    BY <1>3 DEF ShareAll, ViewInv, NotYetCounted, Fresh
  <2> QED
    BY <2>1, <2>2 DEF NotYetCounted, Fresh
<1>5. ASSUME NEW x \in Sharer, NEW s \in Share, SharesOf(x)' = {s}, maps'[x]["act"] = s
      PROVE  watchers'[s] = Cardinality(CountedOf(x)')
  <2>1. SharesOf(x) = {s} /\ maps[x]["act"] = s
    BY <1>1, <1>5
  <2>2. watchers[s] = Cardinality(CountedOf(x))
    BY <2>1, CountsMean DEF ShareAll, ViewInv
  <2>3. CASE x = u
    <3>1. a = s
      BY <2>1, <2>3
    <3>2. watchers'[a] = Cardinality(CountedOf(u)')
      BY <2>2, <2>3, <3>1
    <3> QED
      BY <2>3, <3>1, <3>2
  <2>4. CASE x # u
    <3>1. s # a
      BY <1>2, <2>1, <2>4 DEF SharesOf
    <3> QED
      BY <2>2, <2>4, <3>1
  <2> QED
    BY <2>3, <2>4
<1>6. ViewersCounted'
  BY <1>5 DEF ViewersCounted, CountedOf, Watching
<1> QED
  BY <1>4, <1>6

LEMMA OpenKeeps ==
  ASSUME ShareAll, NEW v \in Viewer, OpenView(v)
  PROVE  ShareAll'
<1>1. view[v] \in ViewRec /\ view \in [Viewer -> ViewRec] /\ view[v].at = "ready"
  BY ShapeOf DEF OpenView, ShareAll
<1>2. view[v].user \in Sharer /\ view[v].of \in Share /\ view[v].last = 0
  BY <1>1 DEF ShareAll, InStep, ViewInv, Seen
<1>3. UNCHANGED <<share, maps, out>> /\ watchers \in [Share -> Nat] /\ VideoShape
  BY ShapeOf DEF OpenView, ShareAll
<1>4. PICK u \in Sharer, a \in 0..MaxShares : u = view[v].user /\ a = maps[u]["act"]
  BY <1>2, ShapeOf DEF ShareAll, VideoMap
<1>5. a = 0 \/ a \in Share
  BY <1>4, ShapeOf, VideoBounds DEF ShareAll, VideoMap, Share
<1>6. CASE view' = [view EXCEPT ![v].at = "over"] /\ UNCHANGED <<watchers, viewers>>
  <2> DEFINE r == [view[v] EXCEPT !.at = "over"]
  <2>1. r \in ViewRec /\ r.at = "over" /\ r.user = view[v].user
    BY <1>1 DEF ViewRec
  <2>2. ViewMove(v, r)
    BY <1>1, <1>3, <1>6 DEF ViewMove
  <2> HIDE DEF r
  <2> QED
    BY <1>1, <1>6, <2>1, <2>2, UncountedStep DEF FitsStep
<1>7. CASE /\ watchers' = IF a = 0 THEN watchers ELSE [watchers EXCEPT ![a] = @ + 1]
           /\ viewers' = viewers + 1
           /\ view' = [view EXCEPT ![v].at = "watching"]
  <2> DEFINE r == [view[v] EXCEPT !.at = "watching"]
  <2>1. r \in ViewRec /\ r.at = "watching" /\ r.user = view[v].user /\ r.last = 0 /\ r.of = view[v].of
    BY <1>1, <1>2 DEF ViewRec
  <2>2. ViewMove(v, r)
    BY <1>1, <1>3, <1>7 DEF ViewMove
  <2> HIDE DEF r
  <2>3. /\ watchers' \in [Share -> Nat]
        /\ \A s \in Share : s # a => watchers'[s] = watchers[s]
        /\ a \in Share => watchers'[a] = watchers[a] + 1
    <3>1. CASE a = 0
      BY <1>3, <1>7, <3>1, ShareNumbers
    <3>2. CASE a # 0
      <4>1. a \in Share /\ watchers[a] + 1 \in Nat
        BY <1>3, <1>5, <3>2
      <4> QED
        BY <1>3, <1>7, <3>2, <4>1
    <3> QED
      BY <3>1, <3>2
  <2>4. FitsStep(r)
    BY <1>2, <2>1 DEF FitsStep
  <2>5. /\ VideoShape' /\ ShareInv' /\ InStep' /\ view'[v] = r
        /\ \A x \in Viewer : x # v => view'[x] = view[x]
    BY <2>1, <2>2, <2>3, <2>4, ViewMoves DEF ShareAll
  <2>6. Seen'
    BY <1>1, <1>3, <2>1, <2>5, SeenKept DEF ShareAll, ViewInv
  <2>7. Watching' = Watching \cup {v} /\ v \notin Watching
    BY <1>1, <2>1, <2>5 DEF Watching
  <2>8. CountedOf(u)' = CountedOf(u) \cup {v} /\ v \notin CountedOf(u)
    BY <1>1, <1>4, <2>1, <2>5 DEF CountedOf
  <2>9. \A x \in Sharer : x # u => CountedOf(x)' = CountedOf(x)
    BY <1>1, <1>4, <2>1, <2>5 DEF CountedOf
  <2>10. Cardinality(Watching') = Cardinality(Watching) + 1
    BY <2>7, FiniteViews, FS_AddElement
  <2>11. Cardinality(CountedOf(u)') = Cardinality(CountedOf(u)) + 1
    BY <2>8, FiniteViews, FS_AddElement
  <2>12. viewers' = Cardinality(Watching')
    BY <1>7, <2>10 DEF ShareAll, ViewInv, ViewersCounted
  <2>13. NotYetCounted' /\ ViewersCounted'
    BY <1>3, <1>4, <2>3, <2>9, <2>11, <2>12, CountedAfter
  <2> QED
    BY <2>5, <2>6, <2>13 DEF ShareAll, ViewInv
<1> QED
  BY <1>4, <1>6, <1>7 DEF OpenView

LEMMA StopKeeps ==
  ASSUME ShareAll, NEW v \in Viewer, StopWatching(v)
  PROVE  ShareAll'
<1> DEFINE r == [NoView EXCEPT !.user = view[v].user, !.at = "leaving"]
<1>1. view[v] \in ViewRec /\ view \in [Viewer -> ViewRec] /\ view[v].at = "watching"
  BY ShapeOf DEF StopWatching, ShareAll
<1>2. view[v].user \in Sharer
  BY <1>1 DEF ShareAll, ViewInv, Seen
<1>3. ViewMove(v, r) /\ viewers' = viewers - 1 /\ UNCHANGED <<share, maps, out, watchers>>
  BY DEF StopWatching, ViewMove
<1>4. r.user = view[v].user /\ r.at = "leaving" /\ FitsStep(r)
  BY DEF NoView, FitsStep
<1>5. r \in ViewRec
  <2>1. 0 \in 0..MaxShares /\ 0 \in Nat
    BY VideoBounds
  <2> QED
    BY ONLY <1>2, <2>1 DEF NoView, ViewRec
<1> HIDE DEF r
<1>6. watchers' \in [Share -> Nat] /\ VideoShape
  BY <1>3, ShapeOf DEF ShareAll
<1>7. /\ VideoShape' /\ ShareInv' /\ InStep' /\ view'[v] = r
      /\ \A x \in Viewer : x # v => view'[x] = view[x]
  BY <1>3, <1>4, <1>5, <1>6, ViewMoves DEF ShareAll
<1>8. Seen'
  BY <1>1, <1>3, <1>4, <1>7, SeenKept DEF ShareAll, ViewInv
<1>9. Watching' = Watching \ {v} /\ v \in Watching
  BY <1>1, <1>4, <1>7 DEF Watching
<1>10. \A x : CountedOf(x)' = CountedOf(x)
  BY <1>1, <1>4, <1>7 DEF CountedOf
<1>11. Cardinality(Watching') = Cardinality(Watching) - 1
  BY <1>9, FiniteViews, FS_RemoveElement
<1>12. viewers' = Cardinality(Watching')
  BY <1>3, <1>11 DEF ShareAll, ViewInv, ViewersCounted
<1>13. PICK u \in Sharer, a \in 0..MaxShares : u = view[v].user /\ a = maps[u]["act"]
  BY <1>2, ShapeOf DEF ShareAll, VideoMap
<1>14. NotYetCounted' /\ ViewersCounted'
  BY <1>3, <1>10, <1>12, <1>13, CountedAfter
<1> QED
  BY <1>7, <1>8, <1>14 DEF ShareAll, ViewInv

LEMMA DeactivateKeeps ==
  ASSUME ShareAll, NEW v \in Viewer, Deactivate(v)
  PROVE  ShareAll'
<1> DEFINE r == [view[v] EXCEPT !.at = "over"]
<1>1. view[v] \in ViewRec /\ view \in [Viewer -> ViewRec] /\ view[v].at = "leaving"
  BY ShapeOf DEF Deactivate, ShareAll
<1>2. view[v].user \in Sharer
  BY <1>1 DEF ShareAll, ViewInv, Seen
<1>3. PICK u \in Sharer, a \in 0..MaxShares : u = view[v].user /\ a = maps[u]["act"]
  BY <1>2, ShapeOf DEF ShareAll, VideoMap
<1>4. /\ ViewMove(v, r) /\ UNCHANGED <<share, maps, out, viewers>>
      /\ watchers' = IF a # 0 /\ watchers[a] > 0 THEN [watchers EXCEPT ![a] = @ - 1] ELSE watchers
  BY <1>1, <1>3 DEF Deactivate, ViewMove
<1>5. r \in ViewRec /\ r.at = "over" /\ r.user = view[v].user /\ FitsStep(r)
  BY <1>1 DEF ViewRec, FitsStep
<1> HIDE DEF r
<1>6. a = 0 \/ a \in Share
  BY <1>3, ShapeOf, VideoBounds DEF ShareAll, VideoMap, Share
<1>7. /\ watchers' \in [Share -> Nat] /\ watchers \in [Share -> Nat] /\ VideoShape
      /\ \A s \in Share : s # a => watchers'[s] = watchers[s]
      /\ a \in Share /\ watchers[a] > 0 => watchers'[a] = watchers[a] - 1
  <2>1. watchers \in [Share -> Nat] /\ VideoShape
    BY ShapeOf DEF ShareAll
  <2>2. CASE a # 0 /\ watchers[a] > 0
    <3>1. a \in Share /\ watchers[a] - 1 \in Nat
      BY <1>6, <2>1, <2>2
    <3> QED
      BY <1>4, <2>1, <2>2, <3>1
  <2>3. CASE ~(a # 0 /\ watchers[a] > 0)
    <3>1. watchers' = watchers
      BY <1>4, <2>3
    <3> QED
      BY <2>1, <2>3, <3>1, ShareNumbers
  <2> QED
    BY <2>2, <2>3
<1>8. /\ VideoShape' /\ ShareInv' /\ InStep' /\ view'[v] = r
      /\ \A x \in Viewer : x # v => view'[x] = view[x]
  BY <1>4, <1>5, <1>7, ViewMoves DEF ShareAll
<1>9. Seen'
  BY <1>1, <1>4, <1>5, <1>8, SeenKept DEF ShareAll, ViewInv
<1>10. Watching' = Watching
  BY <1>1, <1>5, <1>8 DEF Watching
<1>11. CountedOf(u)' = CountedOf(u) \ {v} /\ v \in CountedOf(u)
  BY <1>1, <1>3, <1>5, <1>8 DEF CountedOf
<1>12. \A x \in Sharer : x # u => CountedOf(x)' = CountedOf(x)
  BY <1>1, <1>3, <1>5, <1>8 DEF CountedOf
<1>13. viewers' = Cardinality(Watching')
  BY <1>4, <1>10 DEF ShareAll, ViewInv, ViewersCounted
<1>14. /\ Cardinality(CountedOf(u)') = Cardinality(CountedOf(u)) - 1
       /\ Cardinality(CountedOf(u)) \in Nat /\ Cardinality(CountedOf(u)) # 0
  <2>1. IsFiniteSet(CountedOf(u)) /\ CountedOf(u) # {}
    BY <1>11, FiniteViews
  <2> QED
    BY <1>11, <2>1, FS_RemoveElement, FS_EmptySet, FS_CardinalityType
<1>15. a \in Share /\ watchers[a] = Cardinality(CountedOf(u)) => watchers'[a] = Cardinality(CountedOf(u)')
  BY <1>7, <1>14
<1>16. NotYetCounted' /\ ViewersCounted'
  BY <1>3, <1>4, <1>7, <1>12, <1>13, <1>15, CountedAfter
<1> QED
  BY <1>8, <1>9, <1>16 DEF ShareAll, ViewInv

-----------------------------------------------------------------------------
(* Every step.                                                             *)

\* A session that stands at "setup" with one map done was so before: nothing becomes fresh again.
LEMMA StaysFresh ==
  ASSUME NEW s \in Share, share'[s].at # "none",
         share'[s].at = "setup" => share'[s].done # 1 \/ (share[s].at = "setup" /\ share'[s].done = share[s].done)
  PROVE  Fresh(s)' => Fresh(s)
BY DEF Fresh, StandsAt

LEMMA PublishStepKeeps ==
  ASSUME ShareAll, NEW s \in Share, PublishStep(s)
  PROVE  ShareAll'
<1>1. VideoShape /\ ShareInv /\ ViewInv /\ InStep /\ ClaimOrder /\ Progress
  BY DEF ShareAll, ShareInv
<1>2. PICK u : u = share[s].user
  OBVIOUS
<1>3. ASSUME Stays(s), VideoShape', ShareInv', u \in Sharer, Fresh(s)' => Fresh(s),
             maps'[u]["act"] \in {maps[u]["act"], 0} \/ (Fresh(s) /\ share[s].overlay = "none")
      PROVE  ShareAll'
  <2>1. ViewInv'
    BY <1>1, <1>2, <1>3, PublishCounts
  <2>2. InStep'
    BY <1>1, <1>3 DEF Stays, InStep
  <2> QED
    BY <1>3, <2>1, <2>2 DEF ShareAll
<1>4. ASSUME QuietMove(s) PROVE ShareAll'
  <2>1. Stays(s) /\ VideoShape' /\ MainSame(s) /\ share'[s].done = share[s].done
        /\ \/ share'[s].at = share[s].at
           \/ share[s].at = "waiting" /\ share'[s].at \in {"setup", "failed", "ended"}
           \/ share[s].at \in {"live", "cached"} /\ share'[s].at \in {"live", "cached", "ended"}
    BY <1>4 DEF QuietMove, StandsAt
  <2>2. ShareInv'
    BY <1>1, <1>2, <1>4, QuietKeeps
  <2>3. u \in Sharer
    BY <1>1, <1>2, <2>1, ShapeOf DEF Stays, ClaimOrder, StandsAt, ShareRec
  <2>4. maps'[u]["act"] = maps[u]["act"]
    BY <1>2, <2>1 DEF MainSame, Main
  <2>5. share[s].at = "waiting" => share[s].done = 2
    BY <1>1 DEF Progress, ProgressOf, StandsAt
  <2>6. Fresh(s)' => Fresh(s)
    BY <2>1, <2>5, StaysFresh DEF Stays
  <2> QED
    BY <1>3, <2>1, <2>2, <2>3, <2>4, <2>6
<1>5. CASE Enter(s)
  <2> DEFINE i == share[s].done + 1
  <2>1. /\ VideoShape' /\ Stays(s)
        /\ u \in Sharer /\ i \in 2..5 /\ StandsAt(s, "setup") /\ share'[s].done = i
        /\ \A m \in VideoMap : maps'[u][m] = IF m = SetUp[i] THEN s ELSE maps[u][m]
    BY <1>1, <1>2, <1>5, EnterDoes
  <2>2. ShareInv'
    BY <1>1, <1>2, <1>5, EnterKeeps
  <2>3. Fresh(s)' => Fresh(s)
    BY <2>1, StaysFresh DEF Stays
  <2>4. maps'[u]["act"] = maps[u]["act"] \/ (Fresh(s) /\ share[s].overlay = "none")
    <3>1. CASE i = 2
      <4>1. share[s].done \in 0..6
        <5>1. share[s] \in ShareRec
          BY <1>1, ShapeOf
        <5> QED
          BY <5>1 DEF ShareRec
      <4>2. share[s].done = 1
        BY <3>1, <4>1
      <4> QED
        BY <1>1, <2>1, <4>2 DEF Fresh, Progress, ProgressOf, StandsAt
    <3>2. CASE i # 2
      <4>1. i = 3 \/ i = 4 \/ i = 5
        BY <2>1, <3>2
      <4>2. SetUp[i] # "act"
        BY <4>1, Steps
      <4> QED
        BY <2>1, <4>2 DEF VideoMap
    <3> QED
      BY <3>1, <3>2
  <2> QED
    BY <1>3, <2>1, <2>2, <2>3, <2>4
<1>6. CASE CheckNonce(s)
  <2>1. /\ VideoShape' /\ Stays(s) /\ u \in Sharer
        /\ share'[s].at \in {"over", "dropping", "teardown"}
        /\ \A m \in VideoMap : maps'[u][m] = IF m = "nonce" /\ maps[u]["nonce"] = s THEN 0 ELSE maps[u][m]
    BY <1>1, <1>2, <1>6, CheckDoes
  <2>2. ShareInv'
    BY <1>1, <1>2, <1>6, CheckKeeps
  <2>3. Fresh(s)' => Fresh(s)
    BY <2>1, StaysFresh
  <2>4. maps'[u]["act"] = maps[u]["act"]
    BY <2>1 DEF VideoMap
  <2> QED
    BY <1>3, <2>1, <2>2, <2>3, <2>4
<1>7. CASE DropAct(s)
  <2>1. /\ VideoShape' /\ Stays(s) /\ u \in Sharer /\ share'[s].at = "over"
        /\ \A m \in VideoMap : maps'[u][m] = IF m = "act" THEN 0 ELSE maps[u][m]
    BY <1>1, <1>2, <1>7, DropDoes
  <2>2. ShareInv'
    BY <1>1, <1>2, <1>7, DropKeeps
  <2>3. Fresh(s)' => Fresh(s)
    BY <2>1, StaysFresh
  <2>4. maps'[u]["act"] = 0
    BY <2>1 DEF VideoMap
  <2> QED
    BY <1>3, <2>1, <2>2, <2>3, <2>4
<1>8. CASE RemoveEntry(s)
  <2>1. PICK i : i = share[s].done + 1
    OBVIOUS
  <2>2. /\ VideoShape' /\ Stays(s) /\ u \in Sharer /\ share'[s].at \in {"over", "teardown"}
        /\ \A m \in VideoMap : maps'[u][m] = IF m = TearDown[i] THEN 0 ELSE maps[u][m]
    BY <1>1, <1>2, <1>8, <2>1, RemoveDoes
  <2>3. ShareInv'
    BY <1>1, <1>2, <1>8, <2>1, RemoveKeeps
  <2>4. Fresh(s)' => Fresh(s)
    BY <2>2, StaysFresh
  <2>5. maps'[u]["act"] \in {maps[u]["act"], 0}
    BY <2>2 DEF VideoMap
  <2> QED
    BY <1>3, <2>2, <2>3, <2>4, <2>5
<1>9. HeaderArrives(s) \/ CacheKey(s) \/ SendFrame(s) \/ StreamEnds(s) \/ Overlay(s) => QuietMove(s)
  BY <1>1, HeaderDoes, CacheDoes, SendFrameDoes, StreamEndDoes, OverlayDoes
<1> QED
  BY <1>4, <1>5, <1>6, <1>7, <1>8, <1>9 DEF PublishStep

LEMMA ClaimStepKeeps ==
  ASSUME ShareAll, NEW u \in Sharer, ClaimShare(u)
  PROVE  ShareAll'
<1>1. VideoShape' /\ UNCHANGED view
  BY ClaimDoes DEF ShareAll
<1>2. ShareInv' /\ ViewInv'
  BY ClaimKeeps, ClaimCounts DEF ShareAll
<1>3. InStep'
  BY <1>1 DEF ShareAll, InStep
<1> QED
  BY <1>1, <1>2, <1>3 DEF ShareAll

LEMMA ShareInit ==
  ASSUME VideoInit
  PROVE  ShareAll
<1>1. 0 \in 0..MaxShares /\ 0 \in Nat /\ 0 \in 0..6 /\ Main \subseteq VideoMap
  BY VideoBounds, StepMaps
<1>2. NoShare \in ShareRec /\ NoView \in ViewRec
  BY ONLY <1>1 DEF NoShare, ShareRec, NoView, ViewRec
<1>3. /\ share \in [Share -> ShareRec] /\ maps \in [Sharer -> [VideoMap -> 0..MaxShares]]
      /\ out \in [Share -> Seq({"key", "delta", "end"})] /\ watchers \in [Share -> Nat]
      /\ view \in [Viewer -> ViewRec]
  BY <1>1, <1>2 DEF VideoInit
<1>4. \A s \in Share : share[s].user = 0 /\ share[s].at = "none" /\ share[s].overlay = "none" /\ watchers[s] = 0
  BY DEF VideoInit, NoShare
<1>5. \A u \in Sharer : SharesOf(u) = {} /\ \A m \in VideoMap : maps[u][m] = 0
  BY <1>4, VideoNobody DEF SharesOf, VideoInit
<1>6. ShareInv
  <2>1. ClaimOrder /\ Progress
    BY <1>4 DEF ClaimOrder, Progress, ProgressOf, StandsAt
  <2>2. HasNewest /\ NewestKept
    BY <1>1, <1>5 DEF HasNewest, NewestKept, Newest
  <2>3. EntriesFit
    BY <1>5, ShareNumbers DEF EntriesFit, EntriesOf, VideoMap
  <2> QED
    BY <2>1, <2>2, <2>3 DEF ShareInv
<1>7. \A v \in Viewer : view[v].at = "none" /\ view[v].last = 0
  BY DEF VideoInit, NoView
<1>8. Watching = {} /\ viewers = 0
  BY <1>7 DEF Watching, VideoInit
<1>9. ViewInv
  BY <1>4, <1>5, <1>7, <1>8, FS_EmptySet DEF ViewInv, Seen, NotYetCounted, ViewersCounted
<1> QED
  BY <1>3, <1>6, <1>7, <1>9, ShapeOf DEF ShareAll, InStep

LEMMA ShareNext ==
  ASSUME ShareAll, [VideoNext]_videoVars
  PROVE  ShareAll'
<1>1. CASE UNCHANGED videoVars
  <2>1. UNCHANGED <<share, maps, out, watchers, view, viewers>>
    BY <1>1 DEF videoVars
  <2>2. VideoShape'
    BY <2>1 DEF ShareAll, VideoShape
  <2>3. ClaimOrder' /\ Progress' /\ HasNewest' /\ EntriesFit' /\ NewestKept'
    BY <2>1 DEF ShareAll, ShareInv, ClaimOrder, Progress, ProgressOf, HasNewest, EntriesFit, EntriesOf, NewestKept,
                OthersCalm, Listed, Newest, SharesOf, StandsAt
  <2>4. Seen' /\ NotYetCounted' /\ InStep'
    BY <2>1 DEF ShareAll, ViewInv, Seen, NotYetCounted, SharesOf, StandsAt, InStep
  <2>5. ViewersCounted'
    BY <2>1 DEF ShareAll, ViewInv, ViewersCounted, SharesOf, Watching
  <2> QED
    BY <2>2, <2>3, <2>4, <2>5 DEF ShareAll, ShareInv, ViewInv
<1>2. CASE \E u \in Sharer : ClaimShare(u) \/ \E v \in Viewer : FindSharer(v, u)
  BY <1>2, ClaimStepKeeps, FindDoes DEF ShareAll
<1>3. CASE \E s \in Share : PublishStep(s)
  BY <1>3, PublishStepKeeps
<1>4. CASE \E v \in Viewer : SubscribeStep(v)
  BY <1>4, SubscribeKeeps, PrefixKeeps, OpenKeeps, LaggedKeeps, ReceiveKeeps, StopKeeps, DeactivateKeeps
     DEF SubscribeStep
<1> QED
  BY <1>1, <1>2, <1>3, <1>4 DEF VideoNext

\* The sessions of a share and its viewers keep the invariant, for any number of them.
THEOREM ShareInvariance == VideoSpec => []ShareAll
<1>1. VideoInit => ShareAll
  BY ShareInit
<1>2. ShareAll /\ [VideoNext]_videoVars => ShareAll'
  BY ShareNext
<1> QED
  BY <1>1, <1>2, PTL DEF VideoSpec

LEMMA ShareAllKeepsShare ==
  ASSUME ShareAll
  PROVE  ShareKept
<1>1. LiveIsListed
  <2> SUFFICES ASSUME NEW u \in Sharer, NEW s \in SharesOf(u),
                      share[s].at \in {"live", "cached"}, share[s].alone, EntryOf(s, "nonce") = s,
                      NEW m \in {"act", "header", "stream", "sharer"}
               PROVE  maps[u][m] = s
    BY DEF LiveIsListed
  <2>1. s \in Share /\ share[s].user = u /\ maps[u]["nonce"] = s
    BY DEF SharesOf, EntryOf
  <2>2. Listed(u, s)
    BY <2>1 DEF ShareAll, ShareInv, EntriesFit, EntriesOf, NewestKept
  <2>3. share[s].done = 5
    BY <2>1 DEF ShareAll, ShareInv, Progress, ProgressOf
  <2>4. \A i \in 1..5 : maps[u][SetUp[i]] = s
    BY <2>2, <2>3 DEF Listed
  <2>5. 2 \in 1..5 /\ 3 \in 1..5 /\ 4 \in 1..5 /\ 5 \in 1..5
    OBVIOUS
  <2> QED
    BY <2>4, <2>5, Steps
<1>2. OverIsGone
  <2> SUFFICES ASSUME NEW u \in Sharer,
                      \A s \in SharesOf(u) : StandsAt(s, "over") /\ share[s].alone /\ share[s].overlay # "none",
                      NEW m \in Main
               PROVE  maps[u][m] = 0
    BY DEF OverIsGone, Main
  <2>1. CASE SharesOf(u) = {} /\ \A n \in Main : maps[u][n] = 0
    BY <2>1
  <2>2. CASE \E s \in Share : Newest(u, s)
    <3>1. PICK s \in Share : Newest(u, s)
      BY <2>2
    <3>2. StandsAt(s, "over") /\ share[s].alone /\ share[s].overlay # "none"
      BY <3>1 DEF Newest
    <3> QED
      BY <3>1, <3>2 DEF ShareAll, ShareInv, NewestKept, Listed
  <2> QED
    BY <2>1, <2>2 DEF ShareAll, ShareInv, HasNewest
<1> QED
  BY <1>1, <1>2 DEF ShareKept, ShareAll, ViewInv

\* A live share that claimed alone and was not followed is listed, a share that is over is gone from
\* the maps, and the counts are of the viewers there are: for any users, viewers, sessions and frames.
THEOREM ShareKeptAlways == VideoSpec => []ShareKept
BY ShareInvariance, ShareAllKeepsShare, PTL

\* A delta written follows the frame written before it.
LEMMA NoGapStep ==
  ASSUME ShareAll, [VideoNext]_videoVars, NEW v \in Viewer, NEW s, s = view'[v].of,
         view'[v].at = "watching", view'[v].last # view[v].last, out[s][view'[v].last] = "delta"
  PROVE  view[v].last \in {0, view'[v].last - 1}
<1>1. view \in [Viewer -> ViewRec] /\ view[v] \in ViewRec /\ VideoShape /\ ClaimOrder /\ Progress
  BY ShapeOf DEF ShareAll, ShareInv
<1>2. view' # view
  OBVIOUS
<1>3. ~\E t \in Share : PublishStep(t)
  <2>1. \A t \in Share : PublishStep(t) => UNCHANGED view
    BY DEF PublishStep, Enter, HeaderArrives, CacheKey, SendFrame, StreamEnds, CheckNonce, DropAct,
           RemoveEntry, Overlay
  <2> QED
    BY <1>2, <2>1
<1>4. ~\E u \in Sharer : ClaimShare(u) \/ \E x \in Viewer : FindSharer(x, u)
  <2>1. \A u \in Sharer : ClaimShare(u) => UNCHANGED view
    BY DEF ClaimShare
  <2>2. \A u \in Sharer, x \in Viewer : FindSharer(x, u) => view'[v] = view[v] \/ view'[v].at # "watching"
    BY <1>1 DEF FindSharer, NoView
  <2> QED
    BY <1>2, <2>1, <2>2
<1>5. PICK x \in Viewer : SubscribeStep(x)
  BY <1>2, <1>3, <1>4 DEF VideoNext, videoVars
<1>6. Receive(x)
  <2>1. Subscribe(x) => view'[v].last = view[v].last
    BY <1>1 DEF Subscribe, ViewRec
  <2>2. ReadPrefix(x) => view'[v].last = view[v].last
    BY <1>1 DEF ReadPrefix, ViewRec
  <2>3. OpenView(x) => view'[v].last = view[v].last
    BY <1>1 DEF OpenView, ViewRec
  <2>4. Lagged(x) => view'[v].last = view[v].last
    BY <1>1 DEF Lagged, ViewRec
  <2>5. StopWatching(x) => view'[v] = view[v] \/ view'[v].at # "watching"
    BY <1>1 DEF StopWatching, NoView
  <2>6. Deactivate(x) => view'[v].last = view[v].last
    BY <1>1 DEF Deactivate, ViewRec
  <2> QED
    BY <1>5, <2>1, <2>2, <2>3, <2>4, <2>5, <2>6 DEF SubscribeStep
<1>7. x = v
  BY <1>1, <1>6 DEF Receive
<1> DEFINE n == view[v].next
           m == view[v].next + 1
           write == [view[v] EXCEPT !.next = m, !.last = n, !.resync = FALSE]
           pass == [view[v] EXCEPT !.next = m, !.resync = TRUE]
<1>8. \/ (out[view[v].of][n] = "key" \/ ~view[v].resync) /\ view' = [view EXCEPT ![v] = write]
      \/ view' = [view EXCEPT ![v] = pass]
  BY <1>6, <1>7 DEF Receive
<1> HIDE DEF n, m
<1>9. pass.last = view[v].last /\ write.last = n /\ write.of = view[v].of
  BY <1>1 DEF ViewRec
<1> HIDE DEF write, pass
<1>10. view'[v] = write /\ ~(out[view[v].of][n] = "key" /\ view[v].resync)
  BY <1>1, <1>8, <1>9
<1>11. ~view[v].resync
  BY <1>1, <1>8, <1>9, <1>10
<1>12. view[v].at = "watching"
  BY <1>6, <1>7 DEF Receive
<1>13. view[v].last = 0 \/ view[v].last = view[v].next - 1
  BY <1>11, <1>12 DEF ShareAll, InStep
<1> QED
  BY <1>9, <1>10, <1>13 DEF n

\* What a viewer's decoder gets has no gaps, whatever the backlog and the frames.
THEOREM NoGapsAlways == VideoSpec => NoGaps
<1>1. ShareAll /\ [VideoNext]_videoVars => [\A v \in Viewer : LET s == view'[v].of IN
        view'[v].at = "watching" /\ view'[v].last # view[v].last /\ out[s][view'[v].last] = "delta"
            => view[v].last \in {0, view'[v].last - 1}]_videoVars
  BY NoGapStep
<1> QED
  BY <1>1, ShareInvariance, PTL DEF VideoSpec, NoGaps

-----------------------------------------------------------------------------
(* How many frames a session sends, and viewers there are to count.        *)

\* A session sends MaxFrames frames, and the sentinel once its activation channel is gone.
FramesFit(r, o) ==
    /\ r.key <= MaxFrames /\ Len(o) <= MaxFrames + 1
    /\ (r.at = "teardown" => r.done <= 3) /\ r.at # "over" => Len(o) <= MaxFrames
    /\ r.at = "cached" => Len(o) < MaxFrames
FramesBounded == \A s \in Share : FramesFit(share[s], out[s])

\* The viewers whose stream has opened, or failed to.
Opened == {v \in Viewer : view[v].at \in {"watching", "leaving", "over"}}
WatchersBounded == \A s \in Share : watchers[s] <= Cardinality(Opened)

LEMMA FiniteOpened == IsFiniteSet(Opened) /\ Cardinality(Opened) \in Nat /\ Cardinality(Opened) <= Cardinality(Viewer)
<1>1. Opened \in SUBSET Viewer
  BY DEF Opened
<1>2. IsFiniteSet(Opened) /\ Cardinality(Opened) <= Cardinality(Viewer)
  BY <1>1, VideoBounds, FS_Subset
<1> QED
  BY <1>2, FS_CardinalityType

\* Only the record and the frames of the session that moves change.
LEMMA FramesMove ==
  ASSUME VideoShape, FramesBounded, NEW s \in Share, NEW r, NEW o, FramesFit(r, o),
         share' = [share EXCEPT ![s] = r], out' = [out EXCEPT ![s] = o]
  PROVE  FramesBounded'
<1>1. \A t \in Share : /\ share'[t] = IF t = s THEN r ELSE share[t]
                       /\ out'[t] = IF t = s THEN o ELSE out[t]
  BY ShapeOf
<1>2. ASSUME NEW t \in Share PROVE FramesFit(share'[t], out'[t])
  <2>1. CASE t = s
    BY <1>1, <2>1
  <2>2. CASE t # s
    BY <1>1, <2>2 DEF FramesBounded
  <2> QED
    BY <2>1, <2>2
<1> QED
  BY <1>2 DEF FramesBounded

\* The same for a step that sends nothing.
LEMMA QuietFrames ==
  ASSUME VideoShape, FramesBounded, NEW s \in Share, NEW r, FramesFit(r, out[s]),
         share' = [share EXCEPT ![s] = r], out' = out
  PROVE  FramesBounded'
<1>1. out' = [out EXCEPT ![s] = out[s]]
  BY ShapeOf
<1> QED
  BY <1>1, FramesMove

LEMMA ClaimFrames ==
  ASSUME VideoShape, FramesBounded, NEW u \in Sharer, ClaimShare(u)
  PROVE  FramesBounded'
<1>1. PICK s \in Share : /\ StandsAt(s, "none") /\ out' = out
                         /\ \E b : share' = [share EXCEPT ![s] = Claimed(u, b)]
  BY DEF ClaimShare, Claimed
<1>2. PICK b : share' = [share EXCEPT ![s] = Claimed(u, b)]
  BY <1>1
<1>3. Claimed(u, b).key = 0 /\ Claimed(u, b).at = "setup"
  BY DEF Claimed, NoShare
<1>4. Len(out[s]) <= MaxFrames /\ Len(out[s]) <= MaxFrames + 1 /\ 0 <= MaxFrames
  BY <1>1, VideoBounds DEF FramesBounded, FramesFit, StandsAt
<1>5. FramesFit(Claimed(u, b), out[s])
  BY <1>3, <1>4 DEF FramesFit
<1> QED
  BY <1>1, <1>2, <1>5, QuietFrames

\* Every step of a session, by the record it leaves.
LEMMA PublishFrames ==
  ASSUME ShareAll, FramesBounded, NEW s \in Share, PublishStep(s)
  PROVE  FramesBounded'
<1>1. /\ VideoShape /\ share[s] \in ShareRec /\ out[s] \in Seq({"key", "delta", "end"})
      /\ FramesFit(share[s], out[s]) /\ MaxFrames \in Nat /\ Len(out[s]) \in Nat
      /\ share[s].key \in Nat /\ share[s].done \in 0..6
  BY ShapeOf, VideoBounds DEF ShareAll, FramesBounded, ShareRec
<1>2. ASSUME share[s].at \notin {"teardown", "over"}, NEW r, r.key = share[s].key, out' = out,
             r.at # "cached" \/ r.at = share[s].at,
             share' = [share EXCEPT ![s] = r]
      PROVE  FramesBounded'
  BY <1>1, <1>2, QuietFrames DEF FramesFit
<1>3. CASE Enter(s)
  <2> DEFINE map == SetUp[share[s].done + 1]
             at == CASE map = "act" -> "waiting" [] map = "sharer" -> "live" [] OTHER -> "setup"
             r == [share[s] EXCEPT !.done = @ + 1, !.at = at,
                                   !.overlay = IF map = "sharer" THEN "announced" ELSE @]
  <2>1. at \in {"waiting", "live", "setup"}
    OBVIOUS
  <2>2. share' = [share EXCEPT ![s] = r] /\ share[s].at = "setup" /\ out' = out
    BY <1>1, <1>3 DEF Enter, StandsAt, ShareRec
  <2> HIDE DEF at
  <2>3. r.key = share[s].key /\ r.at = at
    BY <1>1 DEF ShareRec
  <2> HIDE DEF r
  <2> QED
    BY <1>2, <2>1, <2>2, <2>3
<1>4. CASE HeaderArrives(s)
  <2>1. PICK next \in {"setup", "failed", "ended"} : share' = [share EXCEPT ![s].at = next]
    BY <1>4 DEF HeaderArrives
  <2> DEFINE r == [share[s] EXCEPT !.at = next]
  <2>2. r.key = share[s].key /\ r.at = next /\ share' = [share EXCEPT ![s] = r]
    BY <1>1, <2>1 DEF ShareRec
  <2>3. share[s].at = "waiting" /\ out' = out
    BY <1>4 DEF HeaderArrives, StandsAt
  <2> HIDE DEF r
  <2> QED
    BY <1>2, <2>1, <2>2, <2>3
<1>5. CASE CacheKey(s)
  <2> DEFINE r == [share[s] EXCEPT !.at = "cached", !.key = Len(out[s]) + 1]
  <2>1. r.key = Len(out[s]) + 1 /\ r.at = "cached"
    BY <1>1 DEF ShareRec
  <2>2. share' = [share EXCEPT ![s] = r] /\ out' = out /\ Len(out[s]) < MaxFrames
    BY <1>5 DEF CacheKey
  <2> HIDE DEF r
  <2>3. FramesFit(r, out[s])
    BY <1>1, <2>1, <2>2 DEF FramesFit
  <2> QED
    BY <1>1, <2>2, <2>3, QuietFrames
<1>6. CASE SendFrame(s)
  <2> DEFINE r == [share[s] EXCEPT !.at = "live"]
  <2>1. r.key = share[s].key /\ r.at = "live" /\ share' = [share EXCEPT ![s] = r]
    BY <1>1, <1>6 DEF SendFrame, ShareRec
  <2>2. PICK f \in {"key", "delta"} : out' = [out EXCEPT ![s] = Append(out[s], f)]
    BY <1>6 DEF SendFrame
  <2>3. Len(out[s]) < MaxFrames
    BY <1>1, <1>6 DEF SendFrame, StandsAt, FramesFit
  <2>4. Len(Append(out[s], f)) = Len(out[s]) + 1
    BY <1>1
  <2> HIDE DEF r
  <2>5. FramesFit(r, Append(out[s], f))
    BY <1>1, <2>1, <2>3, <2>4 DEF FramesFit
  <2> QED
    BY <1>1, <2>1, <2>2, <2>5, FramesMove
<1>7. CASE StreamEnds(s)
  <2> DEFINE r == [share[s] EXCEPT !.at = "ended", !.overlay = "over"]
  <2>1. r.key = share[s].key /\ r.at = "ended" /\ share' = [share EXCEPT ![s] = r]
    BY <1>1, <1>7 DEF StreamEnds, ShareRec
  <2>2. share[s].at = "live" /\ out' = out
    BY <1>7 DEF StreamEnds, StandsAt
  <2> HIDE DEF r
  <2> QED
    BY <1>2, <2>1, <2>2
<1>8. CASE CheckNonce(s)
  <2>1. PICK at \in {"over", "dropping", "teardown"} : share' = [share EXCEPT ![s].done = 0, ![s].at = at]
    BY <1>8 DEF CheckNonce
  <2> DEFINE r == [share[s] EXCEPT !.done = 0, !.at = at]
  <2>2. r.key = share[s].key /\ r.at = at /\ share' = [share EXCEPT ![s] = r]
    BY <1>1, <2>1 DEF ShareRec
  <2>3. share[s].at \in {"ended", "failed"} /\ out' = out
    BY <1>8 DEF CheckNonce
  <2> HIDE DEF r
  <2> QED
    BY <1>2, <2>1, <2>2, <2>3
<1>9. CASE DropAct(s)
  <2> DEFINE r == [share[s] EXCEPT !.at = "over"]
  <2>1. r.key = share[s].key /\ r.at = "over" /\ share' = [share EXCEPT ![s] = r]
    BY <1>1, <1>9 DEF DropAct, ShareRec
  <2>2. share[s].at = "dropping" /\ out' = out
    BY <1>9 DEF DropAct, StandsAt
  <2> HIDE DEF r
  <2> QED
    BY <1>2, <2>1, <2>2
<1>10. CASE RemoveEntry(s)
  <2>1. PICK at \in {"teardown", "over"} :
            /\ share' = [share EXCEPT ![s].done = @ + 1, ![s].at = at]
            /\ at = IF TearDown[share[s].done + 1] = "sharer" THEN "over" ELSE share[s].at
    BY <1>10 DEF RemoveEntry, StandsAt
  <2> DEFINE r == [share[s] EXCEPT !.done = @ + 1, !.at = at]
  <2>2. r.key = share[s].key /\ r.at = at /\ r.done = share[s].done + 1 /\ share' = [share EXCEPT ![s] = r]
    BY <1>1, <2>1 DEF ShareRec
  <2>3. share[s].at = "teardown" /\ share[s].done \in 0..5
    BY <1>10 DEF RemoveEntry, StandsAt, ShareAll, ShareInv, Progress, ProgressOf
  <2>4. at = "over" => share[s].done = 5
    <3>1. \A i \in 0..5 : i = 0 \/ i = 1 \/ i = 2 \/ i = 3 \/ i = 4 \/ i = 5
      OBVIOUS
    <3>2. \A i \in 0..5 : TearDown[i + 1] = "sharer" => i = 5
      BY <3>1, Steps
    <3> QED
      BY <2>1, <2>3, <3>2
  <2> HIDE DEF r
  <2>5. CASE share[s].done = 3
    <3>1. out' = [out EXCEPT ![s] = Append(out[s], "end")]
      BY <1>10, <2>5, Steps DEF RemoveEntry
    <3>2. Len(Append(out[s], "end")) = Len(out[s]) + 1 /\ Len(out[s]) <= MaxFrames
      BY <1>1, <2>3, <2>5 DEF FramesFit
    <3>3. FramesFit(r, Append(out[s], "end"))
      BY <1>1, <2>2, <2>3, <2>4, <2>5, <3>2 DEF FramesFit
    <3> QED
      BY <1>1, <2>2, <3>1, <3>3, FramesMove
  <2>6. CASE share[s].done # 3
    <3>1. out' = out
      <4>1. \A i \in 0..5 : i = 0 \/ i = 1 \/ i = 2 \/ i = 3 \/ i = 4 \/ i = 5
        OBVIOUS
      <4>2. TearDown[share[s].done + 1] # "act"
        BY <2>3, <2>6, <4>1, Steps
      <4> QED
        BY <1>10, <4>2 DEF RemoveEntry
    <3>2. FramesFit(r, out[s])
      BY <1>1, <2>2, <2>3, <2>4, <2>6 DEF FramesFit
    <3> QED
      BY <1>1, <2>2, <3>1, <3>2, QuietFrames
  <2> QED
    BY <2>5, <2>6
<1>11. CASE Overlay(s)
  <2>1. PICK next \in {"half", "live", "ended", "over"} : share' = [share EXCEPT ![s].overlay = next]
    BY <1>11 DEF Overlay
  <2> DEFINE r == [share[s] EXCEPT !.overlay = next]
  <2>2. /\ r.key = share[s].key /\ r.at = share[s].at /\ r.done = share[s].done
        /\ share' = [share EXCEPT ![s] = r] /\ out' = out
    BY <1>1, <1>11, <2>1 DEF Overlay, ShareRec
  <2> HIDE DEF r
  <2>3. FramesFit(r, out[s])
    BY <1>1, <2>2 DEF FramesFit
  <2> QED
    BY <1>1, <2>2, <2>3, QuietFrames
<1> QED
  BY <1>3, <1>4, <1>5, <1>6, <1>7, <1>8, <1>9, <1>10, <1>11 DEF PublishStep

\* Who has opened stays so, and a count goes up only with one who opens.
LEMMA WatchersStay ==
  ASSUME ShareAll, WatchersBounded, watchers' = watchers, Opened \subseteq Opened'
  PROVE  WatchersBounded'
<1>1. IsFiniteSet(Opened') /\ Cardinality(Opened') \in Nat
  <2>1. Opened' \in SUBSET Viewer
    BY DEF Opened
  <2> QED
    BY <2>1, VideoBounds, FS_Subset, FS_CardinalityType
<1>2. Cardinality(Opened) <= Cardinality(Opened')
  BY <1>1, FS_Subset
<1>3. \A s \in Share : watchers[s] \in Nat
  BY ShapeOf DEF ShareAll
<1> QED
  BY <1>1, <1>2, <1>3, FiniteOpened DEF WatchersBounded

LEMMA OpenCounts ==
  ASSUME ShareAll, WatchersBounded, NEW v \in Viewer, OpenView(v)
  PROVE  WatchersBounded'
<1>1. view \in [Viewer -> ViewRec] /\ watchers \in [Share -> Nat] /\ view[v].at = "ready"
  BY ShapeOf DEF ShareAll, OpenView
<1>2. PICK at \in {"watching", "over"} : view' = [view EXCEPT ![v].at = at]
  BY DEF OpenView
<1>3. \A w \in Viewer : view'[w].at = IF w = v THEN at ELSE view[w].at
  BY <1>1, <1>2 DEF ViewRec
<1>4. Opened' = Opened \cup {v} /\ v \notin Opened
  BY <1>1, <1>3 DEF Opened
<1>5. Cardinality(Opened') = Cardinality(Opened) + 1
  BY <1>4, FiniteOpened, FS_AddElement
<1>6. \A s \in Share : watchers'[s] = watchers[s] \/ watchers'[s] = watchers[s] + 1
  BY <1>1 DEF OpenView
<1> QED
  BY <1>1, <1>5, <1>6, FiniteOpened DEF WatchersBounded

LEMMA SubscribeCounts ==
  ASSUME ShareAll, WatchersBounded, NEW v \in Viewer,
         SubscribeStep(v) \/ \E u \in Sharer : FindSharer(v, u)
  PROVE  WatchersBounded'
<1>1. view \in [Viewer -> ViewRec] /\ watchers \in [Share -> Nat]
  BY ShapeOf DEF ShareAll
<1>2. ASSUME NEW r, view' = [view EXCEPT ![v] = r],
             view[v].at \in {"watching", "leaving", "over"} => r.at \in {"watching", "leaving", "over"}
      PROVE  Opened \subseteq Opened'
  BY <1>1, <1>2 DEF Opened
<1>3. CASE OpenView(v)
  BY <1>3, OpenCounts
<1>4. CASE Subscribe(v) \/ ReadPrefix(v) \/ \E u \in Sharer : FindSharer(v, u)
  <2>1. view[v].at \notin {"watching", "leaving", "over"} /\ watchers' = watchers
    BY <1>4 DEF Subscribe, ReadPrefix, FindSharer
  <2>2. \A w \in Viewer : w # v => view'[w] = view[w]
    BY <1>1, <1>4 DEF Subscribe, ReadPrefix, FindSharer
  <2>3. Opened \subseteq Opened'
    BY <2>1, <2>2 DEF Opened
  <2> QED
    BY <2>1, <2>3, WatchersStay
<1>5. CASE Lagged(v) \/ Receive(v)
  <2>1. PICK r : view' = [view EXCEPT ![v] = r] /\ r.at = view[v].at
    <3>1. view[v] \in ViewRec
      BY <1>1
    <3>2. CASE Lagged(v)
      <4> DEFINE q == [view[v] EXCEPT !.next = Oldest(view[v].of), !.resync = TRUE]
      <4>1. q.at = view[v].at
        BY <3>1 DEF ViewRec
      <4>2. view' = [view EXCEPT ![v] = q]
        BY <1>1, <3>2 DEF Lagged
      <4> HIDE DEF q
      <4> QED
        BY <4>1, <4>2
    <3>3. CASE Receive(v)
      <4>1. PICK n : view' = [view EXCEPT ![v] = [view[v] EXCEPT !.next = n + 1, !.last = n, !.resync = FALSE]]
                         \/ view' = [view EXCEPT ![v] = [view[v] EXCEPT !.next = n + 1, !.resync = TRUE]]
        BY <3>3 DEF Receive
      <4> QED
        BY <3>1, <4>1 DEF ViewRec
    <3> QED
      BY <1>5, <3>2, <3>3
  <2>2. watchers' = watchers /\ Opened \subseteq Opened'
    BY <1>2, <1>5, <2>1 DEF Lagged, Receive
  <2> QED
    BY <2>2, WatchersStay
<1>6. CASE StopWatching(v)
  <2> DEFINE r == [NoView EXCEPT !.user = view[v].user, !.at = "leaving"]
  <2>1. watchers' = watchers /\ view' = [view EXCEPT ![v] = r] /\ r.at = "leaving"
    BY <1>6 DEF StopWatching, NoView
  <2> QED
    BY <1>2, <2>1, WatchersStay
<1>7. CASE Deactivate(v)
  <2> DEFINE r == [view[v] EXCEPT !.at = "over"]
  <2>1. view' = [view EXCEPT ![v] = r] /\ r.at = "over" /\ view[v].at = "leaving"
    BY <1>1, <1>7 DEF Deactivate, ViewRec
  <2>2. Opened' = Opened
    BY <1>1, <2>1 DEF Opened
  <2>3. \A s \in Share : watchers'[s] = watchers[s] \/ (watchers[s] > 0 /\ watchers'[s] = watchers[s] - 1)
    BY <1>1, <1>7 DEF Deactivate
  <2> QED
    BY <1>1, <2>2, <2>3, FiniteOpened DEF WatchersBounded
<1> QED
  BY <1>3, <1>4, <1>5, <1>6, <1>7 DEF SubscribeStep

\* The type invariant: no session sends more than its frames and the sentinel, and no count
\* exceeds the number of viewers.
THEOREM VideoTypeCorrect == VideoSpec => []VideoTypeOK
<1>1. VideoInit => ShareAll /\ FramesBounded /\ WatchersBounded
  <2> SUFFICES ASSUME VideoInit PROVE ShareAll /\ FramesBounded /\ WatchersBounded
    OBVIOUS
  <2>1. \A s \in Share : out[s] = <<>> /\ share[s].key = 0 /\ share[s].at = "none" /\ watchers[s] = 0
    BY DEF VideoInit, NoShare
  <2>2. Len(<<>>) = 0
    OBVIOUS
  <2>3. FramesBounded
    BY <2>1, <2>2, VideoBounds DEF FramesBounded, FramesFit
  <2>4. WatchersBounded
    BY <2>1, FiniteOpened DEF WatchersBounded
  <2> QED
    BY <2>3, <2>4, ShareInit
<1>2. ShareAll /\ FramesBounded /\ WatchersBounded /\ [VideoNext]_videoVars => FramesBounded' /\ WatchersBounded'
  <2> SUFFICES ASSUME ShareAll, FramesBounded, WatchersBounded, [VideoNext]_videoVars
               PROVE  FramesBounded' /\ WatchersBounded'
    OBVIOUS
  <2>1. CASE UNCHANGED videoVars
    BY <2>1 DEF videoVars, FramesBounded, WatchersBounded, Opened
  <2>2. CASE \E u \in Sharer : ClaimShare(u)
    <3>1. FramesBounded' /\ watchers' = watchers /\ Opened' = Opened
      BY <2>2, ClaimFrames DEF ClaimShare, ShareAll, Opened
    <3> QED
      BY <3>1, WatchersStay
  <2>3. CASE \E s \in Share : PublishStep(s)
    <3>1. UNCHANGED <<watchers, view>>
      BY <2>3 DEF PublishStep, Enter, HeaderArrives, CacheKey, SendFrame, StreamEnds, CheckNonce, DropAct,
                  RemoveEntry, Overlay
    <3>2. Opened' = Opened
      BY <3>1 DEF Opened
    <3> QED
      BY <2>3, <3>1, <3>2, PublishFrames, WatchersStay
  <2>4. CASE \E v \in Viewer : SubscribeStep(v) \/ \E u \in Sharer : FindSharer(v, u)
    <3>1. UNCHANGED <<share, out>>
      BY <2>4 DEF SubscribeStep, FindSharer, Subscribe, ReadPrefix, OpenView, Lagged, Receive, StopWatching, Deactivate
    <3>2. FramesBounded'
      BY <3>1 DEF FramesBounded
    <3> QED
      BY <2>4, <3>2, SubscribeCounts
  <2> QED
    BY <2>1, <2>2, <2>3, <2>4 DEF VideoNext
<1>3. ShareAll /\ FramesBounded /\ WatchersBounded => VideoTypeOK
  <2> SUFFICES ASSUME ShareAll, FramesBounded, WatchersBounded PROVE VideoTypeOK
    OBVIOUS
  <2>1. \A s \in Share : share[s].key \in 0..MaxFrames
    BY ShapeOf, VideoBounds DEF ShareAll, FramesBounded, FramesFit, ShareRec
  <2>2. \A s \in Share : share[s] \in [user : Sharer \cup {0},
                            at : {"none", "setup", "waiting", "live", "cached", "ended", "failed",
                                  "dropping", "teardown", "over"},
                            done : 0..6, key : 0..MaxFrames,
                            overlay : {"none", "announced", "live", "ended", "half", "over"},
                            alone : BOOLEAN]
    BY <2>1, ShapeOf DEF ShareAll, ShareRec
  <2>3. Cardinality(Viewer) \in Nat /\ \A s \in Share : watchers[s] \in 0..Cardinality(Viewer)
    <3>1. Cardinality(Viewer) \in Nat
      BY VideoBounds, FS_CardinalityType
    <3>2. \A s \in Share : watchers[s] \in Nat
      BY ShapeOf DEF ShareAll
    <3> QED
      BY <3>1, <3>2, FiniteOpened DEF WatchersBounded
  <2>4. viewers \in 0..Cardinality(Viewer)
    <3>1. Watching \in SUBSET Viewer
      BY DEF Watching
    <3>2. Cardinality(Watching) \in Nat /\ Cardinality(Watching) <= Cardinality(Viewer)
      BY <3>1, VideoBounds, FiniteViews, FS_Subset, FS_CardinalityType
    <3> QED
      BY <2>3, <3>2 DEF ShareAll, ViewInv, ViewersCounted
  <2>5. \A s \in Share : out[s] \in Seq({"key", "delta", "end"}) /\ Len(out[s]) <= MaxFrames + 1
    BY ShapeOf DEF ShareAll, FramesBounded, FramesFit
  <2> QED
    BY <2>2, <2>3, <2>4, <2>5, ShapeOf DEF ShareAll, VideoTypeOK, ViewRec
<1> QED
  BY <1>1, <1>2, <1>3, ShareInvariance, PTL DEF VideoSpec
=============================================================================
