----------------------------- MODULE VideoShare -----------------------------
(***************************************************************************)
(* Screen shares at the media relay: the publish and subscribe sessions of  *)
(* main.rs and the maps of one room they meet in. Each map has its own lock *)
(* and each step here is what a handler does under one of them. A session   *)
(* that publishes is a number, which is also its nonce.                     *)
(***************************************************************************)
EXTENDS Naturals, Sequences, FiniteSets

CONSTANTS
    Sharer,      \* the users who share
    Viewer,      \* the subscribe sessions
    MaxShares,   \* bound on publish sessions
    MaxFrames,   \* bound on the frames of a publish session
    Backlog      \* capacity of a share's broadcast channel (512)

ASSUME VideoBounds ==
    /\ MaxShares \in Nat \ {0} /\ MaxFrames \in Nat /\ Backlog \in Nat \ {0}
    /\ IsFiniteSet(Viewer)
ASSUME VideoNobody == 0 \notin Sharer

Share == 1..MaxShares
VideoMap == {"nonce", "act", "header", "stream", "sharer", "keyframe", "ovHeader", "ovStream"}

VARIABLES
    share,     \* the publish sessions, in the order they claim their nonces
    maps,      \* per user and map the session its entry is of (0: no entry)
    out,       \* per session the frames sent on its channel: "key", "delta", or the "end" sentinel
    watchers,  \* per session the value of its activation channel
    view,      \* the subscribe sessions
    viewers    \* video_viewer_count

videoVars == <<share, maps, out, watchers, view, viewers>>

\* at: what the session does next. "setup" and "teardown" go through the maps, done counts them;
\* "waiting" is for the header, "live" the relay loop, "cached" a keyframe stored and not yet sent,
\* "ended" before the nonce is compared, "failed" the same on the header's error path. overlay: its
\* overlay task. alone: no other session of the user was between two maps when this one claimed.
NoShare == [user |-> 0, at |-> "none", done |-> 0, key |-> 0, overlay |-> "none", alone |-> TRUE]
NoView == [user |-> 0, at |-> "none", of |-> 0, prefix |-> 0, next |-> 0, last |-> 0, resync |-> FALSE]

SetUp == <<"nonce", "act", "header", "stream", "sharer">>
TearDown == <<"header", "keyframe", "ovHeader", "act", "stream", "sharer">>

StandsAt(s, where) == share[s].at = where
SharesOf(u) == {s \in Share : share[s].user = u}
EntryOf(s, map) == maps[share[s].user][map]
Watching == {v \in Viewer : view[v].at = "watching"}

VideoTypeOK ==
    /\ share \in [Share -> [user : Sharer \cup {0},
                            at : {"none", "setup", "waiting", "live", "cached", "ended", "failed",
                                  "dropping", "teardown", "over"},
                            done : 0..6, key : 0..MaxFrames,
                            overlay : {"none", "announced", "live", "ended", "half", "over"},
                            alone : BOOLEAN]]
    /\ maps \in [Sharer -> [VideoMap -> 0..MaxShares]]
    /\ \A s \in Share : out[s] \in Seq({"key", "delta", "end"}) /\ Len(out[s]) <= MaxFrames + 1
    /\ watchers \in [Share -> 0..Cardinality(Viewer)]
    /\ view \in [Viewer -> [user : Sharer \cup {0},
                            at : {"none", "found", "subscribed", "ready", "watching", "leaving", "over"},
                            of : 0..MaxShares, prefix : Nat, next : Nat, last : Nat, resync : BOOLEAN]]
    /\ viewers \in 0..Cardinality(Viewer)

VideoInit ==
    /\ share = [s \in Share |-> NoShare]
    /\ maps = [u \in Sharer |-> [m \in VideoMap |-> 0]]
    /\ out = [s \in Share |-> <<>>]
    /\ watchers = [s \in Share |-> 0]
    /\ view = [v \in Viewer |-> NoView]
    /\ viewers = 0

-----------------------------------------------------------------------------
(* handle_video_publish *)

\* The session becomes the user's: its nonce replaces the one of a session it may not know of.
ClaimShare(u) == \E s \in Share :
    /\ StandsAt(s, "none") /\ \A t \in 1..(s - 1) : ~StandsAt(t, "none")
    /\ share' = [share EXCEPT ![s] = [NoShare EXCEPT !.user = u, !.at = "setup", !.done = 1,
                     !.alone = \A t \in SharesOf(u) : share[t].at \in {"live", "cached", "ended", "over"}]]
    /\ maps' = [maps EXCEPT ![u]["nonce"] = s]
    /\ UNCHANGED <<out, watchers, view, viewers>>

\* The next map of the setup. After the activation channel it waits for the header; with its user
\* among the sharers it is live and starts its overlay task.
Enter(s) == LET map == SetUp[share[s].done + 1] IN
    /\ StandsAt(s, "setup")
    /\ maps' = [maps EXCEPT ![share[s].user][map] = s]
    /\ share' = [share EXCEPT ![s].done = @ + 1,
                     ![s].at = CASE map = "act" -> "waiting" [] map = "sharer" -> "live" [] OTHER -> "setup",
                     ![s].overlay = IF map = "sharer" THEN "announced" ELSE @]
    /\ UNCHANGED <<out, watchers, view, viewers>>

\* The header arrives, or the stream does not open in time, or what it brings is no header.
HeaderArrives(s) ==
    /\ StandsAt(s, "waiting")
    /\ \E next \in {"setup", "failed", "ended"} : share' = [share EXCEPT ![s].at = next]
    /\ UNCHANGED <<maps, out, watchers, view, viewers>>

\* A keyframe is cached before it is sent.
CacheKey(s) ==
    /\ StandsAt(s, "live") /\ Len(out[s]) < MaxFrames
    /\ share' = [share EXCEPT ![s].at = "cached", ![s].key = Len(out[s]) + 1]
    /\ maps' = [maps EXCEPT ![share[s].user]["keyframe"] = s]
    /\ UNCHANGED <<out, watchers, view, viewers>>

SendFrame(s) ==
    /\ \/ StandsAt(s, "live") /\ Len(out[s]) < MaxFrames /\ out' = [out EXCEPT ![s] = Append(@, "delta")]
       \/ StandsAt(s, "cached") /\ out' = [out EXCEPT ![s] = Append(@, "key")]
    /\ share' = [share EXCEPT ![s].at = "live"]
    /\ UNCHANGED <<maps, watchers, view, viewers>>

\* The stream ends or breaks a limit: the overlay task is aborted wherever it is.
StreamEnds(s) ==
    /\ StandsAt(s, "live")
    /\ share' = [share EXCEPT ![s].at = "ended", ![s].overlay = "over"]
    /\ UNCHANGED <<maps, out, watchers, view, viewers>>

\* Mutant of ComparesNonce: the nonce entry goes whosever it is.
RemovesNonceAnyhow(s) == maps' = [maps EXCEPT ![share[s].user]["nonce"] = 0]
\* Under one lock: the nonce is compared, and removed when it is the session's own.
ComparesNonce(s) ==
    maps' = IF EntryOf(s, "nonce") = s THEN [maps EXCEPT ![share[s].user]["nonce"] = 0] ELSE maps

\* Only the session whose nonce was still there goes on: through all maps, or, where the header
\* failed, to the activation channel alone.
CheckNonce(s) ==
    /\ share[s].at \in {"ended", "failed"}
    /\ ComparesNonce(s)
    /\ share' = [share EXCEPT ![s].done = 0,
                     ![s].at = IF EntryOf(s, "nonce") # s THEN "over"
                               ELSE IF StandsAt(s, "failed") THEN "dropping" ELSE "teardown"]
    /\ UNCHANGED <<out, watchers, view, viewers>>

DropAct(s) ==
    /\ StandsAt(s, "dropping")
    /\ share' = [share EXCEPT ![s].at = "over"]
    /\ maps' = [maps EXCEPT ![share[s].user]["act"] = 0]
    /\ UNCHANGED <<out, watchers, view, viewers>>

\* The next map of the teardown; the sentinel goes out after the activation channel.
RemoveEntry(s) == LET map == TearDown[share[s].done + 1] IN
    /\ StandsAt(s, "teardown")
    /\ maps' = [maps EXCEPT ![share[s].user][map] = 0]
    /\ share' = [share EXCEPT ![s].done = @ + 1, ![s].at = IF map = "sharer" THEN "over" ELSE @]
    /\ out' = IF map = "act" THEN [out EXCEPT ![s] = Append(@, "end")] ELSE out
    /\ UNCHANGED <<watchers, view, viewers>>

\* The overlay task registers the second stream, and when that ends removes the user's entries.
Overlay(s) == LET u == share[s].user  to(next) == share' = [share EXCEPT ![s].overlay = next] IN
    /\ \/ share[s].overlay = "announced" /\ to("half") /\ maps' = [maps EXCEPT ![u]["ovHeader"] = s]
       \/ share[s].overlay = "half" /\ to("live") /\ maps' = [maps EXCEPT ![u]["ovStream"] = s]
       \/ share[s].overlay = "live" /\ to("ended") /\ maps' = [maps EXCEPT ![u]["ovHeader"] = 0]
       \/ share[s].overlay = "ended" /\ to("over") /\ maps' = [maps EXCEPT ![u]["ovStream"] = 0]
       \/ share[s].overlay = "announced" /\ to("over") /\ UNCHANGED maps
    /\ UNCHANGED <<out, watchers, view, viewers>>

-----------------------------------------------------------------------------
(* handle_video_subscribe *)

\* The sharer is looked up under the room's lock.
FindSharer(v, u) ==
    /\ view[v].at = "none" /\ maps[u]["sharer"] # 0
    /\ view' = [view EXCEPT ![v] = [NoView EXCEPT !.user = u, !.at = "found"]]
    /\ UNCHANGED <<share, maps, out, watchers, viewers>>

\* Its channel is found, from the next frame on, or there is none.
Subscribe(v) == LET s == maps[view[v].user]["stream"] IN
    /\ view[v].at = "found"
    /\ view' = [view EXCEPT ![v] = IF s = 0 THEN [@ EXCEPT !.at = "over"]
                                   ELSE [@ EXCEPT !.at = "subscribed", !.of = s, !.next = Len(out[s]) + 1]]
    /\ UNCHANGED <<share, maps, out, watchers, viewers>>

\* The cached keyframe is read, for the prefix.
ReadPrefix(v) == LET s == maps[view[v].user]["keyframe"] IN
    /\ view[v].at = "subscribed"
    /\ view' = [view EXCEPT ![v].at = "ready", ![v].prefix = IF s = view[v].of THEN share[s].key ELSE 0]
    /\ UNCHANGED <<share, maps, out, watchers, viewers>>

\* Mutant of OpenView: the viewer is counted before its stream is known to open.
OpenViewCounted(v) == LET a == maps[view[v].user]["act"] IN
    /\ view[v].at = "ready"
    /\ watchers' = IF a = 0 THEN watchers ELSE [watchers EXCEPT ![a] = @ + 1]
    /\ viewers' = viewers + 1
    /\ \E next \in {"watching", "over"} : view' = [view EXCEPT ![v].at = next]
    /\ UNCHANGED <<share, maps, out>>

\* The stream to the viewer opens, it is counted and its loop starts with the prefix; or it does
\* not open, and it is not.
OpenView(v) == LET a == maps[view[v].user]["act"] IN
    /\ view[v].at = "ready"
    /\ \/ /\ watchers' = IF a = 0 THEN watchers ELSE [watchers EXCEPT ![a] = @ + 1]
          /\ viewers' = viewers + 1
          /\ view' = [view EXCEPT ![v].at = "watching"]
       \/ /\ view' = [view EXCEPT ![v].at = "over"]
          /\ UNCHANGED <<watchers, viewers>>
    /\ UNCHANGED <<share, maps, out>>

\* recv() on a broadcast channel: a receiver too far behind is told so once and moved to the oldest frame kept.
Oldest(s) == IF Len(out[s]) > Backlog THEN Len(out[s]) - Backlog + 1 ELSE 1

\* Mutant of Lagged: the frames lost are not made good by a keyframe.
LaggedOn(v) ==
    /\ view[v].at = "watching" /\ view[v].next < Oldest(view[v].of)
    /\ view' = [view EXCEPT ![v].next = Oldest(view[v].of)]
    /\ UNCHANGED <<share, maps, out, watchers, viewers>>

Lagged(v) ==
    /\ view[v].at = "watching" /\ view[v].next < Oldest(view[v].of)
    /\ view' = [view EXCEPT ![v].next = Oldest(view[v].of), ![v].resync = TRUE]
    /\ UNCHANGED <<share, maps, out, watchers, viewers>>

\* A frame is written, or passed over: while a keyframe is awaited, or because it is too old.
Receive(v) == LET s == view[v].of  n == view[v].next IN
    /\ view[v].at = "watching" /\ n \in Oldest(s)..Len(out[s]) /\ out[s][n] # "end"
    /\ LET write == [view[v] EXCEPT !.next = n + 1, !.last = n, !.resync = FALSE]
           pass == [view[v] EXCEPT !.next = n + 1, !.resync = TRUE]
       IN \/ (out[s][n] = "key" \/ ~view[v].resync) /\ view' = [view EXCEPT ![v] = write]
          \/ out[s][n] = "delta" /\ view' = [view EXCEPT ![v] = pass]
    /\ UNCHANGED <<share, maps, out, watchers, viewers>>

\* The loop ends, at the sentinel, a closed channel, a failed write or the viewer's own end, and
\* the room's count goes down.
StopWatching(v) ==
    /\ view[v].at = "watching"
    /\ view' = [view EXCEPT ![v] = [NoView EXCEPT !.user = view[v].user, !.at = "leaving"]]
    /\ viewers' = viewers - 1
    /\ UNCHANGED <<share, maps, out, watchers>>

\* Whoever the user's activation channel is of now, it loses a viewer.
Deactivate(v) == LET a == maps[view[v].user]["act"] IN
    /\ view[v].at = "leaving"
    /\ view' = [view EXCEPT ![v].at = "over"]
    /\ watchers' = IF a # 0 /\ watchers[a] > 0 THEN [watchers EXCEPT ![a] = @ - 1] ELSE watchers
    /\ UNCHANGED <<share, maps, out, viewers>>

PublishStep(s) ==
    \/ Enter(s) \/ HeaderArrives(s) \/ CacheKey(s) \/ SendFrame(s) \/ StreamEnds(s)
    \/ CheckNonce(s) \/ DropAct(s) \/ RemoveEntry(s) \/ Overlay(s)

SubscribeStep(v) ==
    Subscribe(v) \/ ReadPrefix(v) \/ OpenView(v) \/ Lagged(v) \/ Receive(v) \/ StopWatching(v) \/ Deactivate(v)

VideoNext ==
    \/ \E u \in Sharer : ClaimShare(u) \/ \E v \in Viewer : FindSharer(v, u)
    \/ \E s \in Share : PublishStep(s)
    \/ \E v \in Viewer : SubscribeStep(v)

VideoSpec == VideoInit /\ [][VideoNext]_videoVars

-----------------------------------------------------------------------------
\* A reconnect does not lose the share: a live session that no later one has followed, and that
\* claimed while the user's other sessions were in their loops or past their cleanups, has its
\* entries in the maps, whatever the cleanups of the others do since.
LiveIsListed == \A u \in Sharer : \A s \in SharesOf(u) :
    share[s].at \in {"live", "cached"} /\ share[s].alone /\ EntryOf(s, "nonce") = s
        => \A m \in {"act", "header", "stream", "sharer"} : maps[u][m] = s

\* When every session of a user that got so far has ended, none of its entries is left.
OverIsGone == \A u \in Sharer :
    (\A s \in SharesOf(u) : StandsAt(s, "over") /\ share[s].alone /\ share[s].overlay # "none")
        => \A m \in {"nonce", "act", "header", "stream", "sharer"} : maps[u][m] = 0

\* The room's count is of those who watch, and the activation of a share that is its user's first
\* counts each viewer until it has left: nothing stays counted after a failed open or an abrupt end.
ViewersCounted ==
    /\ viewers = Cardinality(Watching)
    /\ \A u \in Sharer, s \in Share :
          SharesOf(u) = {s} /\ maps[u]["act"] = s
             => watchers[s] = Cardinality({v \in Viewer : view[v].user = u /\ view[v].at \in {"watching", "leaving"}})

\* The maps, the sharers and the counts agree with the sessions there are, across a reconnect (the
\* nonce check of the cleanup) and whatever a viewer's stream comes to.
ShareKept == LiveIsListed /\ OverIsGone /\ ViewersCounted

\* What a viewer's decoder gets it can decode: a delta written to it is the successor of the frame
\* written before, however far the receiver fell behind or how old frames were dropped. Only the
\* first frame after the prefix is excepted.
NoGaps == [][\A v \in Viewer : LET s == view'[v].of IN
    view'[v].at = "watching" /\ view'[v].last # view[v].last /\ out[s][view'[v].last] = "delta"
        => view[v].last \in {0, view'[v].last - 1}]_videoVars

\* What the cleanups' comment says (main.rs:2466) of any reconnect: the newest session is listed,
\* also when an older one was in its cleanup as it claimed.
NewestIsListed == \A u \in Sharer : \A s \in SharesOf(u) :
    share[s].at \in {"live", "cached"} /\ EntryOf(s, "nonce") = s
        => \A m \in {"act", "header", "stream", "sharer"} : maps[u][m] = s
=============================================================================
