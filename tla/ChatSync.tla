------------------------------ MODULE ChatSync ------------------------------
(***************************************************************************)
(* Delivery of one channel's chat to the devices of its members: the relay  *)
(* in messageController.ts, the delivery engine of useChannelChat.js with   *)
(* the rules of chatSyncCore.js, the local history of messageStore.js and   *)
(* the epoch-aware decrypt of mlsSession.js.                                *)
(*                                                                         *)
(* The server keeps no history. A message is its number in the order of     *)
(* publishing, which is also the order of its timestamps; its text is its   *)
(* number too. Of the MLS group only what decrypting depends on is here:    *)
(* the epoch a device is at and the one it joined in.                       *)
(***************************************************************************)
EXTENDS Naturals, Sequences, FiniteSets, SequencesExt, FiniteSetsExt

CONSTANTS
    Device,       \* the devices, each on the account OwnerOf gives
    OwnerOf,
    Holders,      \* the devices that hold the group at first
    ReplyMax,     \* SYNC_REPLY_MAX
    MaxAttempts,  \* MAX_DECRYPT_ATTEMPTS
    MaxPast,      \* mls-crypto's MAX_PAST_EPOCHS
    MaxBundles,   \* MAX_FAILED_BUNDLES
    MaxMsgs,      \* bound on messages
    GroupEpochs,  \* bound on the group's epochs
    ChatLosses    \* bound on lost streams, failed sends and answers, and restarts

ASSUME ChatBounds ==
    /\ Holders \subseteq Device
    /\ ReplyMax \in Nat \ {0} /\ MaxAttempts \in Nat \ {0} /\ MaxPast \in Nat /\ MaxBundles \in Nat
    /\ MaxMsgs \in Nat /\ GroupEpochs \in Nat \ {0} /\ ChatLosses \in Nat

Id == 1..MaxMsgs

VARIABLES
    log,         \* per message published: its author and the epoch it is encrypted in
    groupEpoch,  \* the group's epoch at the delivery service
    at,          \* per device: the epoch of its copy (0: not held)
    joined,      \* per device: the epoch it holds the group from
    history,     \* per device: its rows of channel_messages
    online,      \* the devices whose event stream is open
    chain,       \* per device: the decrypts to do, strictly in arrival order
    sending,     \* per device: the message its send() awaits the answer for (0: none)
    pendingSent, \* per device: the own messages to recall, oldest first
    ownSentIds,  \* per device: the messages sent since it started
    asking,      \* the devices with a catch-up request to make
    asked,       \* the requests made to a device: who asked, from when on
    failedBundles, \* per device: bundles kept for a group change
    losses

deviceVars == <<at, joined, history, chain, sending, pendingSent, ownSentIds, failedBundles>>
chatVars == <<log, groupEpoch, deviceVars, online, asking, asked, losses>>

\* A stored row. text 0: not readable yet ("Waiting for key").
ChatRow == [text: 0..MaxMsgs, reason: {"none", "ahead", "not_member", "too_old", "corrupt"}, attempts: Nat]
NoRow == [text |-> 0, reason |-> "absent", attempts |-> 0]
IsReadable(row) == row.text # 0
Stored(row) == row # NoRow
ReadableRow(text) == [text |-> text, reason |-> "none", attempts |-> 0]
UnreadableRow(why, tries) == [text |-> 0, reason |-> why, attempts |-> tries]

\* Mutated form: the row that came last is kept.
LastWins(existing, incoming) == incoming
\* mergeChannelRow.
Merge(existing, incoming) ==
    CASE ~Stored(existing) -> incoming
      [] Stored(existing) /\ IsReadable(existing) -> existing
      [] Stored(existing) /\ ~IsReadable(existing) /\ IsReadable(incoming) -> incoming
      [] OTHER -> UnreadableRow(incoming.reason, Max({existing.attempts, incoming.attempts}))

TERMINAL_FAIL_REASONS == {"too_old", "corrupt"}
\* isRetryable.
IsRetryable(row) ==
    /\ Stored(row) /\ ~IsReadable(row)
    /\ row.reason \notin TERMINAL_FAIL_REASONS /\ row.attempts < MaxAttempts

Ids(rows) == {n \in Id : Stored(rows[n])}
Readable(rows) == {n \in Id : IsReadable(rows[n])}
\* The since of an empty history.
Everything == MaxMsgs + 1
\* Every row can be read: the newest; no row: the newest of what the peers have.
SinceNewest(rows) == IF Ids(rows) = {} THEN Everything ELSE Max(Ids(rows))
\* computeSyncSince: the messages asked for are those after it.
Since(rows) ==
    LET unreadable == Ids(rows) \ Readable(rows)
    IN IF unreadable # {} THEN Min(unreadable) - 1 ELSE SinceNewest(rows)

\* selectReplyRows: the newest for an empty history, else the first after since.
ReplyRows(rows, since) ==
    LET readable == Readable(rows)
    IN IF since = Everything THEN {n \in readable : Cardinality({k \in readable : k > n}) < ReplyMax}
       ELSE {n \in readable : n > since /\ Cardinality({k \in readable : k > since /\ k < n}) < ReplyMax}

ChatInit ==
    /\ log = <<>> /\ groupEpoch = 1
    /\ at = [d \in Device |-> IF d \in Holders THEN 1 ELSE 0]
    /\ joined = at
    /\ history = [d \in Device |-> [n \in Id |-> NoRow]]
    /\ online = Device /\ asking = {} /\ losses = 0
    /\ chain = [d \in Device |-> <<>>] /\ pendingSent = [d \in Device |-> <<>>]
    /\ failedBundles = [d \in Device |-> <<>>]
    /\ sending = [d \in Device |-> 0] /\ ownSentIds = [d \in Device |-> {}]
    /\ asked = [d \in Device |-> {}]

-----------------------------------------------------------------------------
(* Decrypting.                                                             *)

\* What decrypting something of an epoch gives a device whose copy is at epoch e.
Outcome(d, author, epoch, e) ==
    CASE e = 0 -> "not_member"
      [] e # 0 /\ epoch > e -> "ahead"
      [] e # 0 /\ epoch <= e /\ author # d /\ joined[d] <= epoch /\ e - epoch <= MaxPast -> "none"
      [] e # 0 /\ epoch < e /\ (author = d \/ joined[d] > epoch \/ e - epoch > MaxPast) -> "too_old"
      [] OTHER -> "corrupt"

\* decryptGroupTyped catches the group up, or fails to, when it is not held or is
\* behind; a copy that is not held stays so (a heal joins it, not a catch-up).
EpochsToTry(d, epoch) == IF at[d] # 0 /\ epoch > at[d] THEN {at[d], groupEpoch} ELSE {at[d]}

\* takePendingSent.
Recalled(d) == IF pendingSent[d] = <<>> THEN 0 ELSE Head(pendingSent[d])

Enqueue(queue, job) == Append(queue, job)
RetryJob == [kind |-> "retry"]
\* retryPending: a pass that waits is enough, one that runs is followed by another.
WithRetry(queue) == IF RetryJob \in ToSet(queue) THEN queue ELSE Enqueue(queue, RetryJob)

\* onGroupStateChange: retry what is pending, and the bundles kept, once.
GroupChanged(d, queue) ==
    WithRetry(queue) \o [i \in DOMAIN failedBundles[d] |-> [failedBundles[d][i] EXCEPT !.isRetry = TRUE]]

\* The copy moves to epoch e, or stays.
Advance(d, e, queue) ==
    /\ at' = [at EXCEPT ![d] = e]
    /\ chain' = [chain EXCEPT ![d] = IF e = at[d] THEN queue ELSE GroupChanged(d, queue)]

Store(d, n, row) == history' = [history EXCEPT ![d][n] = Merge(@, row)]

\* Mutated form: whatever cannot be read is taken for an echo.
TakenForEcho(d, n) == TRUE
\* isOwnAccount.
IsOwn(d, n) == OwnerOf[log[n].author] = OwnerOf[d]

\* handleRelay.
RunRelay(d) ==
    /\ chain[d] # <<>> /\ Head(chain[d]).kind = "relay"
    /\ LET n == Head(chain[d]).id
           own == IsOwn(d, n)
       IN \E e \in EpochsToTry(d, log[n].epoch) :
            LET why == Outcome(d, log[n].author, log[n].epoch, e)
                text == IF why = "none" THEN n ELSE IF own THEN Recalled(d) ELSE 0
            IN /\ Advance(d, e, Tail(chain[d]))
               /\ failedBundles' = IF e = at[d] THEN failedBundles ELSE [failedBundles EXCEPT ![d] = <<>>]
               /\ pendingSent' = IF why # "none" /\ own /\ pendingSent[d] # <<>>
                                 THEN [pendingSent EXCEPT ![d] = Tail(@)] ELSE pendingSent
               /\ IF own /\ n \in ownSentIds[d] THEN history' = history
                  ELSE Store(d, n, IF text # 0 THEN ReadableRow(text) ELSE UnreadableRow(why, 1))
    /\ UNCHANGED <<log, groupEpoch, joined, online, sending, ownSentIds, asking, asked, losses>>

\* retryPending: a pass over the rows worth it; a follow-up request, unless there was
\* one not long ago, when some stay unreadable.
RunRetry(d) ==
    /\ chain[d] # <<>> /\ Head(chain[d]).kind = "retry"
    /\ LET retry == {n \in Id : IsRetryable(history[d][n])}
       IN \E e \in {at[d]} \cup UNION {EpochsToTry(d, log[n].epoch) : n \in retry} :
            LET retried(n) == LET why == Outcome(d, log[n].author, log[n].epoch, e)
                              IN IF why = "none" THEN ReadableRow(n)
                                 ELSE UnreadableRow(why, history[d][n].attempts + 1)
                after == [n \in Id |-> IF n \in retry THEN Merge(history[d][n], retried(n)) ELSE history[d][n]]
            IN /\ history' = [history EXCEPT ![d] = after]
               /\ Advance(d, e, Tail(chain[d]))
               /\ failedBundles' = IF e = at[d] THEN failedBundles ELSE [failedBundles EXCEPT ![d] = <<>>]
               /\ asking' \in IF Ids(after) # Readable(after) THEN {asking, asking \cup {d}} ELSE {asking}
    /\ UNCHANGED <<log, groupEpoch, joined, online, sending, pendingSent, ownSentIds, asked, losses>>

\* handleSyncResponse: a bundle that cannot be read yet is kept for one retry.
RunBundle(d) ==
    /\ chain[d] # <<>> /\ Head(chain[d]).kind = "bundle"
    /\ LET bundle == Head(chain[d])
       IN \E e \in EpochsToTry(d, bundle.epoch) :
            LET why == Outcome(d, bundle.by, bundle.epoch, e)
                before == IF e = at[d] THEN failedBundles[d] ELSE <<>>
            IN /\ Advance(d, e, Tail(chain[d]))
               /\ history' = IF why # "none" THEN history
                             ELSE [history EXCEPT ![d] =
                                     [n \in Id |-> IF n \in DOMAIN bundle.items
                                                   THEN Merge(@[n], ReadableRow(bundle.items[n])) ELSE @[n]]]
               /\ failedBundles' =
                    [failedBundles EXCEPT ![d] =
                        IF /\ why \notin {"none"} \cup TERMINAL_FAIL_REASONS
                           /\ ~bundle.isRetry /\ Len(before) < MaxBundles
                        THEN Append(before, bundle) ELSE before]
    /\ UNCHANGED <<log, groupEpoch, joined, online, sending, pendingSent, ownSentIds, asking, asked, losses>>

\* The device applies the group's commits, or is healed into the group.
GroupChanges(d) ==
    /\ at[d] # groupEpoch
    /\ joined' = IF at[d] = 0 THEN [joined EXCEPT ![d] = groupEpoch] ELSE joined
    /\ Advance(d, groupEpoch, chain[d])
    /\ failedBundles' = [failedBundles EXCEPT ![d] = <<>>]
    /\ UNCHANGED <<log, groupEpoch, history, online, sending, pendingSent, ownSentIds, asking, asked, losses>>

Commit ==
    /\ groupEpoch < GroupEpochs /\ groupEpoch' = groupEpoch + 1
    /\ UNCHANGED <<log, deviceVars, online, asking, asked, losses>>

-----------------------------------------------------------------------------
(* Sending. Sends go out one after another.                                *)

\* Everybody online gets it, the sender's own stream included.
Publish(n) == [c \in Device |-> IF c \in online THEN Enqueue(chain[c], [kind |-> "relay", id |-> n]) ELSE chain[c]]

\* send(): encrypt, and the request reaches the server (sendMessage).
Send(d) ==
    /\ sending[d] = 0 /\ at[d] # 0 /\ Len(log) < MaxMsgs
    /\ log' = Append(log, [author |-> d, epoch |-> at[d]])
    /\ chain' = Publish(Len(log) + 1)
    /\ sending' = [sending EXCEPT ![d] = Len(log) + 1]
    /\ UNCHANGED <<groupEpoch, at, joined, history, online, pendingSent, ownSentIds, asking, asked,
                   failedBundles, losses>>

\* send(): the answer. The text is kept for the echo and the row is stored.
Sent(d) ==
    /\ sending[d] # 0 /\ sending' = [sending EXCEPT ![d] = 0]
    /\ pendingSent' = [pendingSent EXCEPT ![d] = Append(@, sending[d])]
    /\ ownSentIds' = [ownSentIds EXCEPT ![d] = @ \cup {sending[d]}]
    /\ Store(d, sending[d], ReadableRow(sending[d]))
    /\ UNCHANGED <<log, groupEpoch, at, joined, online, chain, asking, asked, failedBundles, losses>>

\* send() throws: nothing is noted, though the server may have published it.
SendFails(d) ==
    /\ sending[d] # 0 /\ losses < ChatLosses /\ losses' = losses + 1
    /\ sending' = [sending EXCEPT ![d] = 0]
    /\ UNCHANGED <<log, groupEpoch, at, joined, history, online, chain, pendingSent, ownSentIds, asking,
                   asked, failedBundles>>

-----------------------------------------------------------------------------
(* Catching up with peers.                                                 *)

\* requestCatchUp, and requestOrgSync on the server: every other account's devices
\* that are online hear of it, those not in the group have nothing to say.
Ask(d) ==
    /\ d \in asking /\ d \in online /\ asking' = asking \ {d}
    /\ asked' = [c \in Device |->
                    IF c \in online /\ OwnerOf[c] # OwnerOf[d] /\ at[c] # 0
                    THEN asked[c] \cup {[by |-> OwnerOf[d], since |-> Since(history[d])]} ELSE asked[c]]
    /\ UNCHANGED <<log, groupEpoch, deviceVars, online, losses>>

\* answerOrgSync, after the jitter, and respondOrgSync on the server: the readable
\* rows, as one message under the epoch of now, to every device of who asked. An answer
\* the responder has nothing for, or that it cannot encrypt now, is not sent.
AnswerAsk(c) ==
    \E request \in asked[c] :
        /\ asked' = [asked EXCEPT ![c] = @ \ {request}]
        /\ LET reply == ReplyRows(history[c], request.since)
               bundle == [kind |-> "bundle", by |-> c, epoch |-> at[c], isRetry |-> FALSE,
                          items |-> [n \in reply |-> history[c][n].text]]
           IN /\ at[c] # 0 /\ reply # {} /\ c \in online
              /\ chain' = [d \in Device |-> IF d \in online /\ OwnerOf[d] = request.by
                                            THEN Enqueue(chain[d], bundle) ELSE chain[d]]
        /\ UNCHANGED <<log, groupEpoch, at, joined, history, online, sending, pendingSent, ownSentIds,
                       asking, failedBundles, losses>>

\* A request with nothing to answer it by, one answered within the last seconds, or one
\* whose answer fails.
SkipAsk(c) ==
    \E request \in asked[c] :
        /\ \/ at[c] = 0 \/ ReplyRows(history[c], request.since) = {} \/ c \notin online
           \/ losses < ChatLosses
        /\ losses' = IF at[c] = 0 \/ ReplyRows(history[c], request.since) = {} \/ c \notin online
                     THEN losses ELSE losses + 1
        /\ asked' = [asked EXCEPT ![c] = @ \ {request}]
        /\ UNCHANGED <<log, groupEpoch, deviceVars, online, asking>>

-----------------------------------------------------------------------------
(* Streams and restarts.                                                   *)

\* What is published while the stream is down is not delivered to it later.
Disconnect(d) ==
    /\ d \in online /\ losses < ChatLosses /\ losses' = losses + 1
    /\ online' = online \ {d}
    /\ UNCHANGED <<log, groupEpoch, deviceVars, asking, asked>>

\* connected: catchUpReadyOrgs. The request is made once the channels are listed.
Connect(d) ==
    /\ d \notin online /\ online' = online \cup {d} /\ asking' = asking \cup {d}
    /\ UNCHANGED <<log, groupEpoch, deviceVars, asked, losses>>

\* The app ends and starts again: the history stays, and startOrgSync retries and asks.
RestartDevice(d) ==
    /\ losses < ChatLosses /\ losses' = losses + 1
    /\ chain' = [chain EXCEPT ![d] = <<RetryJob>>] /\ asking' = asking \cup {d}
    /\ pendingSent' = [pendingSent EXCEPT ![d] = <<>>] /\ ownSentIds' = [ownSentIds EXCEPT ![d] = {}]
    /\ sending' = [sending EXCEPT ![d] = 0] /\ failedBundles' = [failedBundles EXCEPT ![d] = <<>>]
    /\ asked' = [asked EXCEPT ![d] = {}]
    /\ UNCHANGED <<log, groupEpoch, at, joined, history, online>>

ChatStep(d) ==
    \/ RunRelay(d) \/ RunRetry(d) \/ RunBundle(d) \/ GroupChanges(d)
    \/ Send(d) \/ Sent(d) \/ SendFails(d)
    \/ Ask(d) \/ AnswerAsk(d) \/ SkipAsk(d)
    \/ Disconnect(d) \/ Connect(d) \/ RestartDevice(d)

ChatNext == Commit \/ \E d \in Device : ChatStep(d)
ChatSpec == ChatInit /\ [][ChatNext]_chatVars

-----------------------------------------------------------------------------
ChatTypeOK ==
    /\ Len(log) <= MaxMsgs /\ \A n \in DOMAIN log : log[n].author \in Device /\ log[n].epoch \in 1..groupEpoch
    /\ at \in [Device -> 0..groupEpoch] /\ joined \in [Device -> 0..groupEpoch]
    /\ \A d \in Device :
          /\ Ids(history[d]) \subseteq DOMAIN log
          /\ \A n \in Ids(history[d]) :
                /\ history[d][n] \in ChatRow /\ history[d][n].attempts <= MaxAttempts
                /\ IsReadable(history[d][n]) <=> history[d][n].reason = "none"
          /\ Len(failedBundles[d]) <= MaxBundles

\* messageStore.js, MR2: "a readable row is never overwritten", whatever comes after it
\* and from wherever: an echo, a retry of a row read before, another peer's answer.
ReadableIsFinal ==
    [][\A d \in Device, n \in Id : IsReadable(history[d][n]) => history'[d][n] = history[d][n]]_chatVars

\* Text stays with its account: a row never shows what another account wrote, however
\* echoes, recalls, answers and retries cross.
NoForeignText ==
    \A d \in Device : \A n \in Readable(history[d]) :
        OwnerOf[log[history[d][n].text].author] = OwnerOf[log[n].author]
=============================================================================
