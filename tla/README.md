# A TLA+ model of SpecterComs

SpecterComs is a voice-and-chat client for organisations: a React/Tauri client
(`src/web-portal`), a Node identity service with a Postgres database
(`src/services/identity-node`), a Rust media relay (`src/services/media-rust`) and
a website. Chat and relay audio are end-to-end encrypted with MLS (RFC 9420): the
client holds MLS groups through OpenMLS (`mls-crypto`, `wasm-crypto`), the identity
service is the *Delivery Service* that orders their commits without being able to
read them.

This directory models the part of the system whose correctness is hardest to see
from the code and to reach from a test, checks it with TLC on small instances, and
proves its central properties with TLAPS for every value of the constants.

## 1. Inventory

`PROJECT.json` lists the same components with their status.

| Component | State it keeps | Operations | What is hard | What makes it correct |
|---|---|---|---|---|
| **MLS delivery service** `mlsGroupController.ts` | `mls_groups` (current epoch, GroupInfo, its epoch), `mls_commit_log`, the member list behind every gate | submit a commit (channel, event, DM, external), serve and accept a GroupInfo, serve catch-up | concurrent submits; a GroupInfo that outlives its epoch; two unsynchronised reads per catch-up; opaque commits it cannot check | one commit per epoch, each built on the one before; a stored GroupInfo never passes for another epoch's |
| **MLS client session: group flows** `mlsSession.js` | per group: cached state; per flow: what was fetched | ensure, heal, sync, catch-up, external join, genesis, reconcile, own commits, live commits and welcomes | results of network calls used after the state moved; ambiguous answers; a device cannot apply its own commit | never adopt what the server did not accept; never fork; get to the server's epoch again |
| **MLS client session: device-state store** `mlsSession.js` 275-463 | one blob, a version, a session generation, a lock queue, one writer, waiters | take the lock, commit lazily or durably, write, fail, switch account | callbacks of one account running after a switch; one writer serving several versions; a failed write | nothing leaves the device before the state it depends on is durable; one account's state never becomes another's |
| **mls-crypto** `mls-crypto/src/lib.rs` | none (pure functions of a blob) | process, join, external commit, add, remove, encrypt, decrypt | epoch and leaf ownership | (OpenMLS itself is external) |
| **mls_store** `src-tauri/src/mls_store.rs` | main / bak / tmp file per account, a legacy directory with an owner marker, a key in the keyring, a pending deferred write | atomic replace, load with recovery, legacy migration, lazy save and flush, hand-off to the background | a crash between any two file operations; a migration interrupted twice; a keyring that locks | an acknowledged durable state is never lost or rolled back |
| **Background sync** `background_sync.rs`, `strip.rs` | the mutex and the owner flag of the state | decrypt and cache (nothing starts the loop) | racing the dying webview | one writer at a time |
| **Refresh tokens and session** `authController.ts`, `session.rs` | `refresh_tokens` rows; the app's session, epoch, credentials file and in-flight refresh | refresh, login, logout, profile update, restore, expiry | a lost answer; a retry; a crash between answer and file; a refresh across logout and login | an honest client is not treated as a thief; a login has one usable token; no token outlives its session |
| **Relay audio** `relay_audio.rs`, `voiceRelayAudio.js` | sender counters; per-sender sessions with replay windows; retired sessions; a current and a previous receiver | seal, open, evict, retire, rekey | window edges, eviction at the caps, clock skew, key changes seen at different times | no frame is played twice; a new frame is never refused |
| **Channel chat** `useChannelChat.js`, `chatSyncCore.js`, `messageStore.js`, `messageController.ts` | message rows per channel; the decrypt chain; pending own texts; kept bundles | send, live receive, retry, ask peers, answer, merge | any order of arrival; echoes; a key that comes later | a readable row is final; no row shows another account's text |
| **Media relay** `media-rust/src/main.rs` | session registry, rooms with members, nonces and output senders; per share nine maps and a broadcast channel; per room a priority speaker and when it ends | connect, join, end, clean up, kick; publish, subscribe; relay a frame, duck, release | a cleanup of several locks against a reconnect; viewers that fall behind; a command from a room above | the newest session holds the room, alone; a share is listed while it lives; a viewer's decoder gets no gap; one speaker at a time |
| **CommLink: the link to the relay** `CommLink.jsx` | the transport, two timers, where `connect` is, the sealing key and its channel | connect, reconnect, Move, unmount, key retry and refresh | callbacks and timers of the transport before, key work across a Move | always connected or about to be, once; no frame under another channel's key |
| **Monitor keys** `useMonitorChannel.js` | per session two keys, one derivation and who asked meanwhile, a retry timer | derive, retry, rekey, dispose | a group that changes during a derivation | the keys follow the groups; none after the end |
| **Channels and presence** `channelController.ts`, `billingConsumer.ts`, `CommLink.jsx` | the presence table and an in-memory map | join, leave, heartbeat, sweep, bulk move, evict | calls that overtake each other between a statement and the map | a connected user ends up shown |
| **Events and sign-ups** `eventsController.ts` | an event's channels, groups, roles, hulls, members, reservations | launch, end, save, join, leave, claim, approve, remove | what a request read is stale when it writes; timers; a planner's old page | a running operation keeps its channels; a sign-up survives |
| **Billing** `billingController.ts`, `billingCredit.ts`, `stripeWebhook.ts`, `billingConsumer.ts` | contributions, checkouts, pool, usage cycle | contribute, invoice, pay, webhook, meter, roll over | repeated and reordered webhooks; two roll-overs | one payment, one credit; no usage lost |
| **Event delivery** SSE, NATS, push | subscriptions | publish, subscribe | loss, no replay | (only a hint: clients catch up) |
| **Organisation, role, friend, DM, moderation and admin controllers** | rows | CRUD | their effect on member lists | |
| **Native audio plugin, desktop shell, user interface, website** | devices, windows | I/O, rendering | outside a model's reach | |

How they interact. A client's flows call the delivery service over HTTP; accepted
commits and welcomes come back to *other* devices through NATS and SSE, unreliably.
Every flow and every live event takes the client's one state lock; the lock's work
replaces one blob, which the writer sends to `mls_store` through Tauri IPC. The
member lists that gate the delivery service belong to the organisation, event and
friend controllers. Relay audio keys are exported from the MLS groups. Every call to
the identity service carries the session that `session.rs` owns. The media relay
reports ended sessions over NATS to the presence and billing consumers; an operation
makes the channels people talk in and deletes them when it ends.

## 2. Plan

In this order; a module is written so that it can be proved about (no `RECURSIVE`,
named assumptions, one action per operation, invariants in named parts).

1. `MlsDelivery`, `MlsGroup`, `GroupHistory` and their proofs - **done**.
2. `MlsStore`: file-level atomic replace, recovery, migration, deferred flush,
   hand-off, with its proofs - **done**.
3. `MlsPersist`: lock queue, writer, waiters, generations, account switch, over what
   `MlsStore` shows of Rust - **done**.
4. `RelayAudio`: sender, replay window, session tables, rekey - **done**.
5. `AuthSession`: server rotation and `session.rs` single flight, composed - **done**.
6. `ChatSync`: message merge, retries, peer backfill - **done** for one channel.
7. `VoiceRooms`, `Presence`, `Billing`, `OpLaunch`, `SignUps` - **done**.
8. `VideoShare`, `PrioritySpeech`, `VoiceLink`, `MonitorKeys` - **done**.

9. Proofs of `MlsPersist` (the durability contract), `VoiceLink`, `MonitorKeys`,
   `ChatSync`, `VideoShare`, `PrioritySpeech`, `RelayAudio`, and of the rest of
   `AuthSession` - **done**.
10. The theorems about `MlsStore` across the migration of a legacy state - **done**.

11. `StateCell`, what the storage promises to one account; `MlsStore` implements it and
   `MlsPersist` relies on it, both proved - **done**.

Left, in this order: friend requests and bans; several channels and accounts with two devices in
`ChatSync`.

## 3. The modules and the code

**`MlsDelivery`** is the server's side of one group. `curEpoch`, `log`, `info`,
`infoEpoch` are the row of `mls_groups` and the rows of `mls_commit_log`; `roster` is
the member list each endpoint resolves its caller against; `net` holds submitted
commits not handled yet. A commit carries its identity (author and a counter of the
author's), the identity of the commit it was built on (what MLS's transcript hash
binds), the tree it leaves and the devices it welcomes. `BumpGroupEpoch` is the
transaction; `TargetsCurrentEpoch` its `WHERE`; `ServesInfo` and `PutGroupInfo` the
two GroupInfo endpoints.

**`MlsGroup`** adds the devices. `cache` is `deviceStateCache` and `disk` what
`mls_load_state` would return, both restricted to the group; `op` is the work that
holds the state lock (`settle`: a durable write of an adopted state; `base`, `sent`,
`check`: `runOwnCommit` before the base is durable, while the request is out, and
while the log is consulted); `flow` is the ensure, heal or sync in progress with
everything it fetched and has not used yet.

| Actions | Code |
|---|---|
| `StartFlow`, `FetchLog`, `FetchRow`, `FetchFails`, `ApplyCatchUp`, `RefreshGroupInfo` | `catchUpGroup`, `fetchGroupCatchUp`, `maybeRefreshGroupInfo` |
| `Decide`, `DecideFails`, `AfterCatchUp`, `AfterJoin`, `AfterAbsent`, `AfterCommit` | `ensureReconciledGroup`, `healGroup`, `sync*GroupEpoch` |
| `FetchInfo`, `FetchInfoFails`, `BuildExternal` | `externalJoinOrResync` |
| `BuildGenesis`, `BuildRemove`, `BuildAdd` | `attemptGroupGenesis`, `reconcileGroupDevices` |
| `Submit`, `BaseFails`, `ServerSubmit`, `Answer`, `LoseAnswer`, `CheckLog`, `CheckGivesUp`, `Settle`, `SettleFails` | `runOwnCommit`, `wasOwnCommitAccepted`, `commitDurableLocked` and the server's handlers |
| `LiveCommit`, `LiveWelcome` | `handleGroupCommit`, `handleGroupWelcome` |
| `Crash`, `MemberListChange` | a restart; any controller that changes the list |

The network is what the code faces: a submitted request may arrive late, never, or
with its answer lost; a live event may reach a device at any time, in any order, or
never; two reads of one catch-up may straddle another device's commit. `Legacy`
devices run a client that uploads no GroupInfo.

**`GroupHistory`** is the abstract promise: one history that grows at its end, read
forwards; a restart goes back exactly to what was saved. `MlsGroup` instantiates it
with the log, `cache` and `disk` (`ImplementsHistory`).

**`MlsStore`** is the desktop client's storage of device states. A state is its
account and the set of changes it has absorbed; losing a confirmed change is losing
keys. `files` holds the three files of every account's directory and of the root
(where the one state lived before accounts had directories); a file is absent,
unreadable (torn) or a blob with the key it was written with. `job` is whatever holds
`MLS_STATE_CRITICAL_SECTION`, and the steps of a write, a migration and a load are
steps of it, so that a crash, an I/O error or a change of session can come between any
two. `js` and `req` are `mlsSession.js` as its only caller: the account it is bound to,
its state, and the one save in flight, plus the save a reloaded or destroyed page left
behind (`"gone"`).

| Actions | Code |
|---|---|
| `SignIn`, `BindAccount` | `auth_set_session` and a logout; `resetForUser` |
| `CreateIdentity`, `ChangeState`, `SaveAgain`, `LoadAnswered`, `Confirm`, `Refused` | `initIdentity`, `commitState`, `waitDurable`, `runWriter` |
| `RefuseSave`, `DeferSave`, `ScheduleFlush`, `StartSave` | `mls_save_state` |
| `TimerFires`, `StartExit`, `StartHandOff`, `Finish` | `schedule_flush`, `flush_pending`, `handoff_to_background` |
| `ObtainKey`, `KeyRefused`, `CreateTmp`, `SyncTmp`, `CopyToBak`, `SyncBak`, `RenameTmp`, `WriteError` | `save_locked`, `resolve_key`, `write_atomic` |
| `StartLoad`, `FindAccount`, `NoAccount`, `Load`, `LoadFails` | `mls_load_state`, `load_state` |
| `StartMigration`, `Migrate`, `WriteMarker`, `Move`, `MoveFails`, `MovesDone` | `ensure_migrated_locked`, `migrate_legacy` |
| `Crash`, `Reload`, `ForgetKey` | a crash, a reload of the page, a cleared keyring entry |

`acked`, `relied` and `accepted` remember, per account, the changes whose durable save
was confirmed; those and the ones in a state a load returned; and those Rust took in
(less what a crash may take). `Recoverable(a)` is what the next launch would load.

**`MlsPersist`** is the memory in front of that store: `cache` is `deviceStateCache`,
`queue` and `holder` the FIFO lock, `save` and `ver` the writer's save in flight and its
four versions, `gen` and `bound` the session's generation and account, `inits` the runs
of `initIdentity` under way. A state is its account and the set of lock work it has
absorbed. `released` remembers every ciphertext and own commit that left the device, with
the work its state had absorbed. Rust is `disk`, `pending` and `owner`.

**`StateCell`** is the abstract promise of the storage to one account: a state that saves
replace at once. It knows `safe`, what the last complete save left, `latest`, what a load
would return, and `promised`, what must not be lost; files, keys, pages, other accounts,
crashes and migrations are not in it. `MlsStore` instantiates it per account with the main
file (`MainOf`), `Recoverable` and `acked` (`ImplementsCells`): the fsync of the tmp file is
its `Write`, the truncation of one that was never renamed its `GiveUp` (the finding of
`store_tmp` seen from outside), the rename its `Complete`, the loss of the key
`KeyGone`, a new one where nothing is kept `Renew`; every other step, of any account, is no
step of the cell. `MlsPersist` instantiates it with `disk` and with the work
that has left the device (`DisksAreCells`); there a save is one step, and nothing is ever
given up.

**`AuthSession`** is one user's refresh tokens. `rows` are the rows of `refresh_tokens`;
`memory`, `epoch`, `loaded` and `file` are `Inner` and the credentials file of
`session.rs`; `flight`, `command` and `restore` are the refresh that holds the mutex, the
main thread's command and `auth_restore`, each at the point between two locks that it has
reached. Time is what distinguishes states: an access token is fresh or not, a rotated
row within its grace window or past it; a tick of time is longer than any request.

| Actions | Code |
|---|---|
| `ServeRefresh`, `ServeLogout`, `TokenExpires`, `TimePasses` | `refresh`, `logout`, lifetimes |
| `StartRefresh`, `Refreshed`, `RefreshPersists`, `Rejected`, `Expire`, `ExpireDeletes`, `RefreshFails` | `refresh_single_flight`, `expire_session` |
| `SetSession`, `SetUser`, `Logout`, `CommandWrites`, `CommandDeletes`, `LogoutLost` | the `auth_*` commands, `revoke_in_background` |
| `RestoreReads`, `RestoreAdopts`, `RestoreSucceeds`, `RestoreDrops`, `Relaunch` | `auth_restore`, a restart |

**`RelayAudio`** is `SenderCore` and `ReceiverCore` of `relay_audio.rs`, and the two
receivers `voiceRelayAudio.js` keeps around a key change. A sending session is a number
with the epoch its secret is of; `sent` is all the relay holds, and `Deliver` may take any
of it at any time, again and again. `played` forgets a session when the receiver's
tables do, which is what the code promises and no more.

**`ChatSync`** is one channel. Its rows carry a text, a reason or attempts; `chain` is
`decryptChain`, `pendingSent` the recall queue, `asking` and `asked` the catch-up
requests, `failedBundles` the answers kept for a group change. Of MLS only the epochs
that decide `Outcome` are here.

**`VoiceRooms`** has the relay's sessions, each between two of the locks that
`handle_voice_connection` takes; **`Presence`** the calls of the clients, each between its
statement and its change of the map; **`Billing`** the provider's checkouts and events
beside the rows; **`OpLaunch`** and **`SignUps`** the requests to `eventsController.ts`, each
between its reads and its transaction. Where the code holds a transaction or a row lock,
the step is one action; where it awaits between statements, it is two.

**`VideoShare`** is a screen share at the relay. `share` are the publish sessions: which of
the room's maps a session has set or removed, in the order `SetUp` and `TearDown` of the
code, since each map has a lock of its own; `maps` says whose entry each map holds. `out`
is the broadcast channel, `view` the subscribe sessions with the frame they are at and
`needs_resync`. **`PrioritySpeech`** has `priority_speaker` and `priority_release_at` of
every room, and what each client was last told; `CommandFrame` is the branch a frame of a
priority speaker takes, with its cascade down the tree.

**`VoiceLink`** is one CommLink between the awaits of `connect`: `dial` is how far that
is, `line` is `transportRef`, `waits` the two timers that call `connect`, `sealOf` and
`sealFor` are the key and `audioKeyChannelRef`, `tries` and `refreshes` the key work under
way. It assumes that a closed transport is noticed before a timer of 600 ms or more is
due. **`MonitorKeys`** has one record per session of the monitor hook (`deriving`,
`pending`, `timer`, `attempts` are its fields) and the device's own groups, which move by
themselves; the wait for `withMlsLock` is part of a derivation's first await.

**`MCMlsGroup`**, **`MCMlsStore`**, **`MCClient`**, **`MCVoice`** and the `.cfg` files are
the instances. `MCClient` and `MCVoice` put several components into one run: a behaviour
belongs to one of them (`part`) while the others stay initial. Nothing is lost by that,
because these components share no variable, and what one is told by another (a
`session_end` event, a bulk move) it may be told at any time. `VideoShare` is checked in
two parts, sessions that follow one another without viewers, from the start and from a
share in its loop, and viewers of one share in its loop. **`MlsGroupProofs`**,
**`MlsStoreProofs`**, **`PersistProofs`**, **`AuthProofs`**, **`IdentityProofs`** (billing,
operations, sign-ups, presence), **`VoiceProofs`** (rooms, link, monitors, speakers, relay audio),
**`ChatProofs`** and **`ShareProofs`** hold the theorems.

## 4. The runs

| Run | Question | Properties |
|---|---|---|
| `group_safety` | two devices, ensure and forced heals, every kind of fault | `NoFork`, `BaseSurvivesCrash`, `IndInv` (with `LogIsChain` and `InfoFitsItsEpoch` among its parts), `ImplementsHistory` |
| `group_legacy` | an old client's commits leave the GroupInfo stale; heals and syncs too | `InfoFitsItsEpoch` |
| `group_live` | two faults: a device unlisted and re-listed or that fails to fetch, the other crashing, losing answers, failing to write | `EventuallyAtServerEpoch` |
| `heal_gap` | does a scheduled heal re-join a device without a leaf? (it does not: finding below) | `HealLeavesUsableCopy` is violated |
| `store_faults` | two accounts, any two of crash, write error, locked keyring, lost key, reload | `AckedSurvives`, `OneKey`, `ImplementsCells`, `NeverFreshOver` |
| `store_migrate` | a legacy state is moved across crashes and failed moves; sign-ins, exits and hand-offs | `NothingKeptIsLost` (`AckedSurvives` and `AcceptedKept`), `StoreInv` |
| `store_late` | every kind of fault and a legacy state: loads overtake saves, the migration stops anywhere; is one timer at a time enough? | `DirHoldsOwn`, `DeferredIsFlushed` |
| `client` | session: lost messages, crash, failed write, expiry; memory: two accounts, failed save, rejected commit, crash, reload, late load; link: drops, Moves, failed connects, key work in flight; presence: overtaking and lost calls; monitors: rekeys during derivations | `OneLivePerLogin`, `NoFalseTheft`, `NothingLeftBehind`, `RefreshSettles`; `ReleasedOnDisk`, `NoGenerationReuse`, `StatesStayHome`, `NoLostUpdate`, `WorkSettles`; `LinkSound`; `PresenceHeals`; `MonitorFollows` |
| `voice` | rooms: three sessions of two users and a kick; shares: a reconnect, two viewers that fall behind; speech: two commanders in a room and the one above; audio: eviction at caps of one, rekey, clock set back; chat: two devices, a lost stream, send or answer, a restart; billing: two checkouts; an operation launched twice; sign-ups under a planner's save | types; `LiveInRoom`, `OnePerKey`; `ShareKept`, `NoGaps`; `FirstPastThePost`; `NoReplay`, `NewFramesPlay`; `ReadableIsFinal`, `NoForeignText`; `CreditedOnce`, `UsageKept`; `RunningKeepsChannels`; `SignUpsSurvive` |
| `store_tmp` | is what a load returned safe? (finding) | `ReliedSurvives` is violated |
| `store_legacy` | may the migration be skipped? (finding) | `AckedSurvives` is violated |
| `store_pending` | may a flush fail? (finding) | `AcceptedKept` is violated |

The type invariants of `MlsGroup`, `MlsStore` and of the components of `client` are no
properties of a run any more: they are proved (section 5). `AllTypeOK` of `voice`, proved
component by component too, stays for the caps of the receiver's tables it contains. What could go wrong behind the runs, at which line, is in `PROJECT.json` under
"hazards".

*Bounds.* `MaxEpoch` ends the history: 3 epochs are a genesis, a commit that makes
every copy and GroupInfo stale, and one built on top; races need two commits for one
epoch. `MaxBuilds` bounds own commits per device; in the liveness runs it is larger
than epochs and faults together allow, so that it never stops a flow (a smaller value
makes the liveness property fail by the bound alone). `Faults` names which faults
occur on which device and `MaxFaults` how many: one or two, because each scenario in
the hazard list needs at most two, and every scheduling remains free. `Goals` names
the flows that start.
`CHECK_DEADLOCK FALSE`: at the epoch bound a device has nothing left to build.

In `MlsStore`, `MaxUpdates` bounds the changes made (two make a confirmed state and
its successor; three, one more after a recovery; the legacy state starts with two),
`Faults` names the kinds and `MaxFaults` how many happen: two, because a state is lost
only by a fault during the recovery from another. With more than one crash, `accepted`
restarts from what was confirmed. The store always has a next step.

In `client`: five tokens are two logins and three rotations, enough for a token to be
rotated, replayed, logged out and lapse (`Room` leaves every live token a rotation, so
that no run stops at the bound); three commands are a login, a logout and a login across
one refresh; two ticks pass the access token's life twice. Two pieces of lock work, two accounts
(one of which already has a state on disk) and one fault reach every pair of a wait and what may happen during it. Two channels and
two automatic reconnects (eight in the code) give a Move there and back and a link that
gives up; one monitor with a channel's and an event's group, two rekeys and one
unprompted retry (three) a change at every await of a derivation and after the last retry.
In `voice`: two devices of two accounts, two messages and two epochs give an echo, a
foreign message, a message ahead of its reader and one too old to read (`MaxPast` is 1);
one sharer with two sessions a reconnect at every point of a cleanup; two viewers, three
frames and a channel of two (512) one viewer behind and one not; three users, two of them
commanders, in two rooms one below the other every meeting of two speakers;
three sessions on one key, because `OnePerKey` breaks only when a third connects after
the cleanup of the first; all caps of the receiver are one, so that any two sessions
crowd each other out; `ReplayWindow` is 2 with three frames, so that a frame can fall
out of it; one fault or loss each. A device has at most two decrypts queued and one catch-up request
is open; five channels are made; one pilot claims a hull and brings the locked seat, since
the pilots are alike. `PerReceiver = PerSsrc = 1` makes the eviction among
all sessions (`PerReceiver`) happen too, between two senders.

*Fairness.* Flows and lock work run on (JavaScript promises settle; each request has
a timeout, which is a fault action), the server handles requests, and an ensure is
started again and again (each channel open, reconnect and key refresh does):
strong fairness on `StartFlow(d, "ensure")`, weak on the rest. Nothing is assumed of
live events: `LiveCommit` and `LiveWelcome` have no fairness.

In `MlsStore`, the holder of the critical section runs on, an accepted deferred save
goes on to `schedule_flush`, and a thread that waits for the mutex gets it in the end
(strong fairness: `std::sync::Mutex` has no queue, but neither has it a reason to pass
the same thread over for ever). Nothing is assumed of users, sign-ins or exits.

In `client`, weak fairness of single tasks: the server answers or the request
fails, Rust answers, a settled promise goes on, a window with a stale token asks for
one (every API call does), the heartbeat timer of a connected client fires, a call that
arrived is served (`AuthFair`, `PersistFair`, `PresenceFair`). Nobody has to log in
or connect, and nothing makes a lost message come back. `voice` checks no liveness and
assumes no fairness.

*What orders a load after a save.* Nothing in the code does: each is a task of a thread
pool that takes the mutex. `MlsStore` serves saves sent before a load first; the fault
`"late"` is a load that overtakes one. `DirHoldsOwn` is checked with it; the
confirmed state of one account can be rolled back by it (an old page's save, accepted
after the new page's load, because only the account is compared).

*A limit of the liveness property.* Because a catch-up reads the log and the row in
two queries, a commit accepted between them makes a current copy look diverged and
costs a needless re-join, which is itself a commit. Devices may do that to one another
for as long as the schedule is unlucky; the property therefore ends at `MaxEpoch`.

*Finding (`heal_gap`).* A device re-joins, its commit is accepted, it crashes before
adopting the result, restarts and catches up. Unlike a member commit, its own
*external* commit does apply to its old copy - it removes the old leaf. The device is
now at the server's epoch with an inactive copy; decrypts fail, a heal is scheduled,
and `healGroup` ends with "none" because the epochs agree and only a user-forced heal
passes that test. The header of `mlsSession.js` says such a device re-joins.

*Finding (`store_tmp`).* A crash between the `fsync` of the tmp file and the rename
leaves the newest state in the tmp file only. `load_state` prefers it, and
`mlsSession.js` sets `durableVersion` ("it came from disk") so that the next own commit
is submitted without another write. The next `write_atomic` starts by truncating that
tmp file; a crash then leaves the main file, which is older than a commit the server
has: the situation the header of `mls_store.rs` calls unrecoverable.

*Finding (`store_legacy`).* When the keyring is locked at the first launch after the
upgrade, the migration is skipped, and skipping blocks nothing. The account's own
directory is empty, which `load_state` reports as fresh without asking for a key; a new
identity is saved there once the keyring opens. From then on the legacy state is either
stranded or, if the new identity's first write was interrupted, moved beside a tmp file
that hides it. The doc of `MIGRATION_ATTEMPTED` promises "another chance next launch".
The same happens when the owner marker cannot be written (the fault `"marker"`): that
return is `Migration::Skipped` too, `mls_store.rs` 478-480.

*Finding (`store_pending`).* A deferred state whose flush failed stays in `PENDING`,
but `load_locked` goes on and returns the older state from disk; the next save, or
another account's durable save, replaces `PENDING`. The header limits such losses to
a hard crash.

*Where the code falls short of its comments.* Beside the findings, these were met while
modelling. The first seven have a property and a `.cfg` of their own, from which TLC gives
the counterexample; the others are narrow enough to read off the code.

* `tlc -config BillingPaid.cfg Billing`, `PaidIsCredited`: `billingController.ts` 483-488
  calls a stale checkout session left in the row harmless. Two tabs open two sessions for
  one invoice; one expires, its webhook cancels the row, and the payment made in the other
  finds nothing pending to credit.
* `tlc -config VoiceKicked.cfg VoiceRooms`, `MembersAreLive`: `main.rs` 1568-1570 skips
  the cleanup of a killed session because its successor owns the room. A kick kills too,
  without a successor: the user stays a member until somebody else's cleanup ends the room.
* `tlc -config PresenceGhost.cfg Presence`, `ShownWhereSubscribed`: a leave that overtakes
  the join it follows leaves the user in the in-memory map, which nothing sweeps (the
  sweeper goes by the table, `channelController.ts` 11-37).
* `tlc -config ShareWiped.cfg VideoShare`, `NewestIsListed`: `main.rs` 2459-2471 says the
  nonce check keeps a cleanup from wiping a reconnect's entries. It keeps out a cleanup
  that has not begun: one that passed the check takes the maps one by one, and a session
  that claims in between loses what it sets, as it does to an older session still setting
  up. `LiveIsListed` excepts such claims.
* `tlc -config SpeechDucked.cfg MCVoice`, `DuckEnds`: a speaker who leaves while holding the
  room clears its timer (1617-1620) and sends no `DuckRelease`, so that the listeners stay
  ducked until the next speaker's release; neither a reconnect nor a Move resets
  `duckStateRef`.
* `tlc -config LinkOrphan.cfg VoiceLink`, `NoOrphan`: `CommLink.jsx` 4261-4264 marks a
  teardown deliberate so that nothing reconnects for a component that is gone; a `connect`
  that awaits, or the 600 ms timer of a Move, goes on and leaves an open transport.
* `tlc -config PersistFresh.cfg MlsPersist`, `ReleasedOnDisk`: `mlsSession.js` 451-454 says
  that no new identity is made where a state exists on disk. Rust answers a load of account
  A with "fresh" while it is signed in to B (`mls_store.rs` 757-776); an earlier load of A
  that is answered after the window is back at A makes it the owner again, the "fresh" one
  passes for A's, and the new identity overwrites A's state. Four sign-ins; `client` has
  fewer.
* A publish session that ends without a header, after an older one of the user was
  superseded, removes the activation channel only; the entries the older session skipped
  in its favour stay (`main.rs` 2245-2270). A viewer who leaves a share after its sharer
  reconnected takes a viewer from the new session's activation (2758-2761).
* A subscriber gets the cached keyframe and then the frames from where it subscribed: with
  another viewer already watching, the first delta need not follow that keyframe
  (2663-2734). `NoGaps` excepts the first frame.
* The overlay task removes its user's entries without a nonce check (2385-2387), and the
  cleanup leaves the overlay's stream entry of an aborted task.
* A frame is sealed for its channel before `await signBytes` and may be written after a
  Move; a Move keeps the old `event_id` (`CommLink.jsx` 1241); a monitor whose transport is
  lost does not reconnect (`useMonitorChannel.js` 662-664).
* `session.rs` 246-251 writes the file after releasing the lock, so a logout in between
  is undone on disk; its header (23-24) says a refresh never resurrects a session.
* An echo that arrives before its send is answered finds an empty recall queue; its text
  is then recalled for the next echo (`useChannelChat.js` 687-690 against
  `mlsSession.js` 1397-1404).
* `computeSyncSince` asks from the newest row on when every row is readable, so a gap
  before it is not asked for (`useChannelChat.js` 18-20 says a catch-up covers it).
* A registration queued for one account and rejected after a switch away and back forgets
  the state of the account signed in again (`mlsSession.js` 561-566 against 467-470);
  the next `ensureIdentity` loads it again.
* A planner's save between an end and its flag makes a frequency whose channel the
  operation then no longer has, or no channel at all (`eventsController.ts` 866).

## 5. What is proved

For any set of devices, any legacy subset, any goals, faults and bounds, under the
named assumptions (`LegacyAssumption`, `NoCommitAssumption`, `NotHeldAssumption`,
`GoalsAssumption`, `FaultsAssumption`; only the first and the last two say anything of
the system, the others keep model values apart):

* `TypeCorrect`: `Spec => []TypeOK`.
* `Invariance`: `Spec => []IndInv`, and from it `OneChain`, `NoForkEver`,
  `InfoNeverStaleUnnoticed`, `CommittersCanRestart`.
* `Refinement`: `Spec => ImplementsHistory`.

*The argument.* `NoFork` is not inductive: an own commit adopted because the server
accepted it must be exactly what the log holds, so the request in flight, the answer
received and the commit in the lock must all fit the log (`RequestsFit`,
`AnswersTrue`, `OwnCommitsFit`); the commit must be *numbered* so that a log entry
equal to it is it (`LogNumbered`); an external commit fits because the GroupInfo
carried from its fetch is a logged commit's (`InfoCarried`, from `InfoFitsItsEpoch`); a
member commit fits because the lock keeps the copy where the build found it; a
catch-up reads only what is logged (`SnapshotsLogged`). `BaseSurvivesCrash` needs
`BaseOnDisk` of every request in flight and `DiskBehindCache`. The log changes in one step
only (`AppendStep`); every other step is a `QuietStep`, described by what it may do to
the devices, the flows, the locks and the network (`DeviceMoves`, `FlowMoves`,
`LockMoves`, `NetMoves`). `StepOutcome` says every action is one or the other, and
both the invariant and the refinement follow from it.

For any set of accounts, any bounds and any faults, under the named assumptions of
`MlsStore` (of which only `BoundAssumption` and the placing of `LegacyOwner` say more
than that model values differ):

* `StoreTypeCorrect`: `Spec => []TypeOK`.
* `DirHoldsOwnAlways` and `OneKeyAlways`: `Spec => []DirHoldsOwn` and
  `Spec => []OneKey`, with every fault and every legacy state.
* `StoreInvAlways`, `AckedSurvivesAlways`, `NeverFreshOverAlways`: `Spec => []StoreInv`,
  `Spec => []AckedSurvives` and `Spec => NeverFreshOver`, for every legacy state and every
  point at which its migration may be cut short, under two assumptions more.
  `"late" \notin Faults`: no load overtakes a save that a page sent earlier
  (section 4: nothing in the code orders the two, and it matters only when a page is
  reloaded or the account changes while a save waits for the mutex). `MigrationFinds`: if
  there is a legacy state, neither `"keyring"` nor `"marker"` is in `Faults`; with either
  the migration is skipped and `AckedSurvives` is false, as `store_legacy` shows. The first
  and the last theorem also ask that a legacy state does not lose its key (`"forget"`):
  without it the migration finds nothing and its owner is told "fresh". Nothing is lost by
  that which was not lost already, so `AckedSurvives` does not ask it.
* `NothingKeptIsLostAlways`: `Spec => []NothingKeptIsLost`, that is `AcceptedKept` too,
  under one assumption more: neither `"write"` nor `"keyring"` is in `Faults`. With either
  a flush may fail and `AcceptedKept` is false: the finding of `store_pending`. Crashes,
  reloads, sign-ins, hand-offs, failed moves and a keyring that loses its key are allowed.
* `StoreImplementsCells`: `Spec => ImplementsCells`, the refinement, under the assumptions
  of `AckedSurvivesAlways`: every initial state is one of each account's cell, and every
  step is, for each account, one of the cell's or none.

*The argument.* Types are inductive together with `Shape` (a write has a state and an
account, a load its directory, a save its caller). `DirHoldsOwn` needs that the root
directory holds the state of one owner, to whom alone it moves, and that what is being
written is its account's (`OwnInv`); `OneKey` needs that a key in use is the keyring's
unless that one was taken away, and that a synced tmp file has the key in use
(`KeyInv`). `AckedSurvives` needs `StoreInv`: the main file of an account - in the root
directory as long as it waits there, `MainOf` - opens and holds what was confirmed, a tmp file that would be preferred to it holds as much
(`FilesHoldAcked`), whatever is going to be written includes it (`WritesFit`); for the
last, that the page's state does (`PageFits`), that a call is from that state or dead
before the page goes on (`CallsInOrder`), and that a save writes what its caller sent
while a load has no call to race with (`JobsInOrder`). While a legacy state waits, neither
the page, PENDING nor a write is its owner's (`LegacyApart`): the migration runs before
whatever could bring the account to the page, one that failed blocks that account until
the next launch, and the marker, written before the first file moves, tells the next
launch to go on although the owner's directory is no longer empty. The main file moves
last, so that each move leaves `MainOf` what it was; that order is the step the proof turns
on (`MoveKeepsMain`). Once the key is gone nothing opens any more, and `LostStays` is the
other half of `AckedSurvives` (`SafeOrLost`). `AcceptedKept` needs `KeptInv`:
unless the key is gone (`Lost`), the state in PENDING, the one being written, the one in a
save on its way and the page's own are the loaded account's and include what was accepted;
PENDING is empty once a job has flushed (`Flushed`), which is where a failed flush would
break it; and what was accepted for any other account is on its disk (`FilesKept`), so
that an account is left only with nothing of it in memory alone. Every step is of one of a few
kinds by what it does to the files, the keys, PENDING and the job (`StepKinds`): most
files-related conjuncts are proved once per kind, the page's once per action. The
refinement turns on `Latest`: while the key is there, a launch finds the tmp file if that
opens and the main file otherwise, never the backup and never a file of another account,
whether it migrates first or not. That needs two invariants more: a backup is made of a
main file that stays (`BakInv`), and every key in a file was generated, none being left
from before the first (`KeysKnown`), so that a new key opens nothing that is old. With it a
step is told by what it does to two files: `KeyedCellStep` has one case per kind of step.

For any number of users, channels, sessions, tokens, requests, contributions and faults,
under the named bounds (`...Bounds`: naturals and finite sets) and `AuthNoSession`,
`VoiceNobody`, `SignUpRoles`:

* `AuthInvariance`, `OneLivePerLoginAlways`: `AuthSpec => []OneLivePerLogin`. It is
  inductive once rows are known to be issued in order, each of a login that was issued
  (`IssuedInOrder`), so that a successor is a row nobody has, and the refresh under way to
  hold an issued token (`FlightHasToken`).
* `TheftInvariance`, `NoFalseTheftAlways`: what is presented, or could be, must be nobody's
  successor (`Unused`), so that serving it revokes nothing; that needs an answer to carry a
  successor that nobody has presented yet (`Answers`), and every token anybody knows to
  have been issued (`Known`). `InWindow` is the property seen from before the request.
* `CleanInvariance`, `NothingLeftBehindAlways`: while nothing failed and no file write was
  overtaken, each of the points between two of the app's locks accounts for the usable
  tokens: before it is restored (`Asleep`), in memory, in the refresh or in a revoke under
  way (`Awake`), and in the file (`Written`). `Epochs` says when a refresh is still of the
  session it was started for.
* `VoiceInvariance`, `LiveInRoomAlways`, `OnePerKeyAlways`: `OnePerKey` follows from
  `Registered` (a session in its loop, or on its way, is the registry's or its `kill_rx`
  is ready), which is preserved because whoever overwrites or clears an entry readies the
  `kill_rx` of the session in it; `LiveInRoom` needs that no nonce is used twice.
* `SpeechTypeCorrect`, `FirstPastThePostAlways`: an action property that follows action by
  action; the cascade of a command is the case with content (`RoomsPassByCommand`: a room
  passes only to one who is in a room above).
* `RelayInvariance`, `RelayTypeCorrect`, `NoReplayAlways`, `NewFramesPlayAlways`, for every
  cap, window and number of sessions. A receiver is `Sound`: it knows sessions of its own
  secret, each once, in one of its two tables; it covers every frame of its secret that
  played, by the window of the session or by the mark its eviction left; and the highest
  sequence of a session it knows is that of a frame that played. The first half gives
  `NoReplay`, the second `NewFramesPlay`. A frame moves a session to the end of its table,
  may evict two others and may push out a mark (`OpenedDoes`, `SoundOpened`); that a mark
  covers at least what the window did is why `ReplayWindow::resumed` counts everything
  below as seen. The two receivers do not disturb each other because the previous one is of
  an older secret (`Eras`, `AcceptedBy`).
* `BillingInvariance`, `CreditedOnceAlways`, `UsageKeptAlways`: the status is the guard of
  the credit, and an event is about a session that was opened.
* `OpInvariance`, `RunningKeepsChannelsAlways`: no timer lists a channel of the running
  operation (`NotDoomed`), because what a timer lists was made before the launch.
* `PresenceTypeCorrect`: a call under way is one that a client, the relay, the sweeper or an
  operation's end makes. `PresenceHeals` is liveness and stays with TLC.
* `SignUpInvariance`, `SignUpsSurviveAlways`: with types alone, one lemma per kind of
  request; a save is the hard one, role by role (`PassKeeps`, `SaveKeeps`).

* `LinkInvariance`, `LinkSoundAlways`: the dial, the line, the two timers and the key
  fetches fit each other. `MonitorTypeCorrect`, `MonitorInvariance`,
  `MonitorFollowsAlways`: keys, derivations and retries under way are for a group the
  monitor still follows.

For any accounts, pieces of lock work, sign-ins and faults, under `PersistBounds` and the
assumptions that keep its model values apart:

* `PersistTypeCorrect`, `ClaimInvariance`, `StatesStayHomeAlways`, `NoLostUpdateAlways`:
  `PersistSpec => [](PersistTypeOK /\ PersistShape)`, `PersistSpec => []StatesStayHome`
  and `PersistSpec => NoLostUpdate`.
* `WindowInvariance`, `ReleasedOnDiskAlways`, `DisksAreCellsAlways`,
  `NoGenerationReuseAlways` under two assumptions more: `"late" \notin PersistFaultKinds` (no load overtakes a save, as for
  `AckedSurvives`), and `InOrder` (no load whose session has ended changes the window's
  account when it is answered). Without the second `ReleasedOnDisk` is false:
  `PersistFresh.cfg` above.

*The argument.* Three invariants, each on top of the one before. `ClaimInv`: the holder of
the lock, the loads and the writes of the *present* session are of its account, and the
holder's base is still what the window has. `DurableInv`: a version the writer counts as
durable is in what Rust has on disk, a write under way carries on from it, and so does
everything in memory; this is where a stale "fresh" would break the chain. `GenInv`: lock
work is numbered in the order it is done, and a ciphertext's generation is the number of
ciphertexts its state had before, so that two of one generation would need two states of
which neither includes the other; `DurableInv` has none such.

For any devices, messages, viewers, frames, sessions and backlogs, under `ChatBounds` and
the bounds of `VideoShare`:

* `ChatInvariance`, `ChatTypeCorrect`, `ReadableIsFinalAlways`, `NoForeignTextAlways`. No row
  shows a foreign text because nothing that could reach a row carries one: whatever waits
  in the decrypt chain, in the recall queue or in a kept bundle fits the message it is for.
  A row that can be read stays because every step that writes rows is a merge or follows a
  test of the row it writes.
* `ShareInvariance`, `VideoTypeCorrect`, `ShareKeptAlways`, `NoGapsAlways`. An entry of the nonce map is that of
  the newest session that claimed; each session before it leaves the maps alone, having
  passed its test before the claim or failing it after; and the viewer counts are the
  numbers of viewers there are. `ShareKept` needs the maps of a share in its loop to be its
  own. A viewer's frame is in the channel or its next read says it lagged (`NoGaps`). The types
need that only a session past its activation channel has sent the sentinel
(`FramesBounded`), and that each viewer is counted at most once (`WatchersBounded`).

Only model-checked: liveness (`EventuallyAtServerEpoch`, `DeferredIsFlushed`,
`RefreshSettles`, `WorkSettles`, `PresenceHeals`) and `HealLeavesUsableCopy`: fairness and
`ENABLED` are beyond the prover;
`ReliedSurvives`, which the code does not keep. `AllTypeOK` of `voice` is the conjunction
of the components' type invariants, each of which is proved for its own component. The
other way round, `DisksAreCells` is proved and in no run: it holds on the instance of `client`, but says
there little more than `ReleasedOnDisk`.

## 6. What is not modelled

* One device per account, and no loss of the device state as a whole (hence no
  `removeOwnStaleLeaves`). DM groups differ in how their id is allocated and are
  covered through the same gate only.
* OpenMLS is external: applying a commit that removes oneself yields an inactive copy
  at the new epoch, from which an export or a build throws.
* A GroupInfo upload takes effect at once; a delayed one is the same upload by a flow
  that paused, because its guard is evaluated by the server.
* `AuthSession` has one user on one device; a browser's cookie session, registration,
  password changes and rate limits are left out. `NothingLeftBehind` excepts lost revokes
  and the overtaken file writes listed in section 4.
* `RelayAudio` has the counter's end at `LastSeq` but not its width of 64 bits; codec,
  jitter buffer and mixing are signal processing.
* `ChatSync` has one channel; direct messages run the same engine with another key. The
  throttles (ten seconds for an answer, thirty for a follow-up) are choices.
* `VoiceRooms` leaves out the leader's second subscription and move messages; `Presence`
  the callsigns shown beside a user. `VideoShare` has one room that is there throughout,
  and the overlay's subscribers only as those of the main stream. `PrioritySpeech` takes a
  frame's reads and writes as one step; the server-mixed rooms are unreachable
  (`main.rs` 1357-1361).
* `VoiceLink` leaves out capture, decoding and the client's side of a share (the capture
  thread, its stop guard and the flow in `CommLink.jsx`); the wait for
  wasm and a device without it; `MonitorKeys` the roster, playback and the org-wide heal.
* The once-a-minute limit on scheduled heals: a heal it drops is an ensure that did not run.
* `OpLaunch` and `SignUps` leave out titles, briefings, assets, templates, reminders and
  permissions; a role has one slot and a group two roles, of which one can be reserved.
* `Billing` counts how often an amount is credited, not the amount; prices, plan limits
  and exports are arithmetic and queries.
* In `MlsStore`: the background decrypt loop (no code starts it: the window closes to
  `tray_light` only when signed out, and `ensure_started` has no caller); power loss
  that reorders writes a sync did not order; the message cache that a migration
  moves as a best effort; errors of `exists` and `read_dir`, which stop a call before
  it does anything; states of an unreadable owner.
* The controllers that are single statements behind a permission check (organisations,
  roles, friends, direct messages, moderation, devices), protobuf code, the user interface
  (the rest of `CommLink.jsx`, `WarRoom.jsx`, `OperationPlanner.jsx`, most of the repository by size),
  the website and the portal: rendering and forms, without state of their own that outlives
  a request or a page and that another actor could disturb.
* Components marked `not_modelled` in `PROJECT.json`, with the reason there.
