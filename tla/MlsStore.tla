------------------------------ MODULE MlsStore ------------------------------
(***************************************************************************)
(* mls_store.rs: where a desktop client keeps its MLS device states, one    *)
(* per account, in files that a crash may interrupt at any step.            *)
(*                                                                         *)
(* A device state is the account it belongs to and the set of updates it    *)
(* has absorbed: a save that drops an update loses keys. The process runs   *)
(* one piece of work at a time under MLS_STATE_CRITICAL_SECTION (job); the  *)
(* webview (js) sends it one save at a time and loads; a webview that was   *)
(* reloaded or destroyed may leave a save behind (the "gone" request).      *)
(***************************************************************************)
EXTENDS Naturals, FiniteSets

CONSTANTS
    Account,     \* the accounts used on this PC
    Nobody,      \* no account
    Root,        \* the directory that held the one state before accounts had theirs
    Nothing,     \* an absent file, state or buffer
    Unreadable,  \* a half-written file; a load that failed
    LegacyOwner, \* whose state the root directory holds at first, or Nobody
    MaxUpdates,  \* bound on the updates made
    Faults,      \* the faults that occur, a subset of FaultKind
    MaxFaults    \* bound on how many of them occur

FaultKind == {"crash", "write", "marker", "move", "keyring", "forget", "reload", "late"}

ASSUME AccountAssumption ==
    /\ Nobody \notin Account /\ Root \notin Account
    /\ LegacyOwner \in Account \cup {Nobody}
ASSUME StoreFaultsAssumption == Faults \subseteq FaultKind
ASSUME BoundAssumption == MaxUpdates \in Nat /\ (LegacyOwner # Nobody => MaxUpdates >= 2)

VARIABLES
    files,      \* the three files of every directory
    entry,      \* the keyring entry (0: none)
    keys,       \* keys generated so far
    marker,     \* the legacy_owner file
    session,    \* the signed-in account (session.rs)
    cached,     \* KEY_CACHE (0: none)
    pending,    \* PENDING: a state accepted but not written yet, and where to
    flushDue,   \* FLUSH_SCHEDULED
    timer,      \* whether the task that flag announces is still to run
    jsOwner,    \* JS_OWNER: the account whose state the webview loaded
    migrated,   \* MIGRATION_ATTEMPTED
    blocked,    \* MIGRATION_BLOCKED
    job,        \* the holder of the critical section
    js,         \* mlsSession.js: bound account and device state
    req,        \* the mls_save_state calls not answered yet
    made,       \* updates made so far
    acked,      \* per account, updates whose durable save was confirmed
    relied,     \* those, and the updates in states a load has returned
    accepted,   \* those Rust accepted, unless a crash (or a failed write at exit)
                \* may have taken them
    faults

diskVars == <<files, entry, keys, marker>>
procVars == <<cached, pending, flushDue, timer, jsOwner, migrated, blocked>>
pageVars == <<js, req, made>>
ghostVars == <<acked, relied, accepted>>
vars == <<files, entry, keys, marker, session, cached, pending, flushDue, timer, jsOwner,
          migrated, blocked, job, js, req, made, acked, relied, accepted, faults>>

Update == 1..MaxUpdates
State == [of: Account, has: SUBSET Update]
Blob == [key: Nat, of: Account, has: SUBSET Update]
File == Blob \cup {Nothing, Unreadable}
FileName == {"tmp", "bak", "main"}
Dir == Account \cup {Root}
Sender == {"page", "gone"}

Deferred == [dir: Account, st: State]
JobOp == {"none", "save", "load", "owner", "flush", "handoff", "exit"}
WriteStage == {"key", "create", "sync", "copy", "copied", "rename"}
JobStage == WriteStage \cup {"idle", "done", "migrate", "marker", "move", "account", "read"}
Job == [op: JobOp, at: JobStage, dir: Dir, to: Dir, st: State \cup {Nothing}, from: Sender]
PageStage == {"out", "loading", "fresh", "creating", "ready"}
Page == [at: PageStage, acct: Account \cup {Nobody}, mem: State \cup {Nothing}]
CallStage == {"none", "sent", "deferred"}
Call == [at: CallStage, st: State \cup {Nothing}, durable: BOOLEAN, live: BOOLEAN]

ASSUME NothingAssumption ==
    /\ Nothing # Unreadable
    /\ Nothing \notin Blob \cup State /\ Unreadable \notin Blob \cup State
    /\ Nothing \notin Deferred

NoJob == [op |-> "none", at |-> "idle", dir |-> Root, to |-> Root,
          st |-> Nothing, from |-> "page"]
NoReq == [at |-> "none", st |-> Nothing, durable |-> FALSE, live |-> FALSE]
NoPage == [at |-> "out", acct |-> Nobody, mem |-> Nothing]

Fault(kind) == kind \in Faults /\ faults < MaxFaults /\ faults' = faults + 1
NoFault == faults' = faults

-----------------------------------------------------------------------------
(* Files.                                                                  *)

NoFiles == [n \in FileName |-> Nothing]
CommittedIn(fs) == fs["main"] # Nothing \/ fs["bak"] # Nothing
PresentIn(fs) == CommittedIn(fs) \/ fs["tmp"] # Nothing
AnyCommitted == \E d \in Dir : CommittedIn(files[d])

Opens(k, f) == f \notin {Nothing, Unreadable} /\ f.key = k
StateIn(f) == [of |-> f.of, has |-> f.has]

\* Mutated form: the backup is preferred to the main file.
BestFileBakFirst(fs, k) ==
    CASE Opens(k, fs["tmp"]) -> "tmp"
      [] ~Opens(k, fs["tmp"]) /\ Opens(k, fs["bak"]) -> "bak"
      [] OTHER -> "main"

\* The first of tmp, main, bak that authenticates (main if none does).
BestFile(fs, k) ==
    CASE Opens(k, fs["tmp"]) -> "tmp"
      [] ~Opens(k, fs["tmp"]) /\ ~Opens(k, fs["main"]) /\ Opens(k, fs["bak"]) -> "bak"
      [] OTHER -> "main"

\* Mutated form: a key that is gone looks like a device that was never used.
LoadStateForgiving(fs, k) ==
    LET f == fs[BestFile(fs, k)]
    IN  IF k # 0 /\ Opens(k, f) THEN StateIn(f)
        ELSE IF k # 0 /\ CommittedIn(fs) THEN Unreadable ELSE Nothing

\* load_state, with key k (0 when there is none): a state, Nothing for a fresh
\* device, or Unreadable for every error.
LoadState(fs, k) ==
    LET f == fs[BestFile(fs, k)]
    IN  IF k # 0 /\ Opens(k, f) THEN StateIn(f)
        ELSE IF CommittedIn(fs) THEN Unreadable ELSE Nothing

\* The key a load or a migration gets; it never creates one.
KeyAtHand == IF cached # 0 THEN cached ELSE entry

LegacyFiles ==
    {[main |-> [key |-> 1, of |-> LegacyOwner, has |-> {1, 2}], bak |-> b, tmp |-> t] :
        b \in {Nothing, Unreadable, [key |-> 1, of |-> LegacyOwner, has |-> {1}]},
        t \in {Nothing, Unreadable}}

\* A PC without any state, or one with a state from before accounts had theirs.
Init ==
    /\ IF LegacyOwner = Nobody
         THEN /\ files = [d \in Dir |-> NoFiles]
              /\ entry = 0 /\ keys = 0 /\ made = 0
              /\ acked = [a \in Account |-> {}]
         ELSE /\ \E fs \in LegacyFiles : files = [d \in Dir |-> IF d = Root THEN fs ELSE NoFiles]
              /\ entry = 1 /\ keys = 1 /\ made = 2
              /\ acked = [a \in Account |-> IF a = LegacyOwner THEN {1, 2} ELSE {}]
    /\ relied = acked /\ accepted = acked
    /\ marker = Nobody /\ session = Nobody
    /\ cached = 0 /\ pending = Nothing /\ flushDue = FALSE /\ timer = FALSE
    /\ jsOwner = Nobody /\ migrated = FALSE /\ blocked = Nobody
    /\ job = NoJob
    /\ js = NoPage /\ req = [s \in Sender |-> NoReq]
    /\ faults = 0

-----------------------------------------------------------------------------
(* mlsSession.js, as far as the store sees it.                              *)

\* The session changes in Rust first ...
SignIn(a) ==
    /\ session # a /\ session' = a
    /\ UNCHANGED <<job, faults, diskVars, procVars, pageVars, ghostVars>>

\* ... and the next MLS call of the new account resets mlsSession.js; nobody
\* waits any more for a save that is still out.
BindAccount ==
    /\ session \notin {Nobody, js.acct}
    /\ js' = [NoPage EXCEPT !.acct = session]
    /\ req' = [req EXCEPT !["page"].live = FALSE]
    /\ UNCHANGED <<session, job, made, faults, diskVars, procVars, ghostVars>>

Send(st, durable) ==
    /\ req["page"].at = "none"
    /\ req' = [req EXCEPT !["page"] =
                [at |-> "sent", st |-> st, durable |-> durable, live |-> TRUE]]

\* A load found nothing: a new identity, used only once it is on disk.
CreateIdentity ==
    /\ js.at = "fresh" /\ made < MaxUpdates
    /\ LET st == [of |-> js.acct, has |-> {made + 1}]
       IN  js' = [js EXCEPT !.at = "creating", !.mem = st] /\ Send(st, TRUE)
    /\ made' = made + 1
    /\ UNCHANGED <<session, job, faults, diskVars, procVars, ghostVars>>

\* A group operation (durable) or a decrypt (deferred).
ChangeState(durable) ==
    /\ js.at = "ready" /\ made < MaxUpdates
    /\ LET st == [of |-> js.mem.of, has |-> js.mem.has \cup {made + 1}]
       IN  js' = [js EXCEPT !.mem = st] /\ Send(st, durable)
    /\ made' = made + 1
    /\ UNCHANGED <<session, job, faults, diskVars, procVars, ghostVars>>

\* A later operation waits for what an earlier save did not make durable.
SaveAgain ==
    /\ js.at = "ready" /\ ~(js.mem.has \subseteq relied[js.mem.of])
    /\ Send(js.mem, TRUE)
    /\ UNCHANGED <<session, job, js, made, faults, diskVars, procVars, ghostVars>>

\* The page is reloaded or its window destroyed; its call, if any, is not recalled.
PageLeaves ==
    /\ js' = NoPage
    /\ req' = IF req["page"].at = "none" THEN req
              ELSE [page |-> NoReq, gone |-> [req["page"] EXCEPT !.live = FALSE]]

Reload ==
    /\ job = NoJob /\ req["gone"].at = "none"
    /\ Fault("reload") /\ PageLeaves
    /\ UNCHANGED <<session, job, made, diskVars, procVars, ghostVars>>

-----------------------------------------------------------------------------
(* mls_save_state.                                                         *)

Accept(s) ==
    accepted' = IF req[s].live
                  THEN [accepted EXCEPT ![req[s].st.of] = @ \cup req[s].st.has] ELSE accepted
Answered(s) == [req EXCEPT ![s] = NoReq]

\* A refusal for the wrong account makes runWriter reset the session, whatever
\* account that is by now bound to; any other error undoes a new identity only.
Refused(s, error) ==
    /\ req' = Answered(s)
    /\ js' = IF s = "page" /\ error = "mismatch" THEN NoPage
             ELSE IF s = "page" /\ req[s].live /\ js.at = "creating"
               THEN [js EXCEPT !.at = "out", !.mem = Nothing]
             ELSE js

\* Mutated form: only whether some webview loaded a state is checked.
MayWriteAnyAccount(st) == jsOwner # Nobody

MayWrite(st) == jsOwner # Nobody /\ st.of = jsOwner

RefuseSave(s) ==
    /\ job = NoJob /\ req[s].at = "sent" /\ ~MayWrite(req[s].st)
    /\ Refused(s, IF jsOwner = Nobody THEN "handed off" ELSE "mismatch")
    /\ UNCHANGED <<session, job, made, faults, diskVars, procVars, ghostVars>>

DeferSave(s) ==
    /\ job = NoJob /\ req[s].at = "sent" /\ MayWrite(req[s].st) /\ ~req[s].durable
    /\ pending' = [dir |-> jsOwner, st |-> req[s].st]
    /\ Accept(s)
    /\ req' = [req EXCEPT ![s].at = "deferred"]
    /\ UNCHANGED <<session, job, js, made, faults, diskVars, acked, relied,
                   cached, flushDue, timer, jsOwner, migrated, blocked>>

\* Mutated form: the flag is tested after it has been set.
ScheduleFlushFlagged(s) ==
    /\ req[s].at = "deferred"
    /\ flushDue' = TRUE /\ timer' = timer
    /\ req' = Answered(s)
    /\ UNCHANGED <<session, job, js, made, faults, diskVars, ghostVars,
                   cached, pending, jsOwner, migrated, blocked>>

\* After the critical section: schedule_flush, then the answer.
ScheduleFlush(s) ==
    /\ req[s].at = "deferred"
    /\ flushDue' = TRUE /\ timer' = (timer \/ ~flushDue)
    /\ req' = Answered(s)
    /\ UNCHANGED <<session, job, js, made, faults, diskVars, ghostVars,
                   cached, pending, jsOwner, migrated, blocked>>

StartSave(s) ==
    /\ job = NoJob /\ req[s].at = "sent" /\ MayWrite(req[s].st) /\ req[s].durable
    /\ job' = [NoJob EXCEPT !.op = "save", !.at = "key", !.to = jsOwner,
                            !.st = req[s].st, !.from = s]
    /\ UNCHANGED <<session, faults, diskVars, procVars, pageVars, ghostVars>>

-----------------------------------------------------------------------------
(* Work that begins with flush_pending_locked.                              *)

\* Take PENDING and write it, or go on at once when there is none.
FlushThen(next) ==
    IF pending = Nothing
      THEN job' = next /\ pending' = pending
      ELSE /\ job' = [next EXCEPT !.at = "key", !.to = pending.dir, !.st = pending.st]
           /\ pending' = Nothing

\* The timer of schedule_flush.
TimerFires ==
    /\ job = NoJob /\ timer
    /\ flushDue' = FALSE /\ timer' = FALSE
    /\ FlushThen([NoJob EXCEPT !.op = "flush", !.at = "done"])
    /\ UNCHANGED <<session, faults, diskVars, pageVars, ghostVars,
                   cached, jsOwner, migrated, blocked>>

\* Closing the window while signed out: handoff_to_background.
StartHandOff ==
    /\ job = NoJob /\ session = Nobody /\ jsOwner # Nobody
    /\ req["gone"].at = "none"
    /\ FlushThen([NoJob EXCEPT !.op = "handoff", !.at = "done"])
    /\ UNCHANGED <<session, faults, diskVars, pageVars, ghostVars,
                   cached, flushDue, timer, jsOwner, migrated, blocked>>

\* Mutated form: the process ends without looking at PENDING.
ExitWithoutFlush ==
    /\ job = NoJob
    /\ job' = [NoJob EXCEPT !.op = "exit", !.at = "done"]
    /\ UNCHANGED <<session, faults, diskVars, procVars, pageVars, ghostVars>>

\* RunEvent::Exit.
StartExit ==
    /\ job = NoJob
    /\ FlushThen([NoJob EXCEPT !.op = "exit", !.at = "done"])
    /\ UNCHANGED <<session, faults, diskVars, pageVars, ghostVars,
                   cached, flushDue, timer, jsOwner, migrated, blocked>>

Restarted ==
    /\ cached' = 0 /\ pending' = Nothing /\ flushDue' = FALSE /\ timer' = FALSE
    /\ jsOwner' = Nobody /\ migrated' = FALSE /\ blocked' = Nobody
    /\ job' = NoJob
    /\ js' = NoPage /\ req' = [s \in Sender |-> NoReq]
    /\ UNCHANGED <<session, made, diskVars>>

\* The critical section is left.
Finish ==
    /\ job.at = "done"
    /\ CASE job.op = "exit" -> Restarted
         [] job.op = "handoff" ->
              /\ jsOwner' = Nobody /\ job' = NoJob /\ PageLeaves
              /\ UNCHANGED <<session, made, diskVars, cached, pending, flushDue, timer, migrated, blocked>>
         [] OTHER -> job' = NoJob /\ UNCHANGED <<session, diskVars, procVars, pageVars>>
    /\ UNCHANGED <<faults, ghostVars>>

Crash ==
    /\ Fault("crash")
    /\ Restarted
    /\ accepted' = acked
    /\ UNCHANGED <<acked, relied>>

-----------------------------------------------------------------------------
(* save_locked and write_atomic, for a save or a flush.                     *)

\* Mutated form: a failed flush is put back for the account being loaded.
WriteEndsElsewhere(ok) ==
    LET failed == [dir |-> job.dir, st |-> job.st]
    IN  IF job.op = "save"
          THEN /\ job' = NoJob
               /\ pending' = IF ok THEN Nothing ELSE failed
          ELSE /\ job' = [job EXCEPT !.at = IF job.op = "load" THEN "read" ELSE "done"]
               /\ pending' = IF ok THEN pending ELSE failed

\* What follows a write, by what it was for.
WriteEnds(ok) ==
    LET failed == [dir |-> job.to, st |-> job.st]
    IN  IF job.op = "save"
          THEN /\ job' = NoJob
               /\ pending' = IF ok THEN Nothing ELSE failed
          ELSE /\ job' = [job EXCEPT !.at = IF job.op = "load" THEN "read" ELSE "done"]
               /\ pending' = IF ok THEN pending ELSE failed

\* A durable save succeeded; its caller is told if it still waits.
Confirm(s) ==
    /\ req' = Answered(s)
    /\ js' = IF s = "page" /\ req[s].live /\ js.at = "creating"
               THEN [js EXCEPT !.at = "ready"] ELSE js
    /\ Accept(s)
    /\ IF req[s].live
         THEN /\ acked' = [acked EXCEPT ![req[s].st.of] = @ \cup req[s].st.has]
              /\ relied' = [relied EXCEPT ![req[s].st.of] = @ \cup req[s].st.has]
         ELSE UNCHANGED <<acked, relied>>

WriteFailed ==
    /\ WriteEnds(FALSE)
    /\ IF job.op = "save" THEN Refused(job.from, "io") ELSE UNCHANGED <<js, req>>
    /\ accepted' = IF job.op = "exit" THEN acked ELSE accepted
    /\ UNCHANGED <<session, made, acked, relied, flushDue, timer, jsOwner, migrated, blocked>>

\* Mutated form: the files of the other accounts are not looked at.
MayCreateKeyHere == ~CommittedIn(files[job.to])

\* A key is created only when no state has been committed on this PC.
MayCreateKey == ~AnyCommitted

\* resolve_key on the way to a write.
ObtainKey ==
    /\ job.at = "key"
    /\ \/ /\ KeyAtHand # 0
          /\ cached' = KeyAtHand /\ job' = [job EXCEPT !.at = "create"]
          /\ UNCHANGED <<entry, keys, pending, js, req>>
       \/ /\ KeyAtHand = 0 /\ MayCreateKey
          /\ keys' = keys + 1 /\ entry' = keys + 1 /\ cached' = keys + 1
          /\ job' = [job EXCEPT !.at = "create"]
          /\ UNCHANGED <<pending, js, req>>
    /\ NoFault
    /\ UNCHANGED <<session, made, files, marker, ghostVars, flushDue, timer, jsOwner, migrated, blocked>>

\* The keyring is locked, or has lost its entry while states exist.
KeyRefused ==
    /\ job.at = "key"
    /\ \/ cached = 0 /\ Fault("keyring")
       \/ KeyAtHand = 0 /\ ~MayCreateKey /\ NoFault
    /\ WriteFailed
    /\ UNCHANGED <<cached, diskVars>>

SetFile(name, content) == files' = [files EXCEPT ![job.to][name] = content]
WriteStep(from, to) ==
    /\ job.at = from
    /\ job' = [job EXCEPT !.at = to]
    /\ UNCHANGED <<session, faults, entry, keys, marker, procVars, pageVars, ghostVars>>

\* Mutated form: the main file itself is opened for the new state.
CreateMain == WriteStep("create", "sync") /\ SetFile("main", Unreadable)

\* File::create truncates the tmp file ...
CreateTmp == WriteStep("create", "sync") /\ SetFile("tmp", Unreadable)

\* ... and after the fsync it holds the new state.
NewBlob == [key |-> cached, of |-> job.st.of, has |-> job.st.has]
SyncTmp ==
    /\ WriteStep("sync", IF files[job.to]["main"] = Nothing THEN "rename" ELSE "copy")
    /\ SetFile("tmp", NewBlob)

\* fs::copy truncates the backup before it is whole again.
CopyToBak == WriteStep("copy", "copied") /\ SetFile("bak", Unreadable)
SyncBak == WriteStep("copied", "rename") /\ SetFile("bak", files[job.to]["main"])

\* rename tmp -> main, after which the write has succeeded.
RenameTmp ==
    /\ job.at = "rename"
    /\ files' = [files EXCEPT ![job.to] =
                    [@ EXCEPT !["main"] = files[job.to]["tmp"], !["tmp"] = Nothing]]
    /\ WriteEnds(TRUE)
    /\ IF job.op = "save" THEN Confirm(job.from) ELSE UNCHANGED <<js, req, ghostVars>>
    /\ UNCHANGED <<session, made, faults, entry, keys, marker,
                   cached, flushDue, timer, jsOwner, migrated, blocked>>

\* An error at any of these steps: what the files hold stays as it is.
WriteError ==
    /\ job.at \in WriteStage \ {"key"}
    /\ Fault("write")
    /\ WriteFailed
    /\ UNCHANGED <<cached, diskVars>>

-----------------------------------------------------------------------------
(* mls_load_state, and the migration that the first load of a process runs. *)

\* Saves sent earlier, by this page or the one before, are served first, unless
\* the load overtakes them: nothing in the code orders the two.
StartLoad ==
    /\ job = NoJob /\ js.at = "out" /\ js.acct # Nobody
    /\ IF \E s \in Sender : req[s].at # "none" THEN Fault("late") ELSE NoFault
    /\ job' = [NoJob EXCEPT !.op = "load", !.at = IF migrated THEN "account" ELSE "migrate"]
    /\ js' = [js EXCEPT !.at = "loading"]
    /\ UNCHANGED <<session, req, made, diskVars, procVars, ghostVars>>

\* mls_legacy_owner, or msgcache's first look for its directory.
StartMigration ==
    /\ job = NoJob /\ ~migrated
    /\ job' = [NoJob EXCEPT !.op = "owner", !.at = "migrate"]
    /\ UNCHANGED <<session, faults, diskVars, procVars, pageVars, ghostVars>>

AfterMigration == IF job.op = "load" THEN "account" ELSE "done"

\* Mutated form: an interrupted migration is not resumed.
MayMigrateOnce(owner) == marker \in {Nobody, owner} /\ ~CommittedIn(files[owner])

\* The marker names this owner already (a resumed migration), or the owner has
\* no state of its own yet.
MayMigrateTo(owner) ==
    /\ marker \in {Nobody, owner}
    /\ marker = owner \/ ~CommittedIn(files[owner])

\* migrate_legacy up to its decision. Whatever stops it here counts as skipped.
Migrate ==
    /\ job.at = "migrate"
    /\ migrated' = TRUE
    /\ LET legacy == LoadState(files[Root], KeyAtHand)
       IN  \/ /\ cached = 0 /\ PresentIn(files[Root]) /\ Fault("keyring")
              /\ job' = [job EXCEPT !.at = AfterMigration] /\ cached' = cached
           \/ /\ NoFault
              /\ cached' = IF PresentIn(files[Root]) THEN KeyAtHand ELSE cached
              /\ job' = IF legacy \notin {Nothing, Unreadable} /\ MayMigrateTo(legacy.of)
                          THEN [job EXCEPT !.at = "marker", !.dir = legacy.of]
                          ELSE [job EXCEPT !.at = AfterMigration]
    /\ UNCHANGED <<session, diskVars, pageVars, ghostVars, pending, flushDue, timer, jsOwner, blocked>>

WriteMarker ==
    /\ job.at = "marker"
    /\ \/ NoFault /\ marker' = job.dir /\ job' = [job EXCEPT !.at = "move"]
       \/ Fault("marker") /\ marker' = marker /\ job' = [job EXCEPT !.at = AfterMigration]
    /\ UNCHANGED <<session, files, entry, keys, procVars, pageVars, ghostVars>>

\* The next of tmp, bak, main that is still in the root directory.
NextToMove == CHOOSE n \in FileName :
    /\ files[Root][n] # Nothing
    /\ n = "bak" => files[Root]["tmp"] = Nothing
    /\ n = "main" => files[Root]["tmp"] = Nothing /\ files[Root]["bak"] = Nothing

Move ==
    /\ job.at = "move" /\ PresentIn(files[Root])
    /\ files' = [files EXCEPT ![Root][NextToMove] = Nothing,
                              ![job.dir][NextToMove] = files[Root][NextToMove]]
    /\ UNCHANGED <<session, job, faults, entry, keys, marker, procVars, pageVars, ghostVars>>

MoveFails ==
    /\ job.at = "move" /\ PresentIn(files[Root])
    /\ Fault("move")
    /\ blocked' = job.dir /\ job' = [job EXCEPT !.at = AfterMigration]
    /\ UNCHANGED <<session, diskVars, pageVars, ghostVars, cached, pending, flushDue, timer, jsOwner, migrated>>

MovesDone ==
    /\ job.at = "move" /\ ~PresentIn(files[Root])
    /\ job' = [job EXCEPT !.at = AfterMigration]
    /\ UNCHANGED <<session, faults, diskVars, procVars, pageVars, ghostVars>>

LoadAnswered(at, mem) ==
    js' = IF js.at = "loading" THEN [js EXCEPT !.at = at, !.mem = mem] ELSE js

AccountAvailable == session \notin {Nobody, blocked}

\* signed_in_account, then the flush that every load begins with.
FindAccount ==
    /\ job.at = "account" /\ AccountAvailable
    /\ FlushThen([job EXCEPT !.at = "read", !.dir = session])
    /\ UNCHANGED <<session, faults, diskVars, pageVars, ghostVars,
                   cached, flushDue, timer, jsOwner, migrated, blocked>>

NoAccount ==
    /\ job.at = "account" /\ ~AccountAvailable
    /\ job' = NoJob /\ LoadAnswered("out", Nothing)
    /\ UNCHANGED <<session, req, made, faults, diskVars, procVars, ghostVars>>

\* load_state fails; the webview owns nothing new.
LoadFails ==
    /\ job.at = "read"
    /\ \/ NoFault /\ LoadState(files[job.dir], KeyAtHand) = Unreadable
       \/ cached = 0 /\ PresentIn(files[job.dir]) /\ Fault("keyring")
    /\ job' = NoJob /\ LoadAnswered("out", Nothing)
    /\ UNCHANGED <<session, req, made, diskVars, procVars, ghostVars>>

\* The webview owns the account's state from here on; it uses the state if the
\* account is the one it asked for.
Load ==
    /\ job.at = "read"
    /\ LET st == LoadState(files[job.dir], KeyAtHand)
           mine == js.at = "loading" /\ js.acct = job.dir
       IN  /\ st # Unreadable
           /\ IF st = Nothing THEN LoadAnswered("fresh", Nothing)
              ELSE IF mine THEN LoadAnswered("ready", st)
              ELSE LoadAnswered("out", Nothing)
           /\ relied' = IF mine /\ st # Nothing
                          THEN [relied EXCEPT ![job.dir] = @ \cup st.has] ELSE relied
    /\ cached' = IF PresentIn(files[job.dir]) THEN KeyAtHand ELSE cached
    /\ jsOwner' = job.dir
    /\ job' = NoJob
    /\ UNCHANGED <<session, req, made, faults, diskVars, acked, accepted,
                   pending, flushDue, timer, migrated, blocked>>

-----------------------------------------------------------------------------
\* Somebody clears the keyring entry.
ForgetKey ==
    /\ entry # 0 /\ Fault("forget")
    /\ entry' = 0
    /\ UNCHANGED <<session, job, files, keys, marker, procVars, pageVars, ghostVars>>

JobStep ==
    \/ ObtainKey \/ KeyRefused \/ CreateTmp \/ SyncTmp \/ CopyToBak \/ SyncBak \/ RenameTmp
    \/ Migrate \/ WriteMarker \/ Move \/ MovesDone
    \/ FindAccount \/ NoAccount \/ LoadFails \/ Load \/ Finish

Next ==
    \/ JobStep \/ WriteError \/ MoveFails \/ Crash \/ ForgetKey \/ Reload
    \/ \E a \in Account \cup {Nobody} : SignIn(a)
    \/ BindAccount \/ CreateIdentity \/ SaveAgain
    \/ \E durable \in BOOLEAN : ChangeState(durable)
    \/ \E s \in Sender : RefuseSave(s) \/ DeferSave(s) \/ ScheduleFlush(s) \/ StartSave(s)
    \/ TimerFires \/ StartHandOff \/ StartExit \/ StartLoad \/ StartMigration

Spec == Init /\ [][Next]_vars

-----------------------------------------------------------------------------
(* Properties.                                                             *)

\* Every variable keeps its type.
TypeOK ==
    /\ files \in [Dir -> [FileName -> File]]
    /\ entry \in Nat /\ keys \in Nat /\ cached \in Nat
    /\ marker \in Account \cup {Nobody}
    /\ session \in Account \cup {Nobody}
    /\ pending \in Deferred \cup {Nothing}
    /\ flushDue \in BOOLEAN /\ timer \in BOOLEAN /\ migrated \in BOOLEAN
    /\ jsOwner \in Account \cup {Nobody} /\ blocked \in Account \cup {Nobody}
    /\ job \in Job /\ js \in Page /\ req \in [Sender -> Call]
    /\ made \in Nat
    /\ acked \in [Account -> SUBSET Update] /\ relied \in [Account -> SUBSET Update]
    /\ accepted \in [Account -> SUBSET Update]
    /\ faults \in Nat

\* What the next launch would load for account a, nothing failing.
Recoverable(a) ==
    LET legacy == LoadState(files[Root], entry)
    IN  IF legacy \notin {Nothing, Unreadable} /\ legacy.of = a /\ MayMigrateTo(a)
          THEN LoadState([n \in FileName |-> IF files[Root][n] # Nothing
                                               THEN files[Root][n] ELSE files[a][n]], entry)
          ELSE LoadState(files[a], entry)
Holds(st, updates) == st \notin {Nothing, Unreadable} /\ updates \subseteq st.has

\* The header's promise: a state whose save was confirmed is neither lost nor
\* rolled back, wherever a crash or an error stops whatever runs - unless
\* somebody took the key away.
AckedSurvives ==
    \A a \in Account : (acked[a] # {} /\ entry # 0) => Holds(Recoverable(a), acked[a])

\* The same for a state a load has returned: mlsSession.js counts it as durable
\* ("it came from disk") and builds own commits on it at once.
ReliedSurvives ==
    \A a \in Account : (relied[a] # {} /\ entry # 0) => Holds(Recoverable(a), relied[a])

\* resolve_key and any_committed_state: as long as the keyring has a key, it is
\* the one every committed file of every account was written with.
OneKey ==
    \A d \in Dir, n \in {"main", "bak"} :
        (entry # 0 /\ files[d][n] \notin {Nothing, Unreadable}) => files[d][n].key = entry

\* LOAD SEMANTICS: an account with a confirmed state is never told it is fresh,
\* not even when its key is gone or the keyring is locked.
NeverFreshOver ==
    [][(job.at = "read" /\ Load /\ js'.at = "fresh") => acked[job.dir] = {}]_vars

\* No account's directory or deferred write ever holds another account's state,
\* whatever saves are still out when the session changes.
DirHoldsOwn ==
    /\ \A a \in Account, n \in FileName :
         files[a][n] \notin {Nothing, Unreadable} => files[a][n].of = a
    /\ pending # Nothing => pending.st.of = pending.dir

\* DURABILITY: what was accepted is on disk, being written or in PENDING, until
\* a hard crash. An exit, a hand-off, a switch of accounts loses nothing.
AcceptedKept ==
    \A a \in Account :
        \/ accepted[a] = {} \/ entry = 0
        \/ Holds(Recoverable(a), accepted[a])
        \/ pending # Nothing /\ pending.dir = a /\ Holds(pending.st, accepted[a])
        \/ job.to = a /\ Holds(job.st, accepted[a])

\* Neither a confirmed state nor, while no process crashed, an accepted one is
\* lost or rolled back, whoever signs in, exits or hands off in between (the
\* header of mls_store.rs).
NothingKeptIsLost == AckedSurvives /\ AcceptedKept

-----------------------------------------------------------------------------
(* The inductive invariant behind AckedSurvives where no load overtakes a    *)
(* save and nothing lets a migration pass over the legacy state.             *)

Fits(st) == acked[st.of] \subseteq st.has

\* The legacy state waits in the root directory for its migration.
Waits == files[Root]["main"] # Nothing

\* The webview, PENDING or the critical section works on the account's directory.
InUse(a) ==
    \/ jsOwner = a
    \/ pending # Nothing /\ pending.dir = a
    \/ job.at \in WriteStage /\ job.to = a
    \/ (job.at = "read" \/ (job.op = "load" /\ job.at \in WriteStage)) /\ job.dir = a

\* As long as the legacy main file waits, nobody but a migration touches its
\* owner's directory, and the next migration that runs goes on with it.
LegacyApart ==
    /\ ~Waits => files[Root] = NoFiles /\ job.at # "marker"
    /\ Waits =>
         /\ LegacyOwner \in Account /\ ~InUse(LegacyOwner)
         /\ files[Root]["main"] # Unreadable
         /\ files[Root]["tmp"] \in {Nothing, Unreadable}
         /\ files[LegacyOwner]["main"] = Nothing
         /\ files[LegacyOwner]["tmp"] \in {Nothing, Unreadable}
         /\ marker \in {Nobody, LegacyOwner}
         /\ (CommittedIn(files[LegacyOwner]) \/ job.at = "move") => marker = LegacyOwner
         /\ job.at \in {"account", "marker", "move"} => migrated
         /\ (migrated /\ job.at \notin {"marker", "move"}) => blocked = LegacyOwner

\* A key in use is the keyring's, unless that one was taken away.
KeysAgree ==
    /\ (entry # 0 /\ cached # 0) => entry = cached
    /\ job.at \in WriteStage \ {"key"} => cached # 0

\* The main file of an account, which for the legacy owner may still wait.
MainOf(fs, a) ==
    IF a = LegacyOwner /\ fs[Root]["main"] # Nothing THEN fs[Root]["main"] ELSE fs[a]["main"]

\* The main file of an account holds what was confirmed and opens with the key at
\* hand; a tmp file that would be preferred to it holds as much.
FilesHoldAcked ==
    \A a \in Account :
        /\ acked[a] # {} => MainOf(files, a) # Nothing
        /\ MainOf(files, a) # Nothing =>
              /\ MainOf(files, a) # Unreadable /\ acked[a] \subseteq MainOf(files, a).has
              /\ entry # 0 => MainOf(files, a).key = entry
              /\ cached # 0 => MainOf(files, a).key = cached
        /\ files[a]["tmp"] \notin {Nothing, Unreadable} => acked[a] \subseteq files[a]["tmp"].has

\* Whatever is going to be written includes all that was confirmed.
WritesFit ==
    /\ pending # Nothing => Fits(pending.st)
    /\ job.at \in WriteStage =>
         /\ job.to \in Account /\ job.st # Nothing /\ job.st.of = job.to /\ Fits(job.st)
         /\ job.at \in {"copy", "copied", "rename"} => files[job.to]["tmp"] = NewBlob
         /\ job.at \in {"copy", "copied"} => files[job.to]["main"] # Nothing

\* What the critical section is doing: a load has no save to race with, and a
\* save is the one its caller sent.
JobsInOrder ==
    /\ job.at = "idle" => job = NoJob
    /\ job.at \in {"account", "read"} => job.op = "load"
    /\ job.at = "read" => job.dir \in Account
    /\ job.op = "load" => js.at \in {"out", "loading"} /\ \A s \in Sender : req[s].at = "none"
    /\ job.op = "save" =>
         /\ job.at \in WriteStage
         /\ req[job.from].at = "sent" /\ job.st = req[job.from].st

\* A page whose save is still live has made no other change; a save that nobody
\* waits for any more is answered before the page goes on.
CallsInOrder ==
    /\ \A s \in Sender : req[s].at # "none" =>
         /\ req[s].st # Nothing
         /\ req[s].live => s = "page" /\ js.at \in {"creating", "ready"} /\ js.mem = req[s].st
         /\ ~req[s].live => js.at = "out"
         /\ (req[s].at = "sent" /\ req[s].st.of = jsOwner) => Fits(req[s].st)
    /\ req["gone"].at # "none" => req["page"].at = "none"
    /\ js.at = "creating" => req["page"].at = "sent" /\ req["page"].live /\ req["page"].durable

\* The page works on a state that includes all that was confirmed; a page told
\* "fresh" by mistake (the session moved while it asked) owns another account.
PageFits ==
    /\ js.at = "ready" => js.mem # Nothing /\ Fits(js.mem)
    /\ js.at \in {"fresh", "loading"} => js.acct \in Account
    /\ (js.at = "fresh" /\ jsOwner = js.acct) => acked[js.acct] = {}

StoreInv ==
    /\ LegacyApart /\ KeysAgree /\ DirHoldsOwn /\ FilesHoldAcked
    /\ WritesFit /\ JobsInOrder /\ CallsInOrder /\ PageFits

-----------------------------------------------------------------------------
(* The store implements a StateCell per account.                             *)

HasIn(st) == IF st \in {Nothing, Unreadable} THEN {} ELSE st.has

Cell(a) == INSTANCE StateCell WITH
    safe <- HasIn(MainOf(files, a)),
    latest <- HasIn(Recoverable(a)),
    promised <- acked[a],
    lost <- entry = 0 /\ keys # 0

\* The next launch finds, for every account, what the last write that got as far
\* as its fsync left, or what the last complete one left if another write has
\* begun since; no crash, error, load, flush of another account or step of a
\* migration changes it, and what was confirmed is in it (the file header of
\* mls_store.rs, ATOMIC WRITE and the legacy migration).
ImplementsCells ==
    /\ \A a \in Account : Cell(a)!Init
    /\ [][\A a \in Account : [Cell(a)!Next]_(Cell(a)!vars)]_vars

-----------------------------------------------------------------------------
(* Liveness: the critical section is left, calls are answered, timers fire. *)

StoreFairness ==
    /\ WF_vars(JobStep)
    /\ SF_vars(TimerFires)
    /\ \A s \in Sender : WF_vars(ScheduleFlush(s))
                         /\ SF_vars(RefuseSave(s) \/ DeferSave(s) \/ StartSave(s))
FairSpec == Spec /\ StoreFairness

\* A deferred state does not wait for the next load or exit: it is written (or
\* replaced, or dropped by a restart) although at most one timer is ever set,
\* unless a fault keeps it from the disk.
DeferredIsFlushed ==
    \A a \in Account, u \in Update :
        (pending # Nothing /\ pending.dir = a /\ u \in pending.st.has)
            ~> (pending = Nothing \/ pending.dir # a \/ u \notin pending.st.has \/ faults # 0)
=============================================================================
