----------------------------- MODULE MlsPersist -----------------------------
(***************************************************************************)
(* mlsSession.js 275-570: one window's device-state cache, the FIFO state   *)
(* lock, the single writer behind it, and the switch between accounts.      *)
(*                                                                         *)
(* A device state is its account and the lock work it has absorbed. Lock    *)
(* work replaces the whole state; the writer sends the newest one to Rust,  *)
(* one save at a time; Rust (mls_store.rs, by what MlsStore shows of it)    *)
(* holds a lazily accepted state in memory until it is flushed.             *)
(***************************************************************************)
EXTENDS Naturals, Sequences, FiniteSets

CONSTANTS
    Account,     \* the accounts used in this window
    First,       \* the account signed in at first
    NoAccount,   \* no account
    NoState,     \* no device state
    MaxJobs,     \* bound on the lock work made
    MaxSignIns,  \* bound on changes of the signed-in account
    PersistFaultKinds,  \* the faults that occur, a subset of PersistFaultKind
    MaxPersistFaults  \* bound on how many of them occur

PersistFaultKind == {"io", "answer", "crash", "reload", "late"}

ASSUME PersistAccounts == First \in Account /\ NoAccount \notin Account
ASSUME PersistFaultsAreKnown == PersistFaultKinds \subseteq PersistFaultKind
ASSUME PersistBounds == MaxJobs \in Nat /\ MaxSignIns \in Nat /\ MaxPersistFaults \in Nat

VARIABLES
    session,   \* the account Rust is signed in to
    owner,     \* JS_OWNER: the account whose state the window loaded last
    ui,        \* the account the window passes to every call
    disk,      \* per account, the state that survives a crash
    pending,   \* PENDING: a newer state accepted but not flushed
    gen,       \* sessionGen
    bound,     \* boundUserId
    cache,     \* deviceStateCache
    identity,  \* identityPromise: none, pending or fulfilled
    ver,       \* stateVersion and the writer's three versions
    save,      \* the mls_save_state in flight
    queue,     \* lock work not started (behind lockTail)
    holder,    \* the lock work that runs
    inits,     \* the runs of initIdentity under way
    released,  \* what left the device, and the work its state had absorbed
    made, signIns, persistFaults

rustVars == <<session, owner, disk, pending>>
pageVars == <<gen, bound, cache, identity, ver>>
lockVars == <<queue, holder>>
boundVars == <<made, signIns, persistFaults>>
persistVars == <<session, owner, ui, disk, pending, gen, bound, cache, identity, ver, save,
          queue, holder, inits, released, made, signIns, persistFaults>>

Work == {"decrypt", "encrypt", "commit", "identity"} \X (1..MaxJobs)
State == [of: Account, did: SUBSET Work]
ASSUME PersistNoState == NoState \notin State

Stage == {"free", "base", "sent", "durable"}
\* at "base": runOwnCommit waits for its base; "sent": its request is out;
\* "durable": the work's own result is waited for.
Holder == [at: Stage, work: Work \cup {<<"none", 0>>}, of: Account \cup {NoAccount},
           gen: Nat, version: Nat, base: State \cup {NoState}]
Free == [at |-> "free", work |-> <<"none", 0>>, of |-> NoAccount, gen |-> 0,
         version |-> 0, base |-> NoState]
Save == [at: {"idle", "sent", "ok", "refused", "failed"}, bytes: State \cup {NoState},
         version: Nat, durable: BOOLEAN]
NoSave == [at |-> "idle", bytes |-> NoState, version |-> 0, durable |-> FALSE]
Start == [state |-> 0, persisted |-> 0, durable |-> 0, wanted |-> 0]

PersistFault(kind) ==
    kind \in PersistFaultKinds /\ persistFaults < MaxPersistFaults /\ persistFaults' = persistFaults + 1
Larger(m, n) == IF m < n THEN n ELSE m
Kind(work) == work[1]
With(s, work) == [s EXCEPT !.did = @ \cup {work}]
\* The sender-ratchet generation the next ciphertext of a state uses.
Generation(s) == Cardinality({w \in s.did : Kind(w) = "encrypt"})

PersistInit ==
    /\ session = First /\ ui = First
    /\ disk \in [Account -> {NoState} \cup {[of |-> a, did |-> {}] : a \in Account}]
    /\ \A a \in Account : disk[a] # NoState => disk[a].of = a
    /\ owner = NoAccount /\ pending = NoState
    /\ gen = 0 /\ bound = NoAccount /\ cache = NoState /\ identity = "none" /\ ver = Start
    /\ save = NoSave /\ queue = <<>> /\ holder = Free /\ inits = {}
    /\ released = {} /\ made = 0 /\ signIns = 0 /\ persistFaults = 0

-----------------------------------------------------------------------------
(* The writer.                                                             *)

\* runWriter's loop: the next save, or none.
NextSave(c, v) ==
    IF c = NoState \/ (v.wanted <= v.durable /\ v.persisted >= v.state) THEN NoSave
    ELSE [at |-> "sent", bytes |-> c, version |-> v.state, durable |-> v.wanted > v.durable]

\* schedulePersist: a running writer will see the new versions itself.
SchedulePersist(c, v) == save' = IF save.at # "idle" THEN save ELSE NextSave(c, v)

Waits(h) == h.at \in {"base", "durable"}

\* Promise callbacks run before the next event: work at a free lock has started.
NewTurn == holder # Free \/ queue = <<>>

\* resetForUser: whoever waits for durability is told the account switched. The
\* save in flight and a request that is out go on.
ResetForUser(a) ==
    /\ gen' = gen + 1 /\ bound' = a /\ cache' = NoState
    /\ ver' = [n \in DOMAIN ver |-> ver.state]
    /\ holder' = IF Waits(holder) THEN Free ELSE holder

\* The work ends: initIdentity is told, and forgets its state when it failed.
\* (Its promise is that of its own session only.)
IdentitySettles(h, ok) ==
    IF Kind(h.work) # "identity" THEN UNCHANGED <<cache, identity>>
    ELSE /\ cache' = IF ok THEN cache ELSE NoState
         /\ identity' = IF h.gen # gen THEN identity ELSE IF ok THEN "ready" ELSE "none"

\* Durable: the result is handed out, or the commit built on the base is sent.
Release(h, s, generation) ==
    released' = released \cup {[of |-> h.of, from |-> s.of, needs |-> s.did,
                                generation |-> generation]}

Resume(h) ==
    CASE h.at = "base" ->
            /\ holder' = [h EXCEPT !.at = "sent"]
            /\ Release(h, h.base, {})
            /\ UNCHANGED <<cache, identity>>
      [] h.at = "durable" /\ Kind(h.work) = "encrypt" ->
            /\ holder' = Free
            /\ Release(h, With(h.base, h.work), {Generation(h.base)})
            /\ UNCHANGED <<cache, identity>>
      [] OTHER ->
            /\ holder' = Free
            /\ IdentitySettles(h, TRUE)
            /\ UNCHANGED released

\* Mutated form: a waiter is settled by an accepted save, fsynced or not.
SettledOnceAccepted(h, v) == Waits(h) /\ h.version <= v.persisted
\* durableWaiters.filter: the lock holder is the only one that can wait.
Settled(h, v) == Waits(h) /\ h.version <= v.durable

\* Mutated form: an accepted save counts as fsynced.
AcceptedAsDurable(s, v) ==
    [v EXCEPT !.persisted = Larger(@, s.version), !.durable = Larger(@, s.version)]
\* What an accepted save tells the writer.
Accepted(s, v) ==
    [v EXCEPT !.persisted = Larger(@, s.version),
              !.durable = IF s.durable THEN Larger(@, s.version) ELSE @]

SaveSucceeded ==
    /\ NewTurn /\ save.at = "ok"
    /\ ver' = Accepted(save, ver)
    /\ save' = NextSave(cache, ver')
    /\ IF Settled(holder, ver') THEN Resume(holder)
       ELSE UNCHANGED <<holder, cache, identity, released>>
    /\ UNCHANGED <<rustVars, ui, gen, bound, queue, inits, boundVars>>

\* Mutated form: a failed save leaves its waiters waiting.
SaveFailedQuietly ==
    /\ NewTurn /\ save.at = "failed"
    /\ ver' = [ver EXCEPT !.wanted = ver.durable]
    /\ save' = NoSave
    /\ UNCHANGED <<rustVars, ui, gen, bound, cache, identity, lockVars, inits, released, boundVars>>

\* Every waiter is rejected, whichever version it waits for.
SaveFailed ==
    /\ NewTurn /\ save.at = "failed"
    /\ ver' = [ver EXCEPT !.wanted = ver.durable]
    /\ save' = NoSave
    /\ IF Waits(holder) THEN holder' = Free /\ IdentitySettles(holder, FALSE)
       ELSE UNCHANGED <<holder, cache, identity>>
    /\ UNCHANGED <<rustVars, ui, gen, bound, queue, inits, released, boundVars>>

\* MLS_ACCOUNT_MISMATCH: the session is reset, whosever it is by now.
SaveRefused ==
    /\ NewTurn /\ save.at = "refused"
    /\ ResetForUser(NoAccount)
    /\ identity' = "none" /\ save' = NoSave
    /\ UNCHANGED <<rustVars, ui, queue, inits, released, boundVars>>

-----------------------------------------------------------------------------
(* Rust.                                                                   *)

\* mls_save_state: a state of another account than the window loaded is refused. A
\* durable save that failed is kept for the next flush.
RustSaves ==
    /\ save.at = "sent"
    /\ \/ /\ owner # save.bytes.of
          /\ save' = [save EXCEPT !.at = "refused"]
          /\ UNCHANGED <<disk, pending, persistFaults>>
       \/ /\ owner = save.bytes.of
          /\ save' = [save EXCEPT !.at = "ok"]
          /\ disk' = IF save.durable THEN [disk EXCEPT ![owner] = save.bytes] ELSE disk
          /\ pending' = IF save.durable THEN NoState ELSE save.bytes
          /\ UNCHANGED persistFaults
       \/ /\ owner = save.bytes.of /\ save.durable /\ PersistFault("io")
          /\ save' = [save EXCEPT !.at = "failed"]
          /\ pending' = save.bytes
          /\ UNCHANGED disk
    /\ UNCHANGED <<session, owner, ui, pageVars, lockVars, inits, released, made, signIns>>

\* What is on disk once PENDING is flushed.
Flushed == IF pending = NoState THEN disk ELSE [disk EXCEPT ![pending.of] = pending]

Flush ==
    /\ pending # NoState
    /\ disk' = Flushed /\ pending' = NoState
    /\ UNCHANGED <<session, owner, ui, pageVars, save, lockVars, inits, released, boundVars>>

\* mls_load_state: what is pending is flushed, then the account's file is read, and
\* the window may write to that account from here on. It overtakes a save that was
\* sent before it only when "late" is a fault.
RustLoads(i) ==
    /\ i \in inits /\ i.at = "load"
    /\ \/ /\ IF save.at = "sent" THEN PersistFault("late") ELSE persistFaults' = persistFaults
          /\ disk' = Flushed /\ pending' = NoState /\ owner' = session
          /\ inits' = (inits \ {i}) \cup
               {[i EXCEPT !.at = IF Flushed[session] = NoState THEN "fresh" ELSE "loaded",
                          !.got = Flushed[session]]}
       \/ /\ PersistFault("io")
          /\ inits' = (inits \ {i}) \cup {[i EXCEPT !.at = "failed"]}
          /\ UNCHANGED <<owner, disk, pending>>
    /\ UNCHANGED <<session, ui, pageVars, save, lockVars, released, made, signIns>>

-----------------------------------------------------------------------------
(* Identity.                                                               *)

NewInit(a, g) == [of |-> a, gen |-> g, at |-> "load", got |-> NoState]

\* ensureIdentity for another account than the bound one.
SwitchAccount ==
    /\ bound # NoAccount /\ ui # bound
    /\ ResetForUser(ui)
    /\ identity' = "pending"
    /\ inits' = inits \cup {NewInit(ui, gen + 1)}
    /\ UNCHANGED <<rustVars, ui, save, queue, released, boundVars>>

\* ensureIdentity with nothing loaded and no run to share.
StartInit ==
    /\ bound \in {NoAccount, ui} /\ cache = NoState /\ identity = "none"
    /\ bound' = ui
    /\ identity' = "pending"
    /\ inits' = inits \cup {NewInit(ui, gen)}
    /\ UNCHANGED <<rustVars, ui, gen, cache, ver, save, lockVars, released, boundVars>>

\* initIdentity after its load: stale, refused, adopted, or a fresh device.
InitLoaded(i) ==
    /\ NewTurn /\ i \in inits /\ i.at \in {"loaded", "fresh", "failed"}
    /\ LET usable == i.gen = gen /\ i.at = "loaded" /\ i.got.of = i.of
       IN  IF i.gen = gen /\ i.at = "fresh"
           THEN /\ inits' = (inits \ {i}) \cup {[i EXCEPT !.at = "register"]}
                /\ UNCHANGED <<cache, identity, ver>>
           ELSE /\ inits' = inits \ {i}
                /\ cache' = IF usable THEN i.got ELSE cache
                /\ identity' = IF i.gen # gen THEN identity ELSE IF usable THEN "ready" ELSE "none"
                /\ ver' = IF usable THEN [ver EXCEPT !.state = @ + 1,
                                            !.persisted = ver.state + 1, !.durable = ver.state + 1]
                          ELSE ver
    /\ UNCHANGED <<rustVars, ui, gen, bound, save, lockVars, released, boundVars>>

\* The device is registered; its first state is committed under the lock.
InitRegistered(i) ==
    /\ NewTurn /\ i \in inits /\ i.at = "register"
    /\ inits' = inits \ {i}
    /\ IF i.gen # gen \/ made >= MaxJobs
       THEN /\ identity' = IF i.gen = gen THEN "none" ELSE identity
            /\ UNCHANGED <<queue, made>>
       ELSE /\ made' = made + 1
            /\ queue' = Append(queue, [work |-> <<"identity", made + 1>>, of |-> i.of, gen |-> gen])
            /\ UNCHANGED identity
    /\ UNCHANGED <<rustVars, ui, gen, bound, cache, ver, save, holder, released, signIns, persistFaults>>

-----------------------------------------------------------------------------
(* Lock work.                                                              *)

\* A call whose ensureIdentity is satisfied queues its work.
Call(kind) ==
    /\ ui = bound /\ (cache # NoState \/ identity = "ready")
    /\ made < MaxJobs /\ made' = made + 1
    /\ queue' = Append(queue, [work |-> <<kind, made + 1>>, of |-> ui, gen |-> gen])
    /\ UNCHANGED <<rustVars, ui, pageVars, save, holder, inits, released, signIns, persistFaults>>

\* Mutated form: work of an earlier session runs.
RunsAlways(j) == TRUE
\* withStateLock: work queued for an earlier session is rejected.
Runs(j) == j.gen = gen

\* Mutated form: the state read is the one last saved.
SavedState == IF bound = NoAccount THEN NoState ELSE Flushed[bound]
\* currentState, read inside the critical section.
CurrentState == cache

\* commitState: the new state, its version, and a save if none is under way.
CommitState(s, wait) ==
    /\ cache' = s
    /\ LET v == [ver EXCEPT !.state = @ + 1]
       IN  /\ SchedulePersist(s, v)
           /\ ver' = IF wait THEN [v EXCEPT !.wanted = Larger(@, v.state)] ELSE v

Take(j, stage, base) ==
    holder' = [at |-> stage, work |-> j.work, of |-> j.of, gen |-> j.gen,
               version |-> ver'.state, base |-> base]

\* The work's own part up to its first await.
Perform(j, base) ==
    CASE Kind(j.work) = "decrypt" ->
            /\ CommitState(With(base, j.work), FALSE)
            /\ UNCHANGED <<holder, released>>
      [] Kind(j.work) = "commit" ->
            /\ cache' = cache
            /\ LET v == [ver EXCEPT !.wanted = IF ver.durable >= ver.state THEN @
                                               ELSE Larger(@, ver.state)]
               IN ver' = v /\ SchedulePersist(cache, v)
            /\ IF ver.durable >= ver.state
               THEN Take(j, "sent", base) /\ Release(j, base, {})
               ELSE Take(j, "base", base) /\ UNCHANGED released
      [] OTHER ->
            /\ CommitState(With(base, j.work), TRUE)
            /\ Take(j, "durable", base)
            /\ UNCHANGED released

StartWork ==
    /\ holder = Free /\ queue # <<>>
    /\ queue' = Tail(queue)
    /\ LET j == Head(queue)
           new == Kind(j.work) = "identity"
       IN  IF Runs(j) /\ (new \/ CurrentState # NoState)
           THEN /\ Perform(j, IF new THEN [of |-> j.of, did |-> {}] ELSE CurrentState)
                /\ UNCHANGED identity
           ELSE /\ IdentitySettles(j, FALSE)
                /\ UNCHANGED <<ver, save, holder, released>>
    /\ UNCHANGED <<rustVars, ui, gen, bound, inits, boundVars>>

\* runOwnCommit's answer: the commit is merged if it was accepted and the state
\* is still the one it was built on, in the same session.
Answer(accepted) ==
    /\ NewTurn /\ holder.at = "sent"
    /\ IF accepted /\ holder.gen = gen /\ cache = holder.base
       THEN /\ CommitState(With(holder.base, holder.work), TRUE)
            /\ holder' = [holder EXCEPT !.at = "durable", !.version = ver'.state]
       ELSE /\ holder' = Free
            /\ UNCHANGED <<cache, ver, save>>
    /\ UNCHANGED <<rustVars, ui, gen, bound, identity, queue, inits, released, made, signIns>>

ServerAccepts == Answer(TRUE) /\ UNCHANGED persistFaults
ServerRejects == Answer(FALSE) /\ PersistFault("answer")

-----------------------------------------------------------------------------
(* The user and the machine.                                               *)

SignIn(a) ==
    /\ a # session /\ signIns < MaxSignIns
    /\ session' = a /\ signIns' = signIns + 1
    /\ UNCHANGED <<owner, ui, disk, pending, pageVars, save, lockVars, inits, released, made, persistFaults>>

\* auth-changed reaches the window.
UiFollows ==
    /\ NewTurn /\ ui # session /\ ui' = session
    /\ UNCHANGED <<rustVars, pageVars, save, lockVars, inits, released, boundVars>>

\* The page starts again; Rust has served what the old one sent. A crash of the
\* process takes what was not flushed as well.
Restart(kind) ==
    /\ PersistFault(kind)
    /\ kind = "reload" => save.at # "sent"
    /\ owner' = IF kind = "crash" THEN NoAccount ELSE owner
    /\ pending' = IF kind = "crash" THEN NoState ELSE pending
    /\ ui' = session
    /\ gen' = 0 /\ bound' = NoAccount /\ cache' = NoState /\ identity' = "none" /\ ver' = Start
    /\ save' = NoSave /\ queue' = <<>> /\ holder' = Free /\ inits' = {}
    /\ UNCHANGED <<session, disk, released, made, signIns>>

PersistNext ==
    \/ SaveSucceeded \/ SaveFailed \/ SaveRefused \/ RustSaves
    \/ Flush \/ \E a \in Account : SignIn(a)
    \/ SwitchAccount \/ StartInit
    \/ \E i \in inits : RustLoads(i) \/ InitLoaded(i) \/ InitRegistered(i)
    \/ \E kind \in {"decrypt", "encrypt", "commit"} : Call(kind)
    \/ StartWork \/ ServerAccepts \/ ServerRejects \/ UiFollows
    \/ \E kind \in {"crash", "reload"} : Restart(kind)

PersistSpec == PersistInit /\ [][PersistNext]_persistVars

\* Rust answers, the server answers (or the request times out), promises settle.
PersistFair(task) ==
    CASE task = "succeeded" -> SaveSucceeded
      [] task = "failed"    -> SaveFailed
      [] task = "refused"   -> SaveRefused
      [] task = "saves"     -> RustSaves
      [] task = "starts"    -> StartWork
      [] task = "answers"   -> ServerAccepts
PersistTasks == {"succeeded", "failed", "refused", "saves", "starts", "answers"}

-----------------------------------------------------------------------------
PersistTypeOK ==
    /\ session \in Account /\ ui \in Account
    /\ disk \in [Account -> State \cup {NoState}]
    /\ owner \in Account \cup {NoAccount} /\ pending \in State \cup {NoState}
    /\ gen \in Nat /\ bound \in Account \cup {NoAccount}
    /\ cache \in State \cup {NoState} /\ identity \in {"none", "pending", "ready"}
    /\ ver \in [{"state", "persisted", "durable", "wanted"} -> Nat]
    /\ save \in Save /\ holder \in Holder
    /\ queue \in Seq([work: Work, of: Account, gen: Nat])
    /\ inits \subseteq [of: Account, gen: Nat, at: {"load", "loaded", "fresh", "failed", "register"},
                        got: State \cup {NoState}]
    /\ released \subseteq [of: Account, from: Account, needs: SUBSET Work, generation: SUBSET Nat]
    /\ made \in Nat /\ signIns \in Nat /\ persistFaults \in Nat

\* I5: whatever left the device, a ciphertext or an own commit, depends on a
\* state that a crash at this moment would leave on disk.
ReleasedOnDisk ==
    \A r \in released : disk[r.of] # NoState /\ r.needs \subseteq disk[r.of].did

\* What I5 is for: no two ciphertexts of an account use one generation, across
\* crashes, failed saves and account switches. (A released item is the set of work
\* it needs, so two ciphertexts differ in it.)
NoGenerationReuse ==
    \A r, q \in released :
        r.of = q.of /\ r.generation = q.generation /\ r.generation # {} => r = q

\* I7: no account's state is ever taken for, or written over, another's; neither
\* does work queued for one account run in another's session.
StatesStayHome ==
    /\ cache # NoState => cache.of = bound
    /\ \A a \in Account : disk[a] # NoState => disk[a].of = a
    /\ \A r \in released : r.from = r.of

\* I1-I3: while one session lasts, a state is replaced only by one that absorbed
\* everything it had: no work's result overwrites another's.
NoLostUpdate ==
    [][(gen' = gen /\ cache # NoState /\ cache' # NoState /\ signIns' = signIns
            /\ persistFaults' = persistFaults)
         => cache.did \subseteq cache'.did]_persistVars

\* The storage the window relies on is a StateCell per account: what is promised
\* is the work that has left the device. (MlsStore shows the files to be one.)
DidIn(s) == IF s = NoState THEN {} ELSE s.did
LeftDevice(a) == UNION {r.needs : r \in {q \in released : q.of = a}}

DiskCell(a) == INSTANCE StateCell WITH
    Update <- Work, safe <- DidIn(disk[a]), latest <- DidIn(disk[a]),
    promised <- LeftDevice(a), lost <- FALSE

\* What is on disk for an account changes by saves only, each of which includes
\* all the work that has left the device; nothing leaves the device that is not
\* on disk (I5 of mlsSession.js).
DisksAreCells ==
    /\ \A a \in Account : DiskCell(a)!Init
    /\ [][\A a \in Account : [DiskCell(a)!Next]_(DiskCell(a)!vars)]_persistVars

\* Work that waits for the lock, for the disk or for the server is settled: no
\* durability waiter is forgotten by a writer that stopped.
InLock(n) == holder.work[2] = n \/ \E k \in DOMAIN queue : queue[k].work[2] = n
WorkSettles == \A n \in 1..MaxJobs : InLock(n) ~> ~InLock(n)
=============================================================================
