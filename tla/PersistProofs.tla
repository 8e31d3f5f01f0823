---------------------------- MODULE PersistProofs ----------------------------
(***************************************************************************)
(* What holds of MlsPersist for any number of accounts, work, sign-ins and  *)
(* faults. Three inductive invariants, each on top of the one before:       *)
(*                                                                         *)
(*   ClaimInv    who acts for the window's present session acts for its     *)
(*               account: StatesStayHome and NoLostUpdate follow            *)
(*   DurableInv  what the writer calls durable is on disk: ReleasedOnDisk,  *)
(*               and every account's disk implements a StateCell            *)
(*   GenInv      work is numbered in the order it is done in, and a         *)
(*               ciphertext's generation is the number of ciphertexts its   *)
(*               state had: NoGenerationReuse                               *)
(*                                                                         *)
(* The last two need what the code does not ensure: that no load overtakes  *)
(* a save, and that no load that is answered after its session ended gives  *)
(* the window another account (InOrder). Without the second, four sign-ins  *)
(* are enough to lose an account's state (PersistFresh.cfg).                *)
(***************************************************************************)
EXTENDS MlsPersist, FiniteSetTheorems, TLAPS

Job == [work: Work, of: Account, gen: Nat]
Versions == [{"state", "persisted", "durable", "wanted"} -> Nat]

\* Lock work that runs has a state, an account and a work item.
HolderShape == holder.at # "free" =>
    /\ holder.base \in State /\ holder.of \in Account /\ holder.work \in Work
    /\ holder.at \in {"base", "sent"} => Kind(holder.work) = "commit"
SaveShape == save.at # "idle" => save.bytes \in State
PersistShape == PersistTypeOK /\ HolderShape /\ SaveShape

LEMMA WithAdds ==
  ASSUME NEW s \in State, NEW w \in Work
  PROVE  With(s, w) \in State /\ With(s, w).of = s.of /\ With(s, w).did = s.did \cup {w}
BY DEF With, State

LEMMA WorkMade ==
  ASSUME NEW k \in {"decrypt", "encrypt", "commit", "identity"}, NEW n \in Nat, n < MaxJobs
  PROVE  /\ <<k, n + 1>> \in Work /\ Kind(<<k, n + 1>>) = k
         /\ <<k, n + 1>>[2] = n + 1
BY PersistBounds DEF Work, Kind

LEMMA WorkParts ==
  ASSUME NEW w \in Work
  PROVE  Kind(w) \in {"decrypt", "encrypt", "commit", "identity"} /\ w[2] \in Nat
BY PersistBounds DEF Work, Kind

LEMMA WorkIsFinite == IsFiniteSet(Work)
<1>1. IsFiniteSet({"decrypt", "encrypt", "commit", "identity"})
  <2>1. IsFiniteSet({} \cup {"decrypt"})
    BY FS_EmptySet, FS_AddElement
  <2>2. IsFiniteSet(({} \cup {"decrypt"}) \cup {"encrypt"})
    BY <2>1, FS_AddElement
  <2>3. IsFiniteSet((({} \cup {"decrypt"}) \cup {"encrypt"}) \cup {"commit"})
    BY <2>2, FS_AddElement
  <2>4. IsFiniteSet(((({} \cup {"decrypt"}) \cup {"encrypt"}) \cup {"commit"}) \cup {"identity"})
    BY <2>3, FS_AddElement
  <2>5. ((({} \cup {"decrypt"}) \cup {"encrypt"}) \cup {"commit"}) \cup {"identity"}
          = {"decrypt", "encrypt", "commit", "identity"}
    OBVIOUS
  <2> QED
    BY <2>4, <2>5
<1>2. IsFiniteSet(1..MaxJobs)
  BY PersistBounds, FS_Interval
<1> QED
  BY <1>1, <1>2, FS_Product DEF Work

LEMMA GenerationIsNat ==
  ASSUME NEW s \in State
  PROVE  Generation(s) \in Nat
<1>1. {w \in s.did : Kind(w) = "encrypt"} \in SUBSET Work
  BY DEF State
<1> QED
  BY <1>1, WorkIsFinite, FS_Subset, FS_CardinalityType DEF Generation

LEMMA NextSaveFits ==
  ASSUME NEW c \in State \cup {NoState}, NEW v \in Versions
  PROVE  /\ NextSave(c, v) \in Save
         /\ NextSave(c, v).at \in {"idle", "sent"}
         /\ NextSave(c, v).at # "idle" => c # NoState /\ NextSave(c, v).bytes = c
BY DEF NextSave, Save, NoSave, Versions

LEMMA LargerIsNat ==
  ASSUME NEW m \in Nat, NEW n \in Nat
  PROVE  Larger(m, n) \in Nat /\ Larger(m, n) >= m /\ Larger(m, n) >= n
         /\ (Larger(m, n) = m \/ Larger(m, n) = n)
BY DEF Larger

-----------------------------------------------------------------------------
LEMMA SettlesKeepType ==
  ASSUME NEW h, NEW ok \in BOOLEAN, PersistTypeOK, IdentitySettles(h, ok)
  PROVE  cache' \in State \cup {NoState} /\ identity' \in {"none", "pending", "ready"}
BY DEF IdentitySettles, PersistTypeOK

LEMMA ReleaseKeepsType ==
  ASSUME PersistTypeOK, NEW h, h.of \in Account, NEW s \in State, NEW g \in SUBSET Nat,
         Release(h, s, g)
  PROVE  released' \subseteq [of: Account, from: Account, needs: SUBSET Work, generation: SUBSET Nat]
<1> DEFINE Out == [of: Account, from: Account, needs: SUBSET Work, generation: SUBSET Nat]
           item == [of |-> h.of, from |-> s.of, needs |-> s.did, generation |-> g]
<1>1. s.of \in Account /\ s.did \in SUBSET Work
  BY DEF State
<1>2. item \in Out
  BY <1>1
<1>3. released \subseteq Out /\ released' = released \cup {item}
  BY DEF Release, PersistTypeOK
<1> QED
  BY <1>2, <1>3

LEMMA ResumeKeepsType ==
  ASSUME PersistShape, Waits(holder), Resume(holder)
  PROVE  /\ holder' \in Holder /\ HolderShape'
         /\ cache' \in State \cup {NoState} /\ identity' \in {"none", "pending", "ready"}
         /\ released' \subseteq [of: Account, from: Account, needs: SUBSET Work, generation: SUBSET Nat]
<1> DEFINE h == holder
<1>1. /\ PersistTypeOK /\ h.base \in State /\ h.of \in Account /\ h.work \in Work /\ h \in Holder
      /\ h.at \in {"base", "durable"}
  BY DEF PersistShape, HolderShape, Waits, PersistTypeOK
<1>2. CASE h.at = "base"
  <2>1. holder' = [h EXCEPT !.at = "sent"] /\ Release(h, h.base, {}) /\ UNCHANGED <<cache, identity>>
    BY <1>2 DEF Resume
  <2>2. holder' \in Holder /\ HolderShape'
    BY <1>1, <1>2, <2>1 DEF Holder, HolderShape, Stage, PersistShape
  <2> HIDE DEF h
  <2>3. released' \subseteq [of: Account, from: Account, needs: SUBSET Work, generation: SUBSET Nat]
    BY <1>1, <2>1, ReleaseKeepsType
  <2>4. cache' \in State \cup {NoState} /\ identity' \in {"none", "pending", "ready"}
    BY <1>1, <2>1 DEF PersistTypeOK
  <2> QED
    BY <2>2, <2>3, <2>4
<1>3. Free \in Holder /\ (holder' = Free => HolderShape')
  BY DEF Free, Holder, HolderShape, Stage
<1>4. CASE h.at = "durable" /\ Kind(h.work) = "encrypt"
  <2>1. /\ holder' = Free /\ Release(h, With(h.base, h.work), {Generation(h.base)})
        /\ UNCHANGED <<cache, identity>>
    BY <1>4 DEF Resume
  <2>2. With(h.base, h.work) \in State /\ {Generation(h.base)} \in SUBSET Nat
    BY <1>1, WithAdds, GenerationIsNat
  <2> HIDE DEF h
  <2> QED
    BY <1>1, <1>3, <2>1, <2>2, ReleaseKeepsType DEF PersistTypeOK
<1>5. CASE h.at = "durable" /\ Kind(h.work) # "encrypt"
  <2>1. holder' = Free /\ IdentitySettles(h, TRUE) /\ UNCHANGED released
    BY <1>5 DEF Resume
  <2> QED
    BY <1>1, <1>3, <2>1, SettlesKeepType DEF PersistTypeOK
<1> QED
  BY <1>1, <1>2, <1>4, <1>5

LEMMA ResetKeepsType ==
  ASSUME PersistShape, NEW a \in Account \cup {NoAccount}, ResetForUser(a)
  PROVE  /\ gen' \in Nat /\ bound' \in Account \cup {NoAccount} /\ cache' = NoState
         /\ ver' \in Versions /\ holder' \in Holder /\ HolderShape'
<1>1. Free \in Holder /\ (holder' = Free => HolderShape')
  BY DEF Free, Holder, HolderShape, Stage
<1> QED
  BY <1>1 DEF PersistShape, PersistTypeOK, ResetForUser, Versions, HolderShape

-----------------------------------------------------------------------------
LEMMA PersistInitTyped == PersistInit => PersistShape
<1> SUFFICES ASSUME PersistInit PROVE PersistShape
  OBVIOUS
<1>1. disk \in [Account -> State \cup {NoState}]
  <2>1. {[of |-> a, did |-> {}] : a \in Account} \subseteq State
    BY DEF State
  <2> QED
    BY <2>1 DEF PersistInit
<1>2. NoSave \in Save /\ Free \in Holder /\ Start \in Versions
  BY DEF NoSave, Save, Free, Holder, Stage, Start, Versions
<1>3. save.at = "idle" /\ holder.at = "free"
  BY DEF PersistInit, NoSave, Free
<1> QED
  BY <1>1, <1>2, <1>3, PersistAccounts
     DEF PersistInit, PersistShape, PersistTypeOK, HolderShape, SaveShape, Versions

LEMMA AcceptedFits ==
  ASSUME NEW s \in Save, NEW v \in Versions
  PROVE  /\ Accepted(s, v) \in Versions
         /\ Accepted(s, v).state = v.state /\ Accepted(s, v).wanted = v.wanted
         /\ Accepted(s, v).persisted = Larger(v.persisted, s.version)
         /\ Accepted(s, v).durable = IF s.durable THEN Larger(v.durable, s.version) ELSE v.durable
BY LargerIsNat DEF Accepted, Versions, Save

LEMMA SavesKeepType ==
  ASSUME PersistShape, SaveSucceeded \/ SaveFailed \/ SaveRefused
  PROVE  PersistShape'
<1> USE DEF PersistShape
<1>0. /\ save \in Save /\ ver \in Versions /\ NoSave \in Save /\ NoSave.at = "idle"
      /\ Free \in Holder /\ Free.at = "free"
  BY DEF PersistTypeOK, Versions, NoSave, Save, Free, Holder, Stage
<1>1. CASE SaveSucceeded
  <2>1. ver' \in Versions /\ save' \in Save /\ SaveShape'
    BY <1>0, <1>1, AcceptedFits, NextSaveFits DEF SaveSucceeded, PersistTypeOK, SaveShape
  <2>2. /\ holder' \in Holder /\ HolderShape'
        /\ cache' \in State \cup {NoState} /\ identity' \in {"none", "pending", "ready"}
        /\ released' \subseteq [of: Account, from: Account, needs: SUBSET Work, generation: SUBSET Nat]
    <3>1. CASE Settled(holder, ver')
      BY <1>1, <3>1, ResumeKeepsType DEF SaveSucceeded, Settled
    <3>2. CASE ~Settled(holder, ver')
      BY <1>1, <3>2 DEF SaveSucceeded, PersistTypeOK, HolderShape
    <3> QED
      BY <3>1, <3>2
  <2> QED
    BY <1>1, <2>1, <2>2 DEF SaveSucceeded, PersistTypeOK, Versions, rustVars, boundVars
<1>2. CASE SaveFailed
  <2>1. /\ ver' \in Versions /\ save' \in Save /\ SaveShape'
    BY <1>0, <1>2 DEF SaveFailed, SaveShape, Versions
  <2>2. /\ holder' \in Holder /\ HolderShape'
        /\ cache' \in State \cup {NoState} /\ identity' \in {"none", "pending", "ready"}
    <3>1. CASE Waits(holder)
      BY <1>0, <1>2, <3>1, SettlesKeepType DEF SaveFailed, HolderShape
    <3>2. CASE ~Waits(holder)
      BY <1>2, <3>2 DEF SaveFailed, PersistTypeOK, HolderShape
    <3> QED
      BY <3>1, <3>2
  <2> QED
    BY <1>2, <2>1, <2>2 DEF SaveFailed, PersistTypeOK, Versions, rustVars, boundVars
<1>3. CASE SaveRefused
  <2>1. /\ gen' \in Nat /\ bound' \in Account \cup {NoAccount} /\ cache' = NoState
        /\ ver' \in Versions /\ holder' \in Holder /\ HolderShape'
    BY <1>3, ResetKeepsType DEF SaveRefused
  <2>2. save' \in Save /\ SaveShape'
    BY <1>0, <1>3 DEF SaveRefused, SaveShape
  <2> QED
    BY <1>3, <2>1, <2>2 DEF SaveRefused, PersistTypeOK, Versions, rustVars, boundVars
<1> QED
  BY <1>1, <1>2, <1>3

LEMMA FlushedFits ==
  ASSUME PersistTypeOK
  PROVE  Flushed \in [Account -> State \cup {NoState}]
BY DEF PersistTypeOK, Flushed, State

LEMMA RustKeepsType ==
  ASSUME PersistShape, RustSaves \/ Flush \/ \E i \in inits : RustLoads(i)
  PROVE  PersistShape'
<1> USE DEF PersistShape
<1>1. CASE RustSaves
  <2>1. save \in Save /\ save.bytes \in State /\ disk \in [Account -> State \cup {NoState}]
    BY <1>1 DEF RustSaves, SaveShape, PersistTypeOK
  <2>2. save' \in Save /\ SaveShape'
    BY <1>1, <2>1 DEF RustSaves, SaveShape, Save
  <2>3. disk' \in [Account -> State \cup {NoState}]
    <3>1. disk' = disk \/ disk' = [disk EXCEPT ![owner] = save.bytes]
      BY <1>1 DEF RustSaves
    <3> QED
      BY <2>1, <3>1
  <2>4. pending' \in State \cup {NoState}
    <3>1. pending' \in {pending, NoState, save.bytes}
      BY <1>1 DEF RustSaves
    <3> QED
      BY <2>1, <3>1 DEF PersistTypeOK
  <2>5. persistFaults' \in Nat
    <3>1. persistFaults' = persistFaults \/ persistFaults' = persistFaults + 1
      BY <1>1 DEF RustSaves, PersistFault
    <3> QED
      BY <3>1 DEF PersistTypeOK
  <2> QED
    BY <1>1, <2>2, <2>3, <2>4, <2>5 DEF RustSaves, PersistTypeOK, HolderShape, pageVars, lockVars
<1>2. CASE Flush
  BY <1>2, FlushedFits DEF Flush, PersistTypeOK, HolderShape, SaveShape, pageVars, lockVars, boundVars
<1>3. ASSUME NEW i \in inits, RustLoads(i) PROVE PersistShape'
  <2> DEFINE Loads == [of: Account, gen: Nat, at: {"load", "loaded", "fresh", "failed", "register"},
                       got: State \cup {NoState}]
  <2>1. i \in Loads /\ inits \subseteq Loads /\ Flushed[session] \in State \cup {NoState}
    BY FlushedFits DEF PersistTypeOK
  <2>2. inits' \subseteq Loads
    <3> DEFINE at == IF Flushed[session] = NoState THEN "fresh" ELSE "loaded"
               read == [i EXCEPT !.at = at, !.got = Flushed[session]]
               failed == [i EXCEPT !.at = "failed"]
    <3>1. read \in Loads /\ failed \in Loads
      BY <2>1
    <3>2. inits' = (inits \ {i}) \cup {read} \/ inits' = (inits \ {i}) \cup {failed}
      BY <1>3 DEF RustLoads
    <3> HIDE DEF read, failed, Loads
    <3> QED
      BY <2>1, <3>1, <3>2
  <2>3. /\ disk' = disk \/ disk' = Flushed
        /\ pending' = pending \/ pending' = NoState
        /\ persistFaults' = persistFaults \/ persistFaults' = persistFaults + 1
        /\ owner' = owner \/ owner' = session
    BY <1>3 DEF RustLoads, PersistFault
  <2>4. disk' \in [Account -> State \cup {NoState}] /\ pending' \in State \cup {NoState}
        /\ persistFaults' \in Nat /\ owner' \in Account \cup {NoAccount}
    BY <2>3, FlushedFits DEF PersistTypeOK
  <2> QED
    BY <1>3, <2>2, <2>4 DEF RustLoads, PersistTypeOK, HolderShape, SaveShape, pageVars, lockVars
<1> QED
  BY <1>1, <1>2, <1>3

LEMMA IdentityKeepsType ==
  ASSUME PersistShape,
         SwitchAccount \/ StartInit \/ \E i \in inits : InitLoaded(i) \/ InitRegistered(i)
  PROVE  PersistShape'
<1> USE DEF PersistShape
<1> DEFINE Loads == [of: Account, gen: Nat, at: {"load", "loaded", "fresh", "failed", "register"},
                     got: State \cup {NoState}]
<1>0. inits \subseteq Loads /\ ui \in Account /\ gen \in Nat /\ gen + 1 \in Nat
  BY DEF PersistTypeOK
<1>1. CASE SwitchAccount
  <2>1. /\ gen' \in Nat /\ bound' \in Account \cup {NoAccount} /\ cache' = NoState
        /\ ver' \in Versions /\ holder' \in Holder /\ HolderShape'
    BY <1>0, <1>1, ResetKeepsType DEF SwitchAccount
  <2>2. inits' \subseteq Loads
    BY <1>0, <1>1 DEF SwitchAccount, NewInit
  <2> QED
    BY <1>1, <2>1, <2>2 DEF SwitchAccount, PersistTypeOK, SaveShape, Versions, rustVars, boundVars
<1>2. CASE StartInit
  <2>1. inits' \subseteq Loads
    BY <1>0, <1>2 DEF StartInit, NewInit
  <2> QED
    BY <1>0, <1>2, <2>1 DEF StartInit, PersistTypeOK, SaveShape, HolderShape, rustVars, lockVars, boundVars
<1>3. ASSUME NEW i \in inits, InitLoaded(i) PROVE PersistShape'
  <2> DEFINE adopted == [ver EXCEPT !.state = @ + 1, !.persisted = ver.state + 1,
                                    !.durable = ver.state + 1]
             next == [i EXCEPT !.at = "register"]
  <2>1. ver \in Versions /\ adopted \in Versions /\ next \in Loads /\ i \in Loads
    <3>1. ver \in Versions /\ ver.state + 1 \in Nat
      BY DEF PersistTypeOK, Versions
    <3>2. adopted \in Versions
      BY <3>1 DEF Versions
    <3>3. i \in Loads
      BY <1>0
    <3>4. next \in Loads
      BY <3>3
    <3> QED
      BY <3>1, <3>2, <3>3, <3>4
  <2>2. /\ cache' = cache \/ cache' = i.got
        /\ ver' = ver \/ ver' = adopted
        /\ identity' \in {identity, "ready", "none"}
        /\ inits' = inits \ {i} \/ inits' = (inits \ {i}) \cup {next}
    BY <1>3 DEF InitLoaded
  <2> HIDE DEF adopted, next
  <2>3. ver' \in Versions /\ inits' \subseteq Loads /\ cache' \in State \cup {NoState}
        /\ identity' \in {"none", "pending", "ready"}
    BY <1>0, <2>1, <2>2 DEF PersistTypeOK
  <2> QED
    BY <1>3, <2>3 DEF InitLoaded, PersistTypeOK, Versions, SaveShape, HolderShape, rustVars, lockVars, boundVars
<1>4. ASSUME NEW i \in inits, InitRegistered(i) PROVE PersistShape'
  <2> DEFINE job == [work |-> <<"identity", made + 1>>, of |-> i.of, gen |-> gen]
  <2>1. i.of \in Account /\ made \in Nat /\ queue \in Seq(Job)
    BY <1>0 DEF PersistTypeOK, Job
  <2>2. made < MaxJobs => job \in Job
    BY <1>0, <2>1, WorkMade DEF Job
  <2>3. /\ inits' \subseteq Loads
        /\ \/ queue' = queue /\ made' = made
           \/ made < MaxJobs /\ queue' = Append(queue, job) /\ made' = made + 1
        /\ identity' \in {identity, "none"}
    <3>1. i.gen # gen \/ made >= MaxJobs \/ made < MaxJobs
      BY <2>1, PersistBounds
    <3>2. inits' = inits \ {i}
      BY <1>4 DEF InitRegistered
    <3>3. CASE i.gen # gen \/ made >= MaxJobs
      <4>1. UNCHANGED <<queue, made>> /\ identity' = IF i.gen = gen THEN "none" ELSE identity
        BY <1>4, <3>3 DEF InitRegistered
      <4>2. inits' \subseteq Loads
        BY <1>0, <3>2
      <4>3. queue' = queue /\ made' = made /\ identity' \in {identity, "none"}
        BY <4>1
      <4> QED
        BY <4>2, <4>3
    <3>4. CASE ~(i.gen # gen \/ made >= MaxJobs)
      <4>1. made' = made + 1 /\ queue' = Append(queue, job) /\ UNCHANGED identity
        BY <1>4, <3>4 DEF InitRegistered
      <4> QED
        BY <1>0, <3>1, <3>2, <3>4, <4>1
    <3> QED
      BY <3>3, <3>4
  <2> HIDE DEF job
  <2>4. queue' \in Seq(Job) /\ made' \in Nat
    <3>1. CASE queue' = queue /\ made' = made
      BY <2>1, <3>1
    <3>2. CASE made < MaxJobs /\ queue' = Append(queue, job) /\ made' = made + 1
      <4>1. job \in Job
        BY <2>2, <3>2
      <4> QED
        BY <2>1, <3>2, <4>1
    <3> QED
      BY <2>3, <3>1, <3>2
  <2>5. identity' \in {"none", "pending", "ready"}
    BY <2>3 DEF PersistTypeOK
  <2> QED
    BY <1>4, <2>3, <2>4, <2>5 DEF InitRegistered, PersistTypeOK, Job, SaveShape, HolderShape, rustVars
<1> QED
  BY <1>1, <1>2, <1>3, <1>4

LEMMA CommitKeepsType ==
  ASSUME PersistShape, NEW s \in State, NEW wait \in BOOLEAN, CommitState(s, wait)
  PROVE  cache' = s /\ ver' \in Versions /\ save' \in Save /\ SaveShape'
<1> DEFINE v == [ver EXCEPT !.state = @ + 1]
<1>0. ver \in Versions /\ save \in Save
  BY DEF PersistShape, PersistTypeOK, Versions
<1>1. ver \in Versions /\ v \in Versions /\ save \in Save
  BY <1>0 DEF Versions
<1>2. cache' = s /\ SchedulePersist(s, v)
      /\ ver' = IF wait THEN [v EXCEPT !.wanted = Larger(@, v.state)] ELSE v
  BY DEF CommitState
<1> HIDE DEF v
<1>3. ver' \in Versions
  BY <1>1, <1>2, LargerIsNat DEF Versions
<1>4. save' \in Save /\ SaveShape'
  BY <1>1, <1>2, NextSaveFits DEF SchedulePersist, SaveShape, PersistShape
<1> QED
  BY <1>2, <1>3, <1>4

LEMMA TakeKeepsType ==
  ASSUME NEW j \in Job, NEW stage \in Stage, NEW base \in State, ver' \in Versions,
         Take(j, stage, base), stage \in {"base", "sent"} => Kind(j.work) = "commit"
  PROVE  holder' \in Holder /\ HolderShape'
BY DEF Take, Job, Holder, HolderShape, Versions

LEMMA PerformKeepsType ==
  ASSUME PersistShape, NEW j \in Job, NEW base \in State, Perform(j, base),
         Kind(j.work) # "identity" => base = cache
  PROVE  /\ cache' \in State \cup {NoState} /\ ver' \in Versions /\ save' \in Save /\ SaveShape'
         /\ holder' \in Holder /\ HolderShape'
         /\ released' \subseteq [of: Account, from: Account, needs: SUBSET Work, generation: SUBSET Nat]
<1>0. /\ j.work \in Work /\ j.of \in Account /\ With(base, j.work) \in State /\ ver \in Versions
      /\ save \in Save /\ PersistTypeOK /\ HolderShape /\ SaveShape
  BY WithAdds DEF Job, PersistShape, PersistTypeOK, Versions
<1>1. CASE Kind(j.work) = "decrypt"
  <2>1. CommitState(With(base, j.work), FALSE) /\ UNCHANGED <<holder, released>>
    BY <1>1 DEF Perform
  <2> QED
    BY <1>0, <2>1, CommitKeepsType DEF PersistTypeOK, HolderShape
<1>2. CASE Kind(j.work) = "commit"
  <2> DEFINE w == IF ver.durable >= ver.state THEN ver.wanted ELSE Larger(ver.wanted, ver.state)
             v == [ver EXCEPT !.wanted = w]
  <2>1. /\ cache' = cache /\ ver' = v /\ SchedulePersist(cache, v)
        /\ \/ Take(j, "sent", base) /\ Release(j, base, {})
           \/ Take(j, "base", base) /\ UNCHANGED released
    BY <1>2 DEF Perform
  <2>2. v \in Versions
    BY <1>0, LargerIsNat DEF Versions
  <2> HIDE DEF v
  <2>3. save' \in Save /\ SaveShape'
    BY <1>0, <2>1, <2>2, NextSaveFits DEF SchedulePersist, SaveShape, PersistTypeOK
  <2>4. holder' \in Holder /\ HolderShape'
    BY <1>2, <2>1, <2>2, TakeKeepsType DEF Stage
  <2>5. released' \subseteq [of: Account, from: Account, needs: SUBSET Work, generation: SUBSET Nat]
    BY <1>0, <2>1, ReleaseKeepsType DEF PersistTypeOK
  <2> QED
    BY <1>0, <2>1, <2>2, <2>3, <2>4, <2>5 DEF PersistTypeOK
<1>3. CASE Kind(j.work) \notin {"decrypt", "commit"}
  <2>1. /\ CommitState(With(base, j.work), TRUE) /\ Take(j, "durable", base)
        /\ UNCHANGED released
    BY <1>3 DEF Perform
  <2>2. cache' \in State /\ ver' \in Versions /\ save' \in Save /\ SaveShape'
    BY <1>0, <2>1, CommitKeepsType
  <2>3. holder' \in Holder /\ HolderShape'
    BY <2>1, <2>2, TakeKeepsType DEF Stage
  <2> QED
    BY <1>0, <2>1, <2>2, <2>3 DEF PersistTypeOK
<1> QED
  BY <1>1, <1>2, <1>3

LEMMA QueueParts ==
  ASSUME PersistTypeOK
  PROVE  /\ queue \in Seq(Job)
         /\ \A k \in DOMAIN queue : queue[k] \in Job
         /\ queue # <<>> => /\ Head(queue) = queue[1] /\ 1 \in DOMAIN queue /\ Tail(queue) \in Seq(Job)
                            /\ \A k \in DOMAIN Tail(queue) : k + 1 \in DOMAIN queue
                                                             /\ Tail(queue)[k] = queue[k + 1]
<1>1. queue \in Seq(Job)
  BY DEF PersistTypeOK, Job
<1>2. \A k \in DOMAIN queue : queue[k] \in Job
  BY <1>1
<1>3. ASSUME queue # <<>>
      PROVE  /\ Head(queue) = queue[1] /\ 1 \in DOMAIN queue /\ Tail(queue) \in Seq(Job)
             /\ \A k \in DOMAIN Tail(queue) : k + 1 \in DOMAIN queue /\ Tail(queue)[k] = queue[k + 1]
  <2>1. Len(queue) \in Nat /\ Len(queue) # 0 /\ DOMAIN queue = 1..Len(queue)
    BY <1>1, <1>3
  <2>2. Tail(queue) \in Seq(Job) /\ Len(Tail(queue)) = Len(queue) - 1
        /\ DOMAIN Tail(queue) = 1..Len(Tail(queue))
    BY <1>1, <1>3
  <2>3. ASSUME NEW k \in DOMAIN Tail(queue)
        PROVE  k + 1 \in DOMAIN queue /\ Tail(queue)[k] = queue[k + 1]
    BY <1>1, <1>3, <2>1, <2>2
  <2> QED
    BY <1>1, <1>3, <2>1, <2>2, <2>3
<1> QED
  BY <1>1, <1>2, <1>3

LEMMA StartWorkKeepsType ==
  ASSUME PersistShape, StartWork
  PROVE  PersistShape'
<1> DEFINE j == Head(queue)
           base == IF Kind(j.work) = "identity" THEN [of |-> j.of, did |-> {}] ELSE CurrentState
<1>1. PersistTypeOK /\ j \in Job /\ queue' \in Seq(Job)
  BY QueueParts DEF StartWork, PersistShape
<1>2. /\ cache' \in State \cup {NoState} /\ ver' \in Versions /\ save' \in Save /\ SaveShape'
      /\ holder' \in Holder /\ HolderShape' /\ identity' \in {"none", "pending", "ready"}
      /\ released' \subseteq [of: Account, from: Account, needs: SUBSET Work, generation: SUBSET Nat]
  <2>1. CASE Runs(j) /\ (Kind(j.work) = "identity" \/ CurrentState # NoState)
    <3>1. Perform(j, base) /\ UNCHANGED identity
      BY <2>1 DEF StartWork
    <3>2. base \in State /\ (Kind(j.work) # "identity" => base = cache)
      BY <1>1, <2>1 DEF PersistTypeOK, CurrentState, State, Job
    <3> HIDE DEF j, base
    <3> QED
      BY <1>1, <3>1, <3>2, PerformKeepsType DEF PersistTypeOK
  <2>2. CASE ~(Runs(j) /\ (Kind(j.work) = "identity" \/ CurrentState # NoState))
    <3>1. IdentitySettles(j, FALSE) /\ UNCHANGED <<ver, save, holder, released>>
      BY <2>2 DEF StartWork
    <3> HIDE DEF j, base
    <3> QED
      BY <1>1, <3>1, SettlesKeepType DEF PersistShape, PersistTypeOK, HolderShape, SaveShape, Versions
  <2> QED
    BY <2>1, <2>2
<1> HIDE DEF j, base
<1> QED
  BY <1>1, <1>2 DEF StartWork, PersistShape, PersistTypeOK, Versions, Job, rustVars, boundVars

LEMMA AnswerKeepsType ==
  ASSUME PersistShape, NEW accepted \in BOOLEAN, Answer(accepted), persistFaults' \in Nat
  PROVE  PersistShape'
<1>0. /\ PersistTypeOK /\ holder \in Holder /\ holder.base \in State /\ holder.of \in Account
      /\ holder.work \in Work /\ Free \in Holder /\ Free.at = "free"
      /\ With(holder.base, holder.work) \in State
  BY WithAdds DEF Answer, PersistShape, PersistTypeOK, HolderShape, Free, Holder, Stage
<1>1. /\ cache' \in State \cup {NoState} /\ ver' \in Versions /\ save' \in Save /\ SaveShape'
      /\ holder' \in Holder /\ HolderShape'
  <2>1. CASE accepted /\ holder.gen = gen /\ cache = holder.base
    <3>1. /\ CommitState(With(holder.base, holder.work), TRUE)
          /\ holder' = [holder EXCEPT !.at = "durable", !.version = ver'.state]
      BY <2>1 DEF Answer
    <3>2. cache' \in State /\ ver' \in Versions /\ save' \in Save /\ SaveShape'
      BY <1>0, <3>1, CommitKeepsType
    <3>3. holder' \in Holder /\ HolderShape'
      BY <1>0, <3>1, <3>2 DEF Holder, HolderShape, Stage, Versions
    <3> QED
      BY <3>2, <3>3
  <2>2. CASE ~(accepted /\ holder.gen = gen /\ cache = holder.base)
    BY <1>0, <2>2 DEF Answer, PersistShape, PersistTypeOK, HolderShape, SaveShape, Versions
  <2> QED
    BY <2>1, <2>2
<1> QED
  BY <1>0, <1>1 DEF Answer, PersistShape, PersistTypeOK, Versions, rustVars

LEMMA RestKeepsType ==
  ASSUME PersistShape,
         (\E a \in Account : SignIn(a)) \/ UiFollows \/ (\E kind \in {"crash", "reload"} : Restart(kind))
           \/ (\E kind \in {"decrypt", "encrypt", "commit"} : Call(kind))
  PROVE  PersistShape'
<1> USE DEF PersistShape
<1>1. CASE \E a \in Account : SignIn(a)
  BY <1>1 DEF SignIn, PersistTypeOK, HolderShape, SaveShape, pageVars, lockVars
<1>2. CASE UiFollows
  BY <1>2 DEF UiFollows, PersistTypeOK, HolderShape, SaveShape, pageVars, lockVars, rustVars, boundVars
<1>3. ASSUME NEW kind \in {"crash", "reload"}, Restart(kind) PROVE PersistShape'
  <2>1. NoSave \in Save /\ Free \in Holder /\ Start \in Versions /\ NoSave.at = "idle" /\ Free.at = "free"
    BY DEF NoSave, Save, Free, Holder, Stage, Start, Versions
  <2>2. <<>> \in Seq(Job) /\ persistFaults' \in Nat /\ 0 \in Nat
    BY <1>3 DEF Restart, PersistFault, PersistTypeOK
  <2> QED
    BY <1>3, <2>1, <2>2 DEF Restart, PersistTypeOK, HolderShape, SaveShape, Versions, Job
<1>4. ASSUME NEW kind \in {"decrypt", "encrypt", "commit"}, Call(kind) PROVE PersistShape'
  <2> DEFINE job == [work |-> <<kind, made + 1>>, of |-> ui, gen |-> gen]
  <2>1. job \in Job /\ queue \in Seq(Job) /\ made + 1 \in Nat
    BY <1>4, WorkMade DEF Call, Job, PersistTypeOK
  <2>2. queue' = Append(queue, job)
    BY <1>4 DEF Call
  <2> HIDE DEF job
  <2>3. queue' \in Seq(Job)
    BY <2>1, <2>2
  <2> QED
    BY <1>4, <2>1, <2>3 DEF Call, PersistTypeOK, Job, HolderShape, SaveShape, rustVars, pageVars
<1> QED
  BY <1>1, <1>2, <1>3, <1>4

LEMMA ShapeStep ==
  ASSUME PersistShape, [PersistNext]_persistVars
  PROVE  PersistShape'
<1>1. CASE UNCHANGED persistVars
  BY <1>1 DEF persistVars, PersistShape, PersistTypeOK, HolderShape, SaveShape
<1>2. CASE PersistNext
  <2>1. ASSUME ServerAccepts \/ ServerRejects PROVE PersistShape'
    <3>1. persistFaults' \in Nat /\ (Answer(TRUE) \/ Answer(FALSE))
      <4>1. persistFaults \in Nat
        BY DEF PersistShape, PersistTypeOK
      <4>2. persistFaults' = persistFaults \/ persistFaults' = persistFaults + 1
        BY <2>1 DEF ServerAccepts, ServerRejects, PersistFault
      <4>3. Answer(TRUE) \/ Answer(FALSE)
        BY <2>1 DEF ServerAccepts, ServerRejects
      <4>4. persistFaults' \in Nat
        BY <4>1, <4>2
      <4> QED
        BY <4>3, <4>4
    <3> QED
      BY <3>1, AnswerKeepsType
  <2> QED
    BY <1>2, <2>1, SavesKeepType, RustKeepsType, IdentityKeepsType, StartWorkKeepsType, RestKeepsType
       DEF PersistNext
<1> QED
  BY <1>1, <1>2

\* Every reachable state of the window's memory is well typed, and lock work that runs has the
\* state and the account it works on.
THEOREM PersistTypeCorrect == PersistSpec => [](PersistTypeOK /\ PersistShape)
<1>1. PersistInit => PersistShape
  BY PersistInitTyped
<1>2. PersistShape /\ [PersistNext]_persistVars => PersistShape'
  BY ShapeStep
<1>3. PersistShape => PersistTypeOK /\ PersistShape
  BY DEF PersistShape
<1> QED
  BY <1>1, <1>2, <1>3, PTL DEF PersistSpec

-----------------------------------------------------------------------------
\* Whoever acts for the window's present session acts for its account; one init at most loads or
\* registers for it, and until its state is there the window has none.
Registering(k) == Kind(queue[k].work) = "identity" /\ queue[k].gen = gen
InitsFit == \A i \in inits :
    i.gen <= gen /\ (i.gen = gen => i.of = bound /\ identity = "pending" /\ cache = NoState)
OneLoads == \A i, j \in inits : i.gen = gen /\ j.gen = gen => i = j
QueueFits == \A k \in DOMAIN queue :
    queue[k].gen <= gen /\ (queue[k].gen = gen => queue[k].of = bound)
OneRegisters == \A k \in DOMAIN queue : Registering(k) =>
    /\ identity = "pending" /\ cache = NoState
    /\ \A i \in inits : i.gen # gen
    /\ \A l \in DOMAIN queue : Registering(l) => k = l
\* The lock holder has read the window's state, and nobody replaces it while it waits.
HolderFits ==
    /\ holder.at # "free" =>
         /\ holder.gen <= gen /\ (holder.gen = gen => holder.of = bound)
         /\ holder.base.of = holder.of
    /\ Waits(holder) =>
         /\ holder.gen = gen
         /\ cache = IF holder.at = "base" THEN holder.base ELSE With(holder.base, holder.work)
         /\ Kind(holder.work) = "identity" =>
               identity = "pending" /\ \A k \in DOMAIN queue : ~Registering(k)
ClaimInv == InitsFit /\ OneLoads /\ QueueFits /\ OneRegisters /\ HolderFits /\ StatesStayHome

LEMMA ClaimTypes ==
  ASSUME PersistShape
  PROVE  /\ gen \in Nat /\ gen + 1 \in Nat /\ gen < gen + 1
         /\ \A i \in inits : i.gen \in Nat /\ i.of \in Account
         /\ \A k \in DOMAIN queue : queue[k].gen \in Nat /\ queue[k].of \in Account
         /\ holder.gen \in Nat /\ NoAccount \notin Account
         /\ bound \in Account \cup {NoAccount} /\ ui \in Account
         /\ holder.at # "free" => /\ holder.base # NoState /\ holder.base \in State
                                  /\ With(holder.base, holder.work) # NoState
                                  /\ With(holder.base, holder.work).of = holder.base.of
<1>1. gen \in Nat /\ gen + 1 \in Nat /\ gen < gen + 1 /\ bound \in Account \cup {NoAccount} /\ ui \in Account
  BY DEF PersistShape, PersistTypeOK
<1>2. \A i \in inits : i.gen \in Nat /\ i.of \in Account
  BY DEF PersistShape, PersistTypeOK
<1>3. \A k \in DOMAIN queue : queue[k].gen \in Nat /\ queue[k].of \in Account
  BY QueueParts DEF Job, PersistShape
<1>4. holder.gen \in Nat
  BY DEF PersistShape, PersistTypeOK, Holder
<1>5. holder.at # "free" => /\ holder.base # NoState /\ holder.base \in State
                            /\ With(holder.base, holder.work) # NoState
                            /\ With(holder.base, holder.work).of = holder.base.of
  BY WithAdds, PersistNoState DEF PersistShape, HolderShape
<1> QED
  BY <1>1, <1>2, <1>3, <1>4, <1>5, PersistAccounts

LEMMA ClaimInit == PersistInit => ClaimInv
BY DEF PersistInit, ClaimInv, InitsFit, OneLoads, QueueFits, OneRegisters, HolderFits, StatesStayHome,
       Free, Waits

\* What is on disk stays at home whether it was flushed or saved.
LEMMA FlushedHome ==
  ASSUME PersistTypeOK, StatesStayHome
  PROVE  \A a \in Account : Flushed[a] # NoState => Flushed[a].of = a
BY DEF PersistTypeOK, StatesStayHome, Flushed, State

\* Steps that leave the session, the lock and the identity alone.
LEMMA DiskKeepsClaims ==
  ASSUME PersistShape, ClaimInv, RustSaves \/ Flush \/ UiFollows \/ \E a \in Account : SignIn(a)
  PROVE  ClaimInv'
<1>1. /\ UNCHANGED <<gen, bound, cache, identity, queue, holder, inits, released>>
      /\ disk' = disk \/ disk' = Flushed \/ (save.at = "sent" /\ owner = save.bytes.of
                                             /\ disk' = [disk EXCEPT ![owner] = save.bytes])
  BY DEF RustSaves, Flush, UiFollows, SignIn, pageVars, lockVars, rustVars
<1>2. /\ save.at = "sent" => save.bytes.of \in Account
      /\ disk \in [Account -> State \cup {NoState}]
  BY DEF PersistShape, SaveShape, State, PersistTypeOK
<1>3. StatesStayHome'
  BY <1>1, <1>2, FlushedHome DEF StatesStayHome, ClaimInv, PersistShape
<1> QED
  BY <1>1, <1>3 DEF ClaimInv, InitsFit, OneLoads, QueueFits, OneRegisters, HolderFits, Registering, Waits

LEMMA LoadsKeepClaims ==
  ASSUME PersistShape, ClaimInv, NEW i \in inits, RustLoads(i)
  PROVE  ClaimInv'
<1>1. /\ UNCHANGED <<gen, bound, cache, identity, queue, holder, released>>
      /\ disk' = disk \/ disk' = Flushed
  BY DEF RustLoads, pageVars, lockVars
<1>2. PICK j : /\ inits' = (inits \ {i}) \cup {j}
               /\ j.gen = i.gen /\ j.of = i.of
  <2> DEFINE at == IF Flushed[session] = NoState THEN "fresh" ELSE "loaded"
             read == [i EXCEPT !.at = at, !.got = Flushed[session]]
             failed == [i EXCEPT !.at = "failed"]
  <2>1. /\ read.gen = i.gen /\ read.of = i.of
        /\ failed.gen = i.gen /\ failed.of = i.of
    BY DEF PersistShape, PersistTypeOK
  <2>2. inits' = (inits \ {i}) \cup {read} \/ inits' = (inits \ {i}) \cup {failed}
    BY DEF RustLoads
  <2> HIDE DEF read, failed
  <2> QED
    BY <2>1, <2>2
<1>3. InitsFit' /\ OneLoads'
  BY <1>1, <1>2 DEF ClaimInv, InitsFit, OneLoads
<1>4. OneRegisters'
  BY <1>1, <1>2 DEF ClaimInv, OneRegisters, Registering
<1>5. StatesStayHome'
  BY <1>1, FlushedHome DEF ClaimInv, StatesStayHome, PersistShape
<1> QED
  BY <1>1, <1>3, <1>4, <1>5 DEF ClaimInv, QueueFits, HolderFits, Registering, Waits

LEMMA ResetKeepsClaims ==
  ASSUME PersistShape, ClaimInv, NEW a, ResetForUser(a), UNCHANGED <<queue, disk, released>>,
         inits' \subseteq inits \cup {NewInit(a, gen + 1)},
         NewInit(a, gen + 1) \in inits' => identity' = "pending"
  PROVE  ClaimInv'
<1>1. gen' = gen + 1 /\ bound' = a /\ cache' = NoState
      /\ ((holder' = holder /\ ~Waits(holder)) \/ holder' = Free)
  BY DEF ResetForUser
<1>2. NewInit(a, gen + 1).gen = gen + 1 /\ NewInit(a, gen + 1).of = a
  BY DEF NewInit
<1>3. /\ \A i \in inits : i.gen <= gen /\ i.gen \in Nat
      /\ \A k \in DOMAIN queue : queue[k].gen <= gen /\ queue[k].gen \in Nat
  BY ClaimTypes DEF ClaimInv, InitsFit, QueueFits
<1>4. InitsFit' /\ OneLoads'
  BY <1>1, <1>2, <1>3, ClaimTypes DEF InitsFit, OneLoads
<1>5. QueueFits' /\ OneRegisters'
  BY <1>1, <1>3, ClaimTypes DEF QueueFits, OneRegisters, Registering
<1>6. HolderFits'
  BY <1>1, ClaimTypes DEF ClaimInv, HolderFits, Free, Waits
<1>7. StatesStayHome'
  BY <1>1 DEF ClaimInv, StatesStayHome
<1> QED
  BY <1>4, <1>5, <1>6, <1>7 DEF ClaimInv

\* Registration done: nobody else was loading or registering.
LEMMA NobodyElse ==
  ASSUME PersistShape, ClaimInv, Waits(holder)
  PROVE  /\ holder.gen = gen /\ cache # NoState /\ holder.base.of = holder.of /\ holder.of = bound
         /\ cache.of = bound
         /\ \A i \in inits : i.gen # gen
         /\ \A k \in DOMAIN queue : ~Registering(k)
BY ClaimTypes DEF ClaimInv, HolderFits, InitsFit, OneRegisters, StatesStayHome, Waits

LEMMA SavesKeepClaims ==
  ASSUME PersistShape, ClaimInv, SaveSucceeded \/ SaveFailed \/ SaveRefused
  PROVE  ClaimInv'
<1>1. CASE SaveSucceeded
  <2>1. UNCHANGED <<gen, bound, queue, inits, disk>>
    BY <1>1 DEF SaveSucceeded, rustVars
  <2>2. CASE ~Settled(holder, ver')
    BY <1>1, <2>1, <2>2
       DEF SaveSucceeded, ClaimInv, InitsFit, OneLoads, QueueFits, OneRegisters, HolderFits, Registering,
           StatesStayHome, Waits
  <2>3. CASE Settled(holder, ver')
    <3>1. Waits(holder) /\ Resume(holder)
      BY <1>1, <2>3 DEF SaveSucceeded, Settled
    <3>2. /\ cache' = cache
          /\ holder' = Free \/ (holder' = [holder EXCEPT !.at = "sent"])
          /\ \/ released' = released
             \/ \E n, g : released' = released \cup {[of |-> holder.of, from |-> bound,
                                                      needs |-> n, generation |-> g]}
      <4>1. CASE holder.at = "base"
        BY <3>1, <4>1, NobodyElse DEF Resume, Release
      <4>2. CASE holder.at = "durable" /\ Kind(holder.work) = "encrypt"
        <5>1. With(holder.base, holder.work).of = bound
          BY <3>1, NobodyElse, ClaimTypes, <4>2
        <5> QED
          BY <3>1, <4>2, <5>1 DEF Resume, Release
      <4>3. CASE holder.at = "durable" /\ Kind(holder.work) # "encrypt"
        BY <3>1, <4>3 DEF Resume, IdentitySettles
      <4> QED
        BY <3>1, <4>1, <4>2, <4>3 DEF Waits
    <3>3. InitsFit' /\ OneLoads' /\ QueueFits' /\ OneRegisters'
      BY <2>1, <3>1, <3>2, NobodyElse
         DEF ClaimInv, InitsFit, OneLoads, QueueFits, OneRegisters, Registering
    <3>4. HolderFits'
      <4>1. ~Waits(holder')
        BY <3>2 DEF Waits, Free, PersistShape, PersistTypeOK, Holder
      <4>2. CASE holder' = Free
        BY <4>1, <4>2 DEF HolderFits, Free
      <4>3. CASE holder' = [holder EXCEPT !.at = "sent"]
        <5>1. holder'.gen = holder.gen /\ holder'.of = holder.of /\ holder'.base = holder.base
          BY <4>3 DEF PersistShape, PersistTypeOK, Holder
        <5> QED
          BY <2>1, <3>1, <4>1, <5>1, NobodyElse, ClaimTypes DEF HolderFits
      <4> QED
        BY <3>2, <4>2, <4>3
    <3>5. StatesStayHome'
      BY <2>1, <3>1, <3>2, NobodyElse DEF ClaimInv, StatesStayHome
    <3> QED
      BY <3>3, <3>4, <3>5 DEF ClaimInv
  <2> QED
    BY <2>2, <2>3
<1>2. CASE SaveFailed
  <2>1. UNCHANGED <<gen, bound, queue, inits, disk, released>>
    BY <1>2 DEF SaveFailed, rustVars
  <2>2. CASE ~Waits(holder)
    BY <1>2, <2>1, <2>2
       DEF SaveFailed, ClaimInv, InitsFit, OneLoads, QueueFits, OneRegisters, HolderFits, Registering,
           StatesStayHome, Waits
  <2>3. CASE Waits(holder)
    <3>1. holder' = Free /\ cache' \in {cache, NoState}
      BY <1>2, <2>3 DEF SaveFailed, IdentitySettles
    <3> QED
      BY <2>1, <2>3, <3>1, NobodyElse
         DEF ClaimInv, InitsFit, OneLoads, QueueFits, OneRegisters, HolderFits, Registering,
             StatesStayHome, Waits, Free
  <2> QED
    BY <2>2, <2>3
<1>3. CASE SaveRefused
  <2>1. /\ ResetForUser(NoAccount) /\ UNCHANGED <<queue, disk, released>> /\ inits' = inits
        /\ \A i \in inits : i.gen <= gen
    BY <1>3 DEF SaveRefused, rustVars, ClaimInv, InitsFit
  <2>2. NewInit(NoAccount, gen + 1) \notin inits'
    BY <2>1, ClaimTypes DEF NewInit
  <2> QED
    BY <2>1, <2>2, ResetKeepsClaims
<1> QED
  BY <1>1, <1>2, <1>3

LEMMA SwitchKeepsClaims ==
  ASSUME PersistShape, ClaimInv, SwitchAccount
  PROVE  ClaimInv'
BY ResetKeepsClaims DEF SwitchAccount, rustVars

LEMMA StartKeepsClaims ==
  ASSUME PersistShape, ClaimInv, StartInit
  PROVE  ClaimInv'
<1>1. /\ UNCHANGED <<gen, cache, holder, queue, disk, released>>
      /\ bound' = ui /\ identity' = "pending" /\ identity = "none" /\ cache = NoState
      /\ bound \in {NoAccount, ui} /\ inits' = inits \cup {NewInit(ui, gen)}
  BY DEF StartInit, rustVars, lockVars
<1>2. NewInit(ui, gen).gen = gen /\ NewInit(ui, gen).of = ui
  BY DEF NewInit
<1>3. \A i \in inits : i.gen <= gen /\ i.gen # gen
  BY <1>1 DEF ClaimInv, InitsFit
<1>4. \A k \in DOMAIN queue : ~Registering(k)
  BY <1>1 DEF ClaimInv, OneRegisters
<1>5. InitsFit' /\ OneLoads'
  BY <1>1, <1>2, <1>3, ClaimTypes DEF InitsFit, OneLoads
<1>6. QueueFits' /\ OneRegisters'
  BY <1>1, <1>4, ClaimTypes DEF ClaimInv, QueueFits, OneRegisters, Registering
<1>7. HolderFits'
  <2>1. ~Waits(holder)
    BY <1>1, ClaimTypes DEF ClaimInv, HolderFits, Waits
  <2>2. holder.at # "free" /\ holder.gen = gen => holder.of = ui
    <3>1. holder.at # "free" => holder.of \in Account
      BY DEF PersistShape, HolderShape
    <3> QED
      BY <1>1, <3>1, ClaimTypes DEF ClaimInv, HolderFits
  <2> QED
    BY <1>1, <2>1, <2>2 DEF ClaimInv, HolderFits, Waits
<1>8. StatesStayHome'
  BY <1>1 DEF ClaimInv, StatesStayHome
<1> QED
  BY <1>5, <1>6, <1>7, <1>8 DEF ClaimInv

\* An init that is over for the present session leaves nobody else loading or registering.
LEMMA InitAlone ==
  ASSUME PersistShape, ClaimInv, NEW i \in inits, i.gen = gen
  PROVE  /\ cache = NoState /\ i.of = bound /\ identity = "pending" /\ bound \in Account
         /\ \A j \in inits \ {i} : j.gen # gen
         /\ \A k \in DOMAIN queue : ~Registering(k)
         /\ ~Waits(holder)
<1>1. cache = NoState /\ i.of = bound /\ identity = "pending" /\ bound \in Account
      /\ \A j \in inits \ {i} : j.gen # gen
  BY ClaimTypes DEF ClaimInv, InitsFit, OneLoads
<1>2. \A k \in DOMAIN queue : ~Registering(k)
  BY DEF ClaimInv, OneRegisters
<1>3. ~Waits(holder)
  BY <1>1, ClaimTypes DEF ClaimInv, HolderFits, Waits
<1> QED
  BY <1>1, <1>2, <1>3

LEMMA LoadedKeepsClaims ==
  ASSUME PersistShape, ClaimInv, NEW i \in inits, InitLoaded(i)
  PROVE  ClaimInv'
<1> DEFINE next == [i EXCEPT !.at = "register"]
           usable == i.gen = gen /\ i.at = "loaded" /\ i.got.of = i.of
<1>1. UNCHANGED <<gen, bound, holder, queue, disk, released>>
  BY DEF InitLoaded, rustVars, lockVars
<1>2. CASE i.gen # gen
  <2>1. inits' = inits \ {i} /\ UNCHANGED <<cache, identity>>
    BY <1>2 DEF InitLoaded
  <2> QED
    BY <1>1, <2>1 DEF ClaimInv, InitsFit, OneLoads, QueueFits, OneRegisters, HolderFits, Registering,
                      StatesStayHome, Waits
<1>3. CASE i.gen = gen /\ i.at = "fresh"
  <2>1. inits' = (inits \ {i}) \cup {next} /\ UNCHANGED <<cache, identity>>
    BY <1>3 DEF InitLoaded
  <2>2. next.gen = i.gen /\ next.of = i.of
    BY DEF PersistShape, PersistTypeOK
  <2> HIDE DEF next
  <2> QED
    BY <1>1, <1>3, <2>1, <2>2, InitAlone
       DEF ClaimInv, InitsFit, OneLoads, QueueFits, OneRegisters, HolderFits, Registering,
           StatesStayHome, Waits
<1>4. CASE i.gen = gen /\ i.at # "fresh"
  <2>1. /\ inits' = inits \ {i}
        /\ cache' = IF usable THEN i.got ELSE cache
    BY <1>4 DEF InitLoaded
  <2>2. cache' # NoState => cache'.of = bound
    BY <1>4, <2>1, InitAlone
  <2>3. InitsFit' /\ OneLoads'
    BY <1>1, <1>4, <2>1, InitAlone DEF ClaimInv, InitsFit, OneLoads
  <2>4. QueueFits' /\ OneRegisters'
    BY <1>1, <1>4, <2>1, InitAlone DEF ClaimInv, QueueFits, OneRegisters, Registering
  <2>5. HolderFits'
    BY <1>1, <1>4, InitAlone DEF ClaimInv, HolderFits, Waits
  <2>6. StatesStayHome'
    BY <1>1, <2>2 DEF ClaimInv, StatesStayHome
  <2> QED
    BY <2>3, <2>4, <2>5, <2>6 DEF ClaimInv
<1> QED
  BY <1>2, <1>3, <1>4

LEMMA AppendParts ==
  ASSUME PersistTypeOK, NEW j \in Job
  PROVE  /\ DOMAIN Append(queue, j) = DOMAIN queue \cup {Len(queue) + 1}
         /\ Len(queue) + 1 \notin DOMAIN queue
         /\ Append(queue, j)[Len(queue) + 1] = j
         /\ \A k \in DOMAIN queue : Append(queue, j)[k] = queue[k]
<1>1. queue \in Seq(Job) /\ Len(queue) \in Nat /\ DOMAIN queue = 1..Len(queue)
  BY QueueParts
<1> QED
  BY <1>1

\* A job is queued by a session whose state is there, or by the one init that registers.
LEMMA QueueKeepsClaims ==
  ASSUME PersistShape, ClaimInv, NEW j \in Job, j.gen = gen, j.of = bound,
         queue' = Append(queue, j), inits' \subseteq inits,
         UNCHANGED <<gen, bound, cache, identity, holder, disk, released>>,
         Kind(j.work) = "identity" =>
            /\ identity = "pending" /\ cache = NoState /\ ~Waits(holder)
            /\ \A i \in inits' : i.gen # gen
            /\ \A k \in DOMAIN queue : ~Registering(k)
  PROVE  ClaimInv'
<1>1. PICK n : /\ DOMAIN queue' = DOMAIN queue \cup {n} /\ n \notin DOMAIN queue /\ queue'[n] = j
               /\ \A k \in DOMAIN queue : queue'[k] = queue[k]
  BY AppendParts DEF PersistShape
<1>2. \A k \in DOMAIN queue : Registering(k)' <=> Registering(k)
  BY <1>1 DEF Registering
<1>3. Registering(n)' <=> Kind(j.work) = "identity"
  BY <1>1 DEF Registering
<1>4. InitsFit' /\ OneLoads' /\ StatesStayHome'
  BY DEF ClaimInv, InitsFit, OneLoads, StatesStayHome
<1>5. QueueFits'
  BY <1>1, ClaimTypes DEF ClaimInv, QueueFits
<1>6. OneRegisters'
  BY <1>1, <1>2, <1>3 DEF ClaimInv, OneRegisters
<1>7. HolderFits'
  BY <1>1, <1>2, <1>3 DEF ClaimInv, HolderFits, Waits
<1> QED
  BY <1>4, <1>5, <1>6, <1>7 DEF ClaimInv

LEMMA RegisteredKeepsClaims ==
  ASSUME PersistShape, ClaimInv, NEW i \in inits, InitRegistered(i)
  PROVE  ClaimInv'
<1> DEFINE job == [work |-> <<"identity", made + 1>>, of |-> i.of, gen |-> gen]
<1>1. UNCHANGED <<gen, bound, cache, holder, disk, released>> /\ inits' = inits \ {i}
  BY DEF InitRegistered, rustVars
<1>2. CASE i.gen # gen \/ made >= MaxJobs
  <2>1. UNCHANGED queue /\ identity' = IF i.gen = gen THEN "none" ELSE identity
    BY <1>2 DEF InitRegistered
  <2>2. CASE i.gen = gen
    BY <1>1, <2>1, <2>2, InitAlone
       DEF ClaimInv, InitsFit, OneLoads, QueueFits, OneRegisters, HolderFits, Registering,
           StatesStayHome, Waits
  <2>3. CASE i.gen # gen
    BY <1>1, <2>1, <2>3
       DEF ClaimInv, InitsFit, OneLoads, QueueFits, OneRegisters, HolderFits, Registering,
           StatesStayHome, Waits
  <2> QED
    BY <2>2, <2>3
<1>3. CASE ~(i.gen # gen \/ made >= MaxJobs)
  <2>1. queue' = Append(queue, job) /\ UNCHANGED identity /\ i.gen = gen
    BY <1>3 DEF InitRegistered
  <2>2. made \in Nat /\ made < MaxJobs /\ i.of = bound /\ bound \in Account /\ gen \in Nat
    BY <1>3, <2>1, InitAlone, ClaimTypes, PersistBounds DEF PersistShape, PersistTypeOK
  <2>3. job \in Job /\ Kind(job.work) = "identity" /\ job.gen = gen /\ job.of = bound
    BY <2>2, WorkMade DEF Job
  <2> HIDE DEF job
  <2> QED
    BY <1>1, <2>1, <2>3, InitAlone, QueueKeepsClaims
<1> QED
  BY <1>2, <1>3

LEMMA CallKeepsClaims ==
  ASSUME PersistShape, ClaimInv, NEW kind \in {"decrypt", "encrypt", "commit"}, Call(kind)
  PROVE  ClaimInv'
<1> DEFINE job == [work |-> <<kind, made + 1>>, of |-> ui, gen |-> gen]
<1>1. /\ queue' = Append(queue, job) /\ ui = bound /\ made < MaxJobs /\ inits' = inits
      /\ UNCHANGED <<gen, bound, cache, identity, holder, disk, released>>
  BY DEF Call, rustVars, pageVars
<1>2. made \in Nat /\ ui \in Account /\ gen \in Nat
  BY ClaimTypes DEF PersistShape, PersistTypeOK
<1>3. job \in Job /\ Kind(job.work) # "identity" /\ job.gen = gen /\ job.of = bound
  BY <1>1, <1>2, WorkMade DEF Job
<1> HIDE DEF job
<1> QED
  BY <1>1, <1>3, QueueKeepsClaims

LEMMA RestartKeepsClaims ==
  ASSUME PersistShape, ClaimInv, NEW kind \in {"crash", "reload"}, Restart(kind)
  PROVE  ClaimInv'
BY DEF Restart, ClaimInv, InitsFit, OneLoads, QueueFits, OneRegisters, HolderFits, Registering,
       StatesStayHome, Waits, Free

LEMMA AnswerKeepsClaims ==
  ASSUME PersistShape, ClaimInv, NEW accepted \in BOOLEAN, Answer(accepted)
  PROVE  ClaimInv'
<1>1. /\ UNCHANGED <<gen, bound, identity, queue, inits, disk, released>>
      /\ holder.at = "sent" /\ ~Waits(holder)
  BY DEF Answer, rustVars, Waits
<1>2. CASE accepted /\ holder.gen = gen /\ cache = holder.base
  <2>1. /\ cache' = With(holder.base, holder.work)
        /\ holder' = [holder EXCEPT !.at = "durable", !.version = ver'.state]
    BY <1>2 DEF Answer, CommitState
  <2>2. /\ holder'.at = "durable" /\ holder'.gen = gen /\ holder'.of = holder.of
        /\ holder'.base = holder.base /\ holder'.work = holder.work
    BY <1>2, <2>1 DEF PersistShape, PersistTypeOK, Holder
  <2>3. /\ cache # NoState /\ cache.of = bound /\ cache' # NoState /\ cache'.of = bound
        /\ holder.of = bound /\ holder.base.of = holder.of /\ Kind(holder.work) = "commit"
    BY <1>1, <1>2, <2>1, ClaimTypes DEF ClaimInv, HolderFits, StatesStayHome, PersistShape, HolderShape
  <2>4. InitsFit' /\ OneLoads' /\ QueueFits' /\ OneRegisters'
    BY <1>1, <2>3 DEF ClaimInv, InitsFit, OneLoads, QueueFits, OneRegisters, Registering
  <2>5. HolderFits'
    BY <1>1, <2>1, <2>2, <2>3, ClaimTypes DEF HolderFits, Waits
  <2>6. StatesStayHome'
    BY <1>1, <2>3 DEF ClaimInv, StatesStayHome
  <2> QED
    BY <2>4, <2>5, <2>6 DEF ClaimInv
<1>3. CASE ~(accepted /\ holder.gen = gen /\ cache = holder.base)
  <2>1. holder' = Free /\ UNCHANGED cache
    BY <1>3 DEF Answer
  <2> QED
    BY <1>1, <2>1
       DEF ClaimInv, InitsFit, OneLoads, QueueFits, OneRegisters, HolderFits, Registering,
           StatesStayHome, Waits, Free
<1> QED
  BY <1>2, <1>3

\* What a run of Perform does to the window's state and the lock.
LEMMA PerformDoes ==
  ASSUME PersistShape, NEW j \in Job, NEW base \in State, Perform(j, base), holder = Free,
         Kind(j.work) # "identity" => base = cache
  PROVE  \/ /\ Kind(j.work) = "decrypt" /\ cache' = With(base, j.work)
            /\ holder' = holder /\ released' = released
            /\ CommitState(With(base, j.work), FALSE)
         \/ /\ Kind(j.work) = "commit" /\ cache' = cache
            /\ Take(j, "sent", base) /\ Release(j, base, {}) /\ ver.durable >= ver.state
         \/ /\ Kind(j.work) = "commit" /\ cache' = cache
            /\ Take(j, "base", base) /\ released' = released /\ ~(ver.durable >= ver.state)
         \/ /\ Kind(j.work) \in {"encrypt", "identity"} /\ cache' = With(base, j.work)
            /\ Take(j, "durable", base) /\ released' = released
            /\ CommitState(With(base, j.work), TRUE)
<1>1. Kind(j.work) \in {"decrypt", "encrypt", "commit", "identity"}
  BY WorkParts DEF Job
<1>2. CASE Kind(j.work) = "decrypt"
  BY <1>2 DEF Perform, CommitState
<1>3. CASE Kind(j.work) = "commit"
  BY <1>3 DEF Perform
<1>4. CASE Kind(j.work) \in {"encrypt", "identity"}
  BY <1>4 DEF Perform, CommitState
<1> QED
  BY <1>1, <1>2, <1>3, <1>4

\* The job at the head of the queue and what StartWork makes of it.
LEMMA StartWorkDoes ==
  ASSUME PersistShape, ClaimInv, StartWork
  PROVE  LET j == Head(queue)
             base == IF Kind(j.work) = "identity" THEN [of |-> j.of, did |-> {}] ELSE cache
         IN  /\ j \in Job /\ j = queue[1] /\ 1 \in DOMAIN queue /\ holder = Free
             /\ UNCHANGED <<gen, bound, inits, disk, pending, owner, identity, made>> /\ queue' = Tail(queue)
             /\ \/ /\ j.gen = gen /\ j.of = bound /\ base \in State /\ base.of = bound
                   /\ Kind(j.work) = "identity" => Registering(1)
                   /\ Perform(j, base)
                \/ /\ UNCHANGED <<ver, save, holder, released>> /\ cache' \in {cache, NoState}
<1> DEFINE j == Head(queue)
           base == IF Kind(j.work) = "identity" THEN [of |-> j.of, did |-> {}] ELSE cache
<1>1. /\ j \in Job /\ j = queue[1] /\ 1 \in DOMAIN queue /\ holder = Free
      /\ UNCHANGED <<gen, bound, inits, disk, pending, owner, made>> /\ queue' = Tail(queue)
  BY QueueParts DEF StartWork, PersistShape, rustVars, boundVars
<1>2. CASE Runs(j) /\ (Kind(j.work) = "identity" \/ CurrentState # NoState)
  <2>1. Perform(j, base) /\ UNCHANGED identity /\ j.gen = gen
    BY <1>2 DEF StartWork, CurrentState, Runs
  <2>2. j.of = bound /\ j.of \in Account
    BY <1>1, <2>1 DEF ClaimInv, QueueFits, Job
  <2>3. base \in State /\ base.of = bound
    <3>1. CASE Kind(j.work) = "identity"
      BY <3>1, <2>2 DEF State
    <3>2. CASE Kind(j.work) # "identity"
      BY <3>2, <1>2, <2>2 DEF CurrentState, ClaimInv, StatesStayHome, PersistShape, PersistTypeOK
    <3> QED
      BY <3>1, <3>2
  <2>4. Kind(j.work) = "identity" => Registering(1)
    BY <1>1, <2>1 DEF Registering
  <2> HIDE DEF j, base
  <2>5. UNCHANGED <<gen, bound, inits, disk, pending, owner, identity, made>>
    BY <1>1, <2>1
  <2> USE DEF j, base
  <2> QED
    BY <1>1, <2>1, <2>2, <2>3, <2>4, <2>5
<1>3. CASE ~(Runs(j) /\ (Kind(j.work) = "identity" \/ CurrentState # NoState))
  <2>1. IdentitySettles(j, FALSE) /\ UNCHANGED <<ver, save, holder, released>>
    BY <1>3 DEF StartWork
  <2>2. cache' \in {cache, NoState} /\ identity' = identity
    BY <1>3, <2>1 DEF IdentitySettles, Runs
  <2> QED
    BY <1>1, <2>1, <2>2
<1> QED
  BY <1>2, <1>3

LEMMA StartWorkKeepsClaims ==
  ASSUME PersistShape, ClaimInv, StartWork
  PROVE  ClaimInv'
<1>1. PICK j, base :
        /\ j \in Job /\ j = queue[1] /\ 1 \in DOMAIN queue /\ holder = Free
        /\ base = IF Kind(j.work) = "identity" THEN [of |-> j.of, did |-> {}] ELSE cache
        /\ UNCHANGED <<gen, bound, inits, disk, identity>> /\ queue' = Tail(queue)
        /\ \/ /\ j.gen = gen /\ j.of = bound /\ base \in State /\ base.of = bound
              /\ Kind(j.work) = "identity" => Registering(1)
              /\ Perform(j, base)
           \/ /\ UNCHANGED <<ver, save, holder, released>> /\ cache' \in {cache, NoState}
  BY StartWorkDoes
<1>2. /\ \A k \in DOMAIN queue' : k + 1 \in DOMAIN queue /\ queue'[k] = queue[k + 1] /\ k + 1 # 1
      /\ \A k \in DOMAIN queue' : k \in Nat
  <2>1. queue # <<>> /\ queue \in Seq(Job)
    BY QueueParts DEF StartWork, PersistShape
  <2>2. \A k \in DOMAIN queue' : k + 1 \in DOMAIN queue /\ queue'[k] = queue[k + 1]
    BY <1>1, <2>1, QueueParts DEF PersistShape
  <2>3. \A k \in DOMAIN queue' : k \in Nat /\ k # 0
    <3>1. queue' \in Seq(Job)
      BY <1>1, <2>1
    <3> QED
      BY <3>1
  <2> QED
    BY <2>2, <2>3
<1>3. ~Waits(holder)
  BY <1>1 DEF Waits, Free
<1>4. QueueFits'
  BY <1>1, <1>2 DEF ClaimInv, QueueFits
<1>5. CASE UNCHANGED <<ver, save, holder, released>> /\ cache' \in {cache, NoState}
  <2>1. InitsFit' /\ OneLoads' /\ StatesStayHome'
    BY <1>1, <1>5 DEF ClaimInv, InitsFit, OneLoads, StatesStayHome
  <2>2. OneRegisters'
    <3>1. ASSUME NEW k \in DOMAIN queue', Registering(k)'
          PROVE  k + 1 \in DOMAIN queue /\ Registering(k + 1)
      BY <1>1, <1>2, <3>1 DEF Registering
    <3>2. \A k, l \in DOMAIN queue' : k + 1 = l + 1 => k = l
      BY <1>2
    <3> QED
      BY <1>1, <1>5, <3>1, <3>2 DEF ClaimInv, OneRegisters
  <2>3. HolderFits'
    BY <1>1, <1>3, <1>5 DEF ClaimInv, HolderFits, Waits, Free
  <2> QED
    BY <1>4, <2>1, <2>2, <2>3 DEF ClaimInv
<1>6. CASE /\ j.gen = gen /\ j.of = bound /\ base \in State /\ base.of = bound
           /\ Kind(j.work) = "identity" => Registering(1)
           /\ Perform(j, base)
  <2>1. /\ \A i \in inits : i.gen # gen
        /\ \A k \in DOMAIN queue' : ~Registering(k)'
        /\ Kind(j.work) = "identity" => identity = "pending"
    <3>1. CASE Kind(j.work) = "identity"
      <4>1. Registering(1)
        BY <1>6, <3>1
      <4>2. /\ identity = "pending" /\ \A i \in inits : i.gen # gen
            /\ \A k \in DOMAIN queue : Registering(k) => k = 1
        BY <1>1, <4>1 DEF ClaimInv, OneRegisters
      <4>3. ASSUME NEW k \in DOMAIN queue', Registering(k)'
            PROVE  FALSE
        BY <1>1, <1>2, <4>2, <4>3 DEF Registering
      <4> QED
        BY <4>2, <4>3
    <3>2. CASE Kind(j.work) # "identity"
      <4>1. cache # NoState
        BY <1>1, <1>6, <3>2, PersistNoState
      <4>2. /\ \A i \in inits : i.gen # gen
            /\ \A k \in DOMAIN queue : ~Registering(k)
        BY <4>1 DEF ClaimInv, InitsFit, OneRegisters
      <4>3. ASSUME NEW k \in DOMAIN queue', Registering(k)'
            PROVE  FALSE
        BY <1>1, <1>2, <4>2, <4>3 DEF Registering
      <4> QED
        BY <3>2, <4>2, <4>3
    <3> QED
      BY <3>1, <3>2
  <2>2. InitsFit' /\ OneLoads' /\ OneRegisters'
    BY <1>1, <2>1 DEF ClaimInv, InitsFit, OneLoads, OneRegisters
  <2>3. With(base, j.work) \in State /\ With(base, j.work).of = bound
    BY <1>1, <1>6, WithAdds DEF Job
  <2>4. /\ cache' = IF Kind(j.work) = "commit" THEN cache ELSE With(base, j.work)
        /\ cache' \in State /\ cache'.of = bound
        /\ \/ Kind(j.work) = "decrypt" /\ holder' = holder /\ released' = released
           \/ \E stage \in {"base", "sent", "durable"} :
                /\ Take(j, stage, base)
                /\ (stage = "durable") <=> (Kind(j.work) # "commit")
                /\ released' = released \/ Release(j, base, {})
    BY <1>1, <1>6, <2>3, PerformDoes
  <2>5. HolderFits'
    <3>1. CASE holder' = holder
      BY <1>1, <3>1 DEF HolderFits, Waits, Free
    <3>2. ASSUME NEW stage \in {"base", "sent", "durable"}, Take(j, stage, base),
                 (stage = "durable") <=> (Kind(j.work) # "commit")
          PROVE  HolderFits'
      <4>1. /\ holder'.at = stage /\ holder'.gen = gen /\ holder'.of = bound
            /\ holder'.base = base /\ holder'.work = j.work
        BY <1>6, <3>2 DEF Take
      <4>2. gen' = gen /\ bound' = bound /\ gen <= gen
        BY <1>1, ClaimTypes
      <4>3. stage # "sent" => cache' = IF stage = "base" THEN base ELSE With(base, j.work)
        BY <1>1, <2>4, <3>2
      <4> QED
        BY <1>1, <1>6, <2>1, <4>1, <4>2, <4>3, <3>2, <2>4 DEF HolderFits, Waits
    <3> QED
      BY <2>4, <3>1, <3>2
  <2>6. StatesStayHome'
    <3>1. released' = released \/ released' = released \cup {[of |-> bound, from |-> bound,
              needs |-> base.did, generation |-> {}]}
      BY <1>6, <2>4 DEF Release
    <3> QED
      BY <1>1, <2>4, <3>1 DEF ClaimInv, StatesStayHome
  <2> QED
    BY <1>4, <2>2, <2>5, <2>6 DEF ClaimInv
<1> QED
  BY <1>1, <1>5, <1>6

LEMMA ClaimStep ==
  ASSUME PersistShape, ClaimInv, [PersistNext]_persistVars
  PROVE  ClaimInv'
<1>1. CASE UNCHANGED persistVars
  BY <1>1 DEF persistVars, ClaimInv, InitsFit, OneLoads, QueueFits, OneRegisters, HolderFits, Registering,
              StatesStayHome, Waits
<1>2. CASE PersistNext
  <2>1. ASSUME ServerAccepts \/ ServerRejects PROVE Answer(TRUE) \/ Answer(FALSE)
    BY <2>1 DEF ServerAccepts, ServerRejects
  <2> QED
    BY <1>2, <2>1, DiskKeepsClaims, LoadsKeepClaims, SavesKeepClaims, SwitchKeepsClaims,
       StartKeepsClaims, LoadedKeepsClaims, RegisteredKeepsClaims, CallKeepsClaims,
       RestartKeepsClaims, AnswerKeepsClaims, StartWorkKeepsClaims
       DEF PersistNext
<1> QED
  BY <1>1, <1>2

\* For any accounts, work and faults, whoever acts for the window's present session acts for its
\* account, and the lock holder's state is the window's.
THEOREM ClaimInvariance == PersistSpec => [](PersistShape /\ ClaimInv)
<1>1. PersistInit => PersistShape /\ ClaimInv
  BY PersistInitTyped, ClaimInit
<1>2. PersistShape /\ ClaimInv /\ [PersistNext]_persistVars => (PersistShape /\ ClaimInv)'
  BY ShapeStep, ClaimStep
<1> QED
  BY <1>1, <1>2, PTL DEF PersistSpec

\* I7: whatever is switched, refused, late or lost, no account's state is taken for another's.
THEOREM StatesStayHomeAlways == PersistSpec => []StatesStayHome
<1>1. PersistShape /\ ClaimInv => StatesStayHome
  BY DEF ClaimInv
<1> QED
  BY <1>1, ClaimInvariance, PTL

LEMMA CacheGrows ==
  ASSUME PersistShape, ClaimInv, PersistNext, cache # NoState, cache' # NoState
  PROVE  cache.did \subseteq cache'.did
<1>1. CASE StartWork
  <2>1. PICK j, base :
          /\ j \in Job /\ holder = Free /\ j = queue[1] /\ 1 \in DOMAIN queue
          /\ base = IF Kind(j.work) = "identity" THEN [of |-> j.of, did |-> {}] ELSE cache
          /\ \/ /\ base \in State /\ Perform(j, base)
                /\ Kind(j.work) = "identity" => Registering(1)
             \/ cache' \in {cache, NoState}
    BY <1>1, StartWorkDoes
  <2>2. CASE cache' \in {cache, NoState}
    BY <2>2
  <2>3. CASE base \in State /\ Perform(j, base) /\ (Kind(j.work) = "identity" => Registering(1))
    <3>1. Kind(j.work) # "identity"
      BY <2>1, <2>3 DEF ClaimInv, OneRegisters
    <3>2. cache' = cache \/ cache' = With(cache, j.work)
      BY <2>1, <2>3, <3>1, PerformDoes
    <3>3. cache \in State /\ j.work \in Work
      BY <2>1 DEF PersistShape, PersistTypeOK, Job
    <3> QED
      BY <3>2, <3>3, WithAdds
  <2> QED
    BY <2>1, <2>2, <2>3
<1>2. CASE ServerAccepts \/ ServerRejects
  <2>1. PICK accepted \in BOOLEAN : Answer(accepted)
    BY <1>2 DEF ServerAccepts, ServerRejects
  <2>2. cache' = cache \/ (cache = holder.base /\ cache' = With(holder.base, holder.work))
    BY <2>1 DEF Answer, CommitState
  <2>3. holder.base \in State /\ holder.work \in Work
    BY <2>1 DEF Answer, PersistShape, HolderShape
  <2> QED
    BY <2>2, <2>3, WithAdds
<1>3. ASSUME NEW i \in inits, RustLoads(i) \/ InitLoaded(i) \/ InitRegistered(i)
      PROVE  cache.did \subseteq cache'.did
  <2>1. CASE InitLoaded(i)
    <3>1. i.gen # gen
      BY <2>1 DEF ClaimInv, InitsFit
    <3> QED
      BY <2>1, <3>1 DEF InitLoaded
  <2>2. CASE RustLoads(i) \/ InitRegistered(i)
    BY <2>2 DEF RustLoads, InitRegistered, pageVars
  <2> QED
    BY <1>3, <2>1, <2>2
<1>4. CASE SaveSucceeded \/ SaveFailed
  <2>1. cache' = cache \/ cache' = NoState
    BY <1>4 DEF SaveSucceeded, SaveFailed, Resume, IdentitySettles
  <2> QED
    BY <2>1
<1>5. CASE \/ SaveRefused \/ RustSaves \/ Flush \/ (\E a \in Account : SignIn(a)) \/ SwitchAccount
           \/ StartInit \/ (\E kind \in {"decrypt", "encrypt", "commit"} : Call(kind)) \/ UiFollows
           \/ (\E kind \in {"crash", "reload"} : Restart(kind))
  <2>1. cache' = cache \/ cache' = NoState
    BY <1>5 DEF SaveRefused, RustSaves, Flush, SignIn, SwitchAccount, StartInit, Call, UiFollows, Restart,
                ResetForUser, pageVars
  <2> QED
    BY <2>1
<1> QED
  BY <1>1, <1>2, <1>3, <1>4, <1>5 DEF PersistNext

\* I1-I3: while a session lasts, no work's result overwrites another's.
THEOREM NoLostUpdateAlways == PersistSpec => NoLostUpdate
<1>1. PersistShape /\ ClaimInv /\ [PersistNext]_persistVars
        => [(gen' = gen /\ cache # NoState /\ cache' # NoState /\ signIns' = signIns
               /\ persistFaults' = persistFaults)
              => cache.did \subseteq cache'.did]_persistVars
  BY CacheGrows
<1> QED
  BY <1>1, ClaimInvariance, PTL DEF NoLostUpdate, PersistSpec

-----------------------------------------------------------------------------
\* The writer's versions are in order, and a waiter waits for the newest of them.
VersionsFit ==
    /\ ver.durable <= ver.persisted /\ ver.persisted <= ver.state /\ ver.wanted <= ver.state
    /\ save.at # "idle" => save.version <= ver.state
    /\ Waits(holder) => holder.version = ver.state
\* The save under way is of the newest state that was not yet durable when it was sent.
SaveFits ==
    /\ save.at = "sent" /\ cache # NoState => ver.durable < save.version
    /\ save.at \in {"sent", "ok"} /\ cache # NoState /\ save.version = ver.state => save.bytes = cache
    /\ save.at = "ok" /\ save.durable /\ cache # NoState /\ save.version = ver.state =>
         owner = save.bytes.of /\ disk[owner] = save.bytes /\ pending = NoState
\* What the window takes for durable is on disk.
DurableIsOnDisk == ver.durable >= ver.state /\ cache # NoState =>
    owner = cache.of /\ disk[owner] = cache /\ pending = NoState
\* What was loaded is still on disk when it is adopted, and a device that registers for the account
\* the window may write for has nothing on disk.
LoadIsNewest == \A i \in inits : i.gen = gen /\ i.at \in {"loaded", "fresh", "register"} =>
    /\ save.at # "sent"
    /\ i.at = "loaded" /\ i.got # NoState /\ i.got.of = i.of =>
         owner = i.of /\ disk[owner] = i.got /\ pending = NoState
    /\ i.at # "loaded" => owner # i.of \/ Flushed[i.of] = NoState
RegisterIsFirst == \A k \in DOMAIN queue : Registering(k) =>
    save.at # "sent" /\ (owner # bound \/ Flushed[bound] = NoState)
\* Whatever is, or may come to be, on disk has what was released.
Carries(s) == \A r \in released : r.of = s.of => r.needs \subseteq s.did
CarriedOn ==
    /\ pending # NoState => Carries(pending)
    /\ save.at = "sent" /\ owner = save.bytes.of => Carries(save.bytes)
    /\ cache # NoState /\ owner = cache.of => Carries(cache)
    /\ holder.at = "durable" /\ Kind(holder.work) = "encrypt" /\ owner = holder.of =>
         Carries(holder.base)
DurableInv == VersionsFit /\ SaveFits /\ DurableIsOnDisk /\ LoadIsNewest /\ RegisterIsFirst
              /\ CarriedOn /\ ReleasedOnDisk
WindowInv == PersistShape /\ ClaimInv /\ DurableInv

\* A load that is answered after its session ended does not give the window another account to
\* write for.
InOrder == \A i \in inits : RustLoads(i) /\ i.gen # gen => owner' = owner

LEMMA VersionTypes ==
  ASSUME PersistShape
  PROVE  /\ ver \in Versions /\ ver.state \in Nat /\ ver.persisted \in Nat /\ ver.durable \in Nat /\ ver.wanted \in Nat
         /\ save \in Save /\ save.version \in Nat /\ holder.version \in Nat
BY DEF PersistShape, PersistTypeOK, Versions, Save, Holder

LEMMA DurableInit == PersistInit => DurableInv
BY DEF PersistInit, DurableInv, VersionsFit, SaveFits, DurableIsOnDisk, LoadIsNewest, RegisterIsFirst,
       CarriedOn, ReleasedOnDisk, Registering, Free, Waits, NoSave, Start

\* The next save is of the newest state, and only of one that is not durable.
LEMMA NextSaveIsNewer ==
  ASSUME NEW c \in State \cup {NoState}, NEW v \in Versions, NextSave(c, v).at # "idle",
         v.durable <= v.persisted, v.wanted <= v.state
  PROVE  /\ c # NoState /\ NextSave(c, v).at = "sent" /\ NextSave(c, v).bytes = c
         /\ NextSave(c, v).version = v.state /\ v.durable < v.state
BY DEF NextSave, NoSave, Versions

\* A flush moves what is pending and changes nothing else.
LEMMA FlushedOnce ==
  ASSUME PersistTypeOK
  PROVE  /\ pending = NoState => Flushed = disk
         /\ pending # NoState => \A a \in Account : Flushed[a] = IF a = pending.of THEN pending ELSE disk[a]
         /\ \A a \in Account : Flushed[a] = NoState => disk[a] = NoState
         /\ disk' = Flushed /\ pending' = NoState => Flushed' = Flushed
BY PersistNoState DEF PersistTypeOK, Flushed, State

LEMMA FlushedCarries ==
  ASSUME PersistShape, DurableInv
  PROVE  \A r \in released : Flushed[r.of] # NoState /\ r.needs \subseteq Flushed[r.of].did
<1> SUFFICES ASSUME NEW r \in released
             PROVE  Flushed[r.of] # NoState /\ r.needs \subseteq Flushed[r.of].did
  OBVIOUS
<1>1. r.of \in Account /\ disk[r.of] # NoState /\ r.needs \subseteq disk[r.of].did
  BY DEF PersistShape, PersistTypeOK, DurableInv, ReleasedOnDisk
<1>2. CASE pending # NoState /\ pending.of = r.of
  BY <1>1, <1>2, FlushedOnce DEF PersistShape, DurableInv, CarriedOn, Carries
<1>3. CASE ~(pending # NoState /\ pending.of = r.of)
  BY <1>1, <1>3, FlushedOnce DEF PersistShape
<1> QED
  BY <1>2, <1>3

LEMMA FlushKeepsDurable ==
  ASSUME WindowInv, Flush
  PROVE  DurableInv'
<1> USE DEF WindowInv
<1>1. /\ UNCHANGED <<owner, gen, bound, cache, ver, save, queue, holder, inits, released>>
      /\ disk' = Flushed /\ pending' = NoState /\ pending # NoState
  BY DEF Flush, pageVars, lockVars
<1>2. Flushed' = Flushed
  BY <1>1, FlushedOnce DEF PersistShape
<1>3. VersionsFit' /\ SaveFits' /\ DurableIsOnDisk'
  BY <1>1 DEF DurableInv, VersionsFit, SaveFits, DurableIsOnDisk, Waits
<1>4. LoadIsNewest' /\ RegisterIsFirst'
  BY <1>1, <1>2 DEF DurableInv, LoadIsNewest, RegisterIsFirst, Registering
<1>5. CarriedOn'
  BY <1>1 DEF DurableInv, CarriedOn, Carries
<1>6. ReleasedOnDisk'
  BY <1>1, FlushedCarries DEF ReleasedOnDisk
<1> QED
  BY <1>3, <1>4, <1>5, <1>6 DEF DurableInv

LEMMA SavingKeepsDurable ==
  ASSUME WindowInv, RustSaves
  PROVE  DurableInv'
<1> USE DEF WindowInv
<1>1. /\ UNCHANGED <<owner, gen, bound, cache, ver, queue, holder, inits, released>>
      /\ save.at = "sent" /\ save.bytes \in State /\ save \in Save
  BY DEF RustSaves, pageVars, lockVars, PersistShape, SaveShape, PersistTypeOK
<1>2. PICK at \in {"refused", "ok", "failed"} :
        /\ save' = [save EXCEPT !.at = at]
        /\ at = "refused" => UNCHANGED <<disk, pending>>
        /\ at # "refused" => owner = save.bytes.of
        /\ at = "ok" /\ save.durable => disk' = [disk EXCEPT ![owner] = save.bytes] /\ pending' = NoState
        /\ at = "failed" \/ (at = "ok" /\ ~save.durable) => disk' = disk /\ pending' = save.bytes
  BY DEF RustSaves
<1>3. save'.at = at /\ save'.bytes = save.bytes /\ save'.version = save.version /\ save'.durable = save.durable
  BY <1>1, <1>2 DEF Save
<1>4. /\ \A i \in inits : i.gen = gen => i.at \notin {"loaded", "fresh", "register"}
      /\ \A k \in DOMAIN queue : ~Registering(k)
  BY <1>1 DEF DurableInv, LoadIsNewest, RegisterIsFirst
<1>5. owner = save.bytes.of => Carries(save.bytes) /\ owner \in Account
  BY <1>1 DEF DurableInv, CarriedOn, State
<1>6. cache # NoState => ver.durable < ver.state
  BY <1>1, VersionTypes DEF DurableInv, SaveFits, VersionsFit
<1>7. disk \in [Account -> State \cup {NoState}]
  BY DEF PersistShape, PersistTypeOK
<1>8. VersionsFit'
  BY <1>1, <1>3 DEF DurableInv, VersionsFit, Waits
<1>9. SaveFits'
  BY <1>1, <1>2, <1>3, <1>5, <1>7 DEF DurableInv, SaveFits
<1>10. DurableIsOnDisk'
  BY <1>1, <1>6, VersionTypes DEF DurableIsOnDisk
<1>11. LoadIsNewest' /\ RegisterIsFirst'
  BY <1>1, <1>4 DEF LoadIsNewest, RegisterIsFirst, Registering
<1>12. CarriedOn'
  <2>1. \A s : Carries(s)' <=> Carries(s)
    BY <1>1 DEF Carries
  <2>2. pending' \in {pending, NoState, save.bytes} /\ (pending' = save.bytes => Carries(save.bytes) \/ pending' = pending)
    BY <1>2, <1>5
  <2> QED
    BY <1>1, <1>3, <2>1, <2>2 DEF DurableInv, CarriedOn, Carries
<1>13. ReleasedOnDisk'
  <2>1. disk' = disk \/ (disk' = [disk EXCEPT ![owner] = save.bytes] /\ owner = save.bytes.of)
    BY <1>2
  <2>2. released \subseteq [of: Account, from: Account, needs: SUBSET Work, generation: SUBSET Nat]
    BY DEF PersistShape, PersistTypeOK
  <2> QED
    BY <1>1, <1>5, <1>7, <2>1, <2>2, PersistNoState DEF DurableInv, ReleasedOnDisk, Carries
<1> QED
  BY <1>8, <1>9, <1>10, <1>11, <1>12, <1>13 DEF DurableInv

LEMMA LoadingKeepsDurable ==
  ASSUME WindowInv, "late" \notin PersistFaultKinds, NEW i \in inits, RustLoads(i),
         i.gen # gen => owner' = owner
  PROVE  DurableInv'
<1> USE DEF WindowInv
<1> DEFINE at == IF Flushed[session] = NoState THEN "fresh" ELSE "loaded"
           read == [i EXCEPT !.at = at, !.got = Flushed[session]]
           failed == [i EXCEPT !.at = "failed"]
<1>1. UNCHANGED <<session, gen, bound, cache, ver, save, queue, holder, released>>
  BY DEF RustLoads, pageVars, lockVars
<1>2. session \in Account /\ i \in [of: Account, gen: Nat,
          at: {"load", "loaded", "fresh", "failed", "register"}, got: State \cup {NoState}]
  BY DEF PersistShape, PersistTypeOK
<1>3. CASE inits' = (inits \ {i}) \cup {failed} /\ UNCHANGED <<owner, disk, pending>>
  <2>1. failed.at = "failed"
    BY <1>2
  <2>2. LoadIsNewest' /\ RegisterIsFirst'
    <3> HIDE DEF failed
    <3>1. Flushed' = Flushed
      BY <1>3 DEF Flushed
    <3> QED
      BY <1>1, <1>3, <2>1, <3>1 DEF DurableInv, LoadIsNewest, RegisterIsFirst, Registering
  <2> QED
    BY <1>1, <1>3, <2>2
       DEF DurableInv, VersionsFit, SaveFits, DurableIsOnDisk, CarriedOn, Carries, ReleasedOnDisk, Waits
<1>4. CASE /\ save.at # "sent" /\ disk' = Flushed /\ pending' = NoState /\ owner' = session
           /\ inits' = (inits \ {i}) \cup {read}
  <2>1. /\ read.gen = i.gen /\ read.of = i.of /\ read.at = at /\ read.got = Flushed[session]
        /\ Flushed' = Flushed /\ (pending = NoState => Flushed = disk)
        /\ Flushed[session] # NoState => Flushed[session].of = session
    BY <1>2, <1>4, FlushedOnce, FlushedHome DEF PersistShape, ClaimInv
  <2> HIDE DEF read
  <2>2. ReleasedOnDisk'
    BY <1>1, <1>4, FlushedCarries DEF ReleasedOnDisk
  <2>3. VersionsFit'
    BY <1>1 DEF DurableInv, VersionsFit, Waits
  <2>4. CASE i.gen = gen
    <3>1. /\ cache' = NoState /\ ~Waits(holder)
          /\ \A j \in inits' : j.gen = gen' => j = read
          /\ \A k \in DOMAIN queue : ~Registering(k)
      BY <1>1, <1>4, <2>4, InitAlone
    <3>2. SaveFits' /\ DurableIsOnDisk' /\ RegisterIsFirst'
      BY <1>1, <3>1 DEF SaveFits, DurableIsOnDisk, RegisterIsFirst, Registering
    <3>3. LoadIsNewest'
      BY <1>1, <1>4, <2>1, <3>1 DEF LoadIsNewest
    <3>4. CarriedOn'
      BY <1>1, <1>4, <3>1 DEF CarriedOn, Waits
    <3> QED
      BY <2>2, <2>3, <3>2, <3>3, <3>4 DEF DurableInv
  <2>5. CASE i.gen # gen
    <3>1. owner' = owner
      BY <2>5
    <3>2. SaveFits' /\ DurableIsOnDisk'
      BY <1>1, <1>4, <2>1, <3>1 DEF DurableInv, SaveFits, DurableIsOnDisk
    <3>3. LoadIsNewest' /\ RegisterIsFirst'
      BY <1>1, <1>4, <2>1, <2>5, <3>1 DEF DurableInv, LoadIsNewest, RegisterIsFirst, Registering
    <3>4. CarriedOn'
      BY <1>1, <1>4, <3>1 DEF DurableInv, CarriedOn, Carries
    <3> QED
      BY <2>2, <2>3, <3>2, <3>3, <3>4 DEF DurableInv
  <2> QED
    BY <2>4, <2>5
<1> QED
  BY <1>3, <1>4 DEF RustLoads, PersistFault

\* A waiter that is settled is: its state is the one on disk.
LEMMA SettledIsOnDisk ==
  ASSUME WindowInv, save.at = "ok", ver' = Accepted(save, ver), UNCHANGED cache
  PROVE  /\ ver'.durable <= ver'.persisted /\ ver'.persisted <= ver'.state /\ ver'.wanted <= ver'.state
         /\ ver'.state = ver.state /\ ver' \in Versions
         /\ ver'.durable >= ver'.state /\ cache # NoState =>
              owner = cache.of /\ disk[owner] = cache /\ pending = NoState
<1> USE DEF WindowInv
<1>1. /\ ver' \in Versions /\ ver'.state = ver.state /\ ver'.wanted = ver.wanted
      /\ ver'.persisted = Larger(ver.persisted, save.version)
      /\ ver'.durable = IF save.durable THEN Larger(ver.durable, save.version) ELSE ver.durable
  BY VersionTypes, AcceptedFits
<1>2. save.version <= ver.state /\ ver.durable <= ver.persisted /\ ver.persisted <= ver.state /\ ver.wanted <= ver.state
  BY DEF DurableInv, VersionsFit
<1>3. ver'.durable <= ver'.persisted /\ ver'.persisted <= ver'.state /\ ver'.wanted <= ver'.state
  BY <1>1, <1>2, VersionTypes DEF Larger
<1>4. ASSUME ver'.durable >= ver'.state, cache # NoState
      PROVE  owner = cache.of /\ disk[owner] = cache /\ pending = NoState
  <2>1. ver.durable >= ver.state \/ (save.durable /\ save.version = ver.state)
    BY <1>1, <1>2, <1>4, VersionTypes DEF Larger
  <2> QED
    BY <1>4, <2>1 DEF DurableInv, SaveFits, DurableIsOnDisk
<1> QED
  BY <1>1, <1>3, <1>4

LEMMA SucceedingKeepsDurable ==
  ASSUME WindowInv, SaveSucceeded
  PROVE  DurableInv'
<1> USE DEF WindowInv
<1>1. /\ UNCHANGED <<owner, disk, pending, gen, bound, queue, inits>>
      /\ save.at = "ok" /\ ver' = Accepted(save, ver) /\ save' = NextSave(cache, ver')
  BY DEF SaveSucceeded, rustVars
<1>2. /\ cache' = cache
      /\ Settled(holder, ver') => Waits(holder) /\ Resume(holder)
      /\ ~Settled(holder, ver') => UNCHANGED <<holder, released>>
  BY <1>1, NobodyElse DEF SaveSucceeded, Settled, Resume, IdentitySettles
<1>3. /\ ver'.durable <= ver'.persisted /\ ver'.persisted <= ver'.state /\ ver'.wanted <= ver'.state
      /\ ver'.state = ver.state /\ ver' \in Versions
      /\ ver'.durable >= ver'.state /\ cache # NoState =>
           owner = cache.of /\ disk[owner] = cache /\ pending = NoState
  BY <1>1, <1>2, SettledIsOnDisk
<1>4. /\ save'.at \in {"idle", "sent"}
      /\ save'.at # "idle" => /\ cache # NoState /\ save'.bytes = cache /\ save'.version = ver'.state
                              /\ ver'.durable < ver'.state
  <2>1. cache \in State \cup {NoState}
    BY DEF PersistShape, PersistTypeOK
  <2> QED
    BY <1>1, <1>3, <2>1, NextSaveFits, NextSaveIsNewer
<1>5. SaveFits' /\ DurableIsOnDisk'
  BY <1>1, <1>2, <1>3, <1>4 DEF SaveFits, DurableIsOnDisk
<1>6. LoadIsNewest' /\ RegisterIsFirst'
  <2>1. Flushed' = Flushed
    BY <1>1 DEF Flushed
  <2>2. \A i \in inits : i.gen = gen => cache = NoState
    BY DEF ClaimInv, InitsFit
  <2>3. \A k \in DOMAIN queue : Registering(k) => cache = NoState
    BY DEF ClaimInv, OneRegisters
  <2> QED
    BY <1>1, <1>4, <2>1, <2>2, <2>3 DEF DurableInv, LoadIsNewest, RegisterIsFirst, Registering
<1>7. CASE ~Settled(holder, ver')
  <2>1. UNCHANGED <<holder, released>>
    BY <1>2, <1>7
  <2>2. VersionsFit'
    BY <1>3, <1>4, <2>1, VersionTypes DEF DurableInv, VersionsFit, Waits, Versions
  <2>3. CarriedOn' /\ ReleasedOnDisk'
    BY <1>1, <1>2, <1>4, <2>1 DEF DurableInv, CarriedOn, Carries, ReleasedOnDisk
  <2> QED
    BY <1>5, <1>6, <2>2, <2>3 DEF DurableInv
<1>8. CASE Settled(holder, ver')
  <2>1. /\ Waits(holder) /\ cache # NoState /\ cache.of = bound /\ holder.of = bound
        /\ holder.base.of = bound /\ holder.base \in State /\ holder.work \in Work
        /\ ver'.durable >= ver'.state
    BY <1>2, <1>3, <1>8, NobodyElse, VersionTypes
       DEF Settled, DurableInv, VersionsFit, PersistShape, HolderShape, Waits
  <2>2. owner = bound /\ disk[bound] = cache /\ pending = NoState /\ save'.at = "idle"
    BY <1>3, <1>4, <2>1, VersionTypes DEF Versions
  <2>3. /\ holder' = Free \/ holder' = [holder EXCEPT !.at = "sent"]
        /\ \/ released' = released
           \/ \E g : released' = released \cup {[of |-> bound, from |-> bound,
                                                 needs |-> cache.did, generation |-> g]}
    <3>1. CASE holder.at = "base"
      <4>1. cache = holder.base
        BY <2>1, <3>1 DEF ClaimInv, HolderFits
      <4> QED
        BY <1>2, <1>8, <2>1, <3>1, <4>1 DEF Resume, Release
    <3>2. CASE holder.at = "durable" /\ Kind(holder.work) = "encrypt"
      <4>1. cache = With(holder.base, holder.work)
        BY <2>1, <3>2 DEF ClaimInv, HolderFits
      <4> QED
        BY <1>2, <1>8, <2>1, <3>2, <4>1 DEF Resume, Release
    <3>3. CASE holder.at = "durable" /\ Kind(holder.work) # "encrypt"
      BY <1>2, <1>8, <3>3 DEF Resume
    <3> QED
      BY <2>1, <3>1, <3>2, <3>3 DEF Waits
  <2>4. holder'.at \in {"free", "sent"}
    BY <2>3 DEF Free, PersistShape, PersistTypeOK, Holder
  <2>5. VersionsFit'
    BY <1>3, <1>4, <2>2, <2>4 DEF VersionsFit, Waits
  <2>6. CarriedOn'
    BY <1>1, <1>2, <2>1, <2>2, <2>3, <2>4 DEF DurableInv, CarriedOn, Carries
  <2>7. ReleasedOnDisk'
    BY <1>1, <2>1, <2>2, <2>3 DEF DurableInv, ReleasedOnDisk
  <2> QED
    BY <1>5, <1>6, <2>5, <2>6, <2>7 DEF DurableInv
<1> QED
  BY <1>7, <1>8

LEMMA FailingKeepsDurable ==
  ASSUME WindowInv, SaveFailed
  PROVE  DurableInv'
<1> USE DEF WindowInv
<1>1. /\ UNCHANGED <<owner, disk, pending, gen, bound, queue, inits, released>>
      /\ ver' = [ver EXCEPT !.wanted = ver.durable] /\ save' = NoSave
      /\ cache' \in {cache, NoState} /\ holder' \in {holder, Free}
      /\ ~Waits(holder')
  BY DEF SaveFailed, rustVars, IdentitySettles, Waits, Free
<1>2. /\ ver'.state = ver.state /\ ver'.durable = ver.durable /\ ver'.persisted = ver.persisted
      /\ ver'.wanted = ver.durable /\ save'.at = "idle"
  BY <1>1, VersionTypes DEF Versions, NoSave
<1>3. VersionsFit'
  BY <1>1, <1>2, VersionTypes DEF DurableInv, VersionsFit
<1>4. SaveFits' /\ DurableIsOnDisk'
  BY <1>1, <1>2 DEF DurableInv, SaveFits, DurableIsOnDisk
<1>5. LoadIsNewest' /\ RegisterIsFirst'
  <2>1. Flushed' = Flushed
    BY <1>1 DEF Flushed
  <2> QED
    BY <1>1, <1>2, <2>1 DEF DurableInv, LoadIsNewest, RegisterIsFirst, Registering
<1>6. CarriedOn' /\ ReleasedOnDisk'
  BY <1>1, <1>2 DEF DurableInv, CarriedOn, Carries, ReleasedOnDisk, Waits
<1> QED
  BY <1>3, <1>4, <1>5, <1>6 DEF DurableInv

LEMMA ResettingKeepsDurable ==
  ASSUME WindowInv, SaveRefused \/ SwitchAccount
  PROVE  DurableInv'
<1> USE DEF WindowInv
<1>1. PICK a : /\ ResetForUser(a) /\ UNCHANGED <<owner, disk, pending, queue, released>>
               /\ save' = save \/ save' = NoSave
               /\ inits' \subseteq inits \cup {NewInit(a, gen + 1)}
  BY DEF SaveRefused, SwitchAccount, rustVars
<1>2. /\ gen' = gen + 1 /\ cache' = NoState /\ ver' = [n \in DOMAIN ver |-> ver.state] /\ ~Waits(holder')
  BY <1>1 DEF ResetForUser, Waits, Free
<1>3. /\ ver'.state = ver.state /\ ver'.durable = ver.state /\ ver'.persisted = ver.state
      /\ ver'.wanted = ver.state
  BY <1>2, VersionTypes DEF Versions
<1>4. VersionsFit'
  BY <1>1, <1>2, <1>3, VersionTypes DEF DurableInv, VersionsFit, NoSave
<1>5. SaveFits' /\ DurableIsOnDisk'
  BY <1>2 DEF SaveFits, DurableIsOnDisk
<1>6. LoadIsNewest' /\ RegisterIsFirst'
  <2>1. \A i \in inits' : i.gen = gen' => i.at = "load"
    BY <1>1, <1>2, ClaimTypes DEF ClaimInv, InitsFit, NewInit
  <2>2. \A k \in DOMAIN queue : queue[k].gen # gen'
    BY <1>1, <1>2, ClaimTypes DEF ClaimInv, QueueFits
  <2> QED
    BY <1>1, <2>1, <2>2 DEF LoadIsNewest, RegisterIsFirst, Registering
<1>7. CarriedOn' /\ ReleasedOnDisk'
  BY <1>1, <1>2 DEF DurableInv, CarriedOn, Carries, ReleasedOnDisk, NoSave, Waits
<1> QED
  BY <1>4, <1>5, <1>6, <1>7 DEF DurableInv

LEMMA StartingKeepsDurable ==
  ASSUME WindowInv, StartInit
  PROVE  DurableInv'
<1> USE DEF WindowInv
<1>1. /\ UNCHANGED <<owner, disk, pending, gen, cache, ver, save, queue, holder, released>>
      /\ identity = "none" /\ cache = NoState /\ inits' = inits \cup {NewInit(ui, gen)}
  BY DEF StartInit, rustVars, lockVars
<1>2. \A k \in DOMAIN queue : ~Registering(k)
  BY <1>1 DEF ClaimInv, OneRegisters
<1>3. Flushed' = Flushed /\ NewInit(ui, gen).at = "load"
  BY <1>1 DEF Flushed, NewInit
<1>4. LoadIsNewest' /\ RegisterIsFirst'
  BY <1>1, <1>2, <1>3 DEF DurableInv, LoadIsNewest, RegisterIsFirst, Registering
<1> QED
  BY <1>1, <1>4
     DEF DurableInv, VersionsFit, SaveFits, DurableIsOnDisk, CarriedOn, Carries, ReleasedOnDisk, Waits

LEMMA AdoptingKeepsDurable ==
  ASSUME WindowInv, NEW i \in inits, InitLoaded(i)
  PROVE  DurableInv'
<1> USE DEF WindowInv
<1> DEFINE next == [i EXCEPT !.at = "register"]
           usable == i.gen = gen /\ i.at = "loaded" /\ i.got.of = i.of
           adopted == [ver EXCEPT !.state = @ + 1, !.persisted = ver.state + 1,
                                  !.durable = ver.state + 1]
<1>1. UNCHANGED <<owner, disk, pending, gen, bound, save, queue, holder, released>> /\ Flushed' = Flushed
  BY DEF InitLoaded, rustVars, lockVars, Flushed
<1>2. next.gen = i.gen /\ next.of = i.of /\ next.at = "register"
  BY DEF PersistShape, PersistTypeOK
<1>3. CASE ~usable
  <2>1. UNCHANGED <<cache, ver>>
    BY <1>3 DEF InitLoaded
  <2>2. inits' \subseteq inits \/ (i.at = "fresh" /\ inits' = (inits \ {i}) \cup {next})
    BY <1>3 DEF InitLoaded
  <2> HIDE DEF next
  <2>3. LoadIsNewest'
    BY <1>1, <1>2, <2>2 DEF DurableInv, LoadIsNewest
  <2> QED
    BY <1>1, <2>1, <2>3
       DEF DurableInv, VersionsFit, SaveFits, DurableIsOnDisk, RegisterIsFirst, Registering, CarriedOn,
           Carries, ReleasedOnDisk, Waits
<1>4. CASE usable
  <2>1. cache' = i.got /\ ver' = adopted /\ inits' = inits \ {i}
    BY <1>4 DEF InitLoaded
  <2>2. /\ ver'.state = ver.state + 1 /\ ver'.persisted = ver.state + 1
        /\ ver'.durable = ver.state + 1 /\ ver'.wanted = ver.wanted
    BY <2>1, VersionTypes DEF Versions
  <2>3. /\ save.at # "sent" /\ ~Waits(holder)
        /\ \A j \in inits' : j.gen # gen
        /\ \A k \in DOMAIN queue : ~Registering(k)
    BY <1>4, <2>1, InitAlone DEF DurableInv, LoadIsNewest
  <2>4. i.got # NoState => owner = i.of /\ disk[owner] = i.got /\ pending = NoState
    BY <1>4 DEF DurableInv, LoadIsNewest
  <2>5. VersionsFit'
    BY <1>1, <2>2, <2>3, VersionTypes DEF DurableInv, VersionsFit, Waits
  <2>6. SaveFits'
    <3>1. save.at # "idle" => save.version # ver'.state
      BY <2>2, VersionTypes DEF DurableInv, VersionsFit
    <3> QED
      BY <1>1, <2>3, <3>1 DEF SaveFits
  <2>7. DurableIsOnDisk'
    BY <1>1, <1>4, <2>1, <2>4 DEF DurableIsOnDisk
  <2>8. LoadIsNewest' /\ RegisterIsFirst'
    BY <1>1, <2>3 DEF LoadIsNewest, RegisterIsFirst, Registering
  <2>9. CarriedOn'
    <3>1. cache' # NoState => Carries(cache')
      BY <1>4, <2>1, <2>4 DEF DurableInv, ReleasedOnDisk, Carries
    <3> QED
      BY <1>1, <2>1, <2>3, <3>1 DEF DurableInv, CarriedOn, Carries, Waits
  <2>10. ReleasedOnDisk'
    BY <1>1 DEF DurableInv, ReleasedOnDisk
  <2> QED
    BY <2>5, <2>6, <2>7, <2>8, <2>9, <2>10 DEF DurableInv
<1> QED
  BY <1>3, <1>4

LEMMA QueueingKeepsDurable ==
  ASSUME WindowInv, NEW j \in Job, queue' = Append(queue, j), inits' \subseteq inits,
         UNCHANGED <<owner, disk, pending, gen, bound, cache, ver, save, holder, released>>,
         Kind(j.work) = "identity" => save.at # "sent" /\ (owner # bound \/ Flushed[bound] = NoState)
  PROVE  DurableInv'
<1> USE DEF WindowInv
<1>1. PICK n : /\ DOMAIN queue' = DOMAIN queue \cup {n} /\ n \notin DOMAIN queue /\ queue'[n] = j
               /\ \A k \in DOMAIN queue : queue'[k] = queue[k]
  BY AppendParts DEF PersistShape
<1>2. Flushed' = Flushed
  BY DEF Flushed
<1>3. RegisterIsFirst'
  BY <1>1, <1>2 DEF DurableInv, RegisterIsFirst, Registering
<1>4. LoadIsNewest'
  BY <1>2 DEF DurableInv, LoadIsNewest
<1> QED
  BY <1>3, <1>4
     DEF DurableInv, VersionsFit, SaveFits, DurableIsOnDisk, CarriedOn, Carries, ReleasedOnDisk, Waits

LEMMA RegisteringKeepsDurable ==
  ASSUME WindowInv, NEW i \in inits, InitRegistered(i)
  PROVE  DurableInv'
<1> USE DEF WindowInv
<1> DEFINE job == [work |-> <<"identity", made + 1>>, of |-> i.of, gen |-> gen]
<1>1. /\ UNCHANGED <<owner, disk, pending, gen, bound, cache, ver, save, holder, released>>
      /\ inits' = inits \ {i} /\ i.at = "register"
  BY DEF InitRegistered, rustVars
<1>2. CASE i.gen # gen \/ made >= MaxJobs
  <2>1. UNCHANGED queue /\ Flushed' = Flushed
    BY <1>1, <1>2 DEF InitRegistered, Flushed
  <2> QED
    BY <1>1, <2>1
       DEF DurableInv, VersionsFit, SaveFits, DurableIsOnDisk, LoadIsNewest, RegisterIsFirst, Registering,
           CarriedOn, Carries, ReleasedOnDisk, Waits
<1>3. CASE ~(i.gen # gen \/ made >= MaxJobs)
  <2>1. queue' = Append(queue, job) /\ i.gen = gen
    BY <1>3 DEF InitRegistered
  <2>2. made \in Nat /\ made < MaxJobs /\ i.of = bound /\ bound \in Account /\ gen \in Nat
    BY <1>3, <2>1, InitAlone, ClaimTypes, PersistBounds DEF PersistShape, PersistTypeOK
  <2>3. job \in Job
    BY <2>2, WorkMade DEF Job
  <2>4. save.at # "sent" /\ (owner # bound \/ Flushed[bound] = NoState)
    BY <1>1, <2>1, <2>2 DEF DurableInv, LoadIsNewest
  <2> HIDE DEF job
  <2> QED
    BY <1>1, <2>1, <2>3, <2>4, QueueingKeepsDurable
<1> QED
  BY <1>2, <1>3

LEMMA CallingKeepsDurable ==
  ASSUME WindowInv, NEW kind \in {"decrypt", "encrypt", "commit"}, Call(kind)
  PROVE  DurableInv'
<1> USE DEF WindowInv
<1> DEFINE job == [work |-> <<kind, made + 1>>, of |-> ui, gen |-> gen]
<1>1. /\ queue' = Append(queue, job) /\ made < MaxJobs /\ inits' = inits
      /\ UNCHANGED <<owner, disk, pending, gen, bound, cache, ver, save, holder, released>>
  BY DEF Call, rustVars, pageVars
<1>2. made \in Nat /\ ui \in Account /\ gen \in Nat
  BY ClaimTypes DEF PersistShape, PersistTypeOK
<1>3. job \in Job /\ Kind(job.work) # "identity"
  BY <1>1, <1>2, WorkMade DEF Job
<1> HIDE DEF job
<1> QED
  BY <1>1, <1>3, QueueingKeepsDurable

LEMMA RestartingKeepsDurable ==
  ASSUME WindowInv, NEW kind \in {"crash", "reload"}, Restart(kind)
  PROVE  DurableInv'
<1> USE DEF WindowInv
<1>1. /\ disk' = disk /\ released' = released /\ pending' \in {pending, NoState}
      /\ cache' = NoState /\ ver' = Start /\ save' = NoSave /\ queue' = <<>> /\ holder' = Free /\ inits' = {}
  BY DEF Restart
<1>2. VersionsFit' /\ SaveFits' /\ DurableIsOnDisk' /\ LoadIsNewest' /\ RegisterIsFirst'
  BY <1>1 DEF VersionsFit, SaveFits, DurableIsOnDisk, LoadIsNewest, RegisterIsFirst, Start, NoSave, Free, Waits
<1>3. CarriedOn' /\ ReleasedOnDisk'
  BY <1>1 DEF DurableInv, CarriedOn, Carries, ReleasedOnDisk, NoSave, Free
<1> QED
  BY <1>2, <1>3 DEF DurableInv

-----------------------------------------------------------------------------
\* A commit of a state that has what the window's has, or is the first of its account, keeps all that
\* is known of the writer; the new state is newer than what is saved.
LEMMA CommittingKeepsSaves ==
  ASSUME WindowInv, NEW s \in State, NEW wait \in BOOLEAN, CommitState(s, wait),
         UNCHANGED <<owner, disk, pending, released>>,
         cache = NoState => save.at # "sent",
         owner = s.of => Carries(s)
  PROVE  /\ ver'.state = ver.state + 1 /\ ver'.durable <= ver'.persisted /\ ver'.persisted <= ver'.state
         /\ ver'.wanted <= ver'.state
         /\ save'.at # "idle" => save'.version <= ver'.state
         /\ SaveFits' /\ DurableIsOnDisk'
         /\ pending' # NoState => Carries(pending')
         /\ save'.at = "sent" /\ owner' = save'.bytes.of => Carries(save'.bytes)
         /\ cache' # NoState /\ owner' = cache'.of => Carries(cache')
         /\ ReleasedOnDisk'
<1> USE DEF WindowInv
<1> DEFINE v == [ver EXCEPT !.state = @ + 1]
<1>1. /\ v \in Versions /\ v.state = ver.state + 1 /\ v.durable = ver.durable /\ v.persisted = ver.persisted
      /\ v.wanted = ver.wanted
  BY VersionTypes DEF Versions
<1>2. /\ cache' = s
      /\ save' = IF save.at # "idle" THEN save ELSE NextSave(s, v)
      /\ ver' = IF wait THEN [v EXCEPT !.wanted = Larger(v.wanted, v.state)] ELSE v
  BY DEF CommitState, SchedulePersist
<1> HIDE DEF v
<1>3. /\ ver'.state = ver.state + 1 /\ ver'.durable = ver.durable /\ ver'.persisted = ver.persisted
      /\ ver'.wanted = ver.wanted \/ ver'.wanted = ver.state + 1
  BY <1>1, <1>2 DEF Versions, Larger
<1>4. /\ ver.durable <= ver.persisted /\ ver.persisted <= ver.state /\ ver.wanted <= ver.state
      /\ save.at # "idle" => save.version <= ver.state
  BY DEF DurableInv, VersionsFit
<1>5. s # NoState
  BY PersistNoState
<1>6. CASE save.at # "idle"
  <2>1. save' = save /\ save.version <= ver.state
    BY <1>2, <1>4, <1>6
  <2>2. SaveFits'
    BY <1>2, <1>3, <1>4, <2>1, VersionTypes DEF DurableInv, SaveFits
  <2>3. DurableIsOnDisk'
    BY <1>3, <1>4, VersionTypes DEF DurableIsOnDisk
  <2>4. save'.at # "idle" => save'.version <= ver'.state
    BY <1>3, <2>1, VersionTypes
  <2> QED
    BY <1>2, <1>3, <1>4, <2>1, <2>2, <2>3, <2>4, VersionTypes DEF DurableInv, CarriedOn, Carries, ReleasedOnDisk
<1>7. CASE save.at = "idle"
  <2>1. save' = NextSave(s, v)
    BY <1>2, <1>7
  <2>2. /\ save'.at \in {"idle", "sent"}
        /\ save'.at # "idle" => save'.bytes = s /\ save'.version = v.state /\ v.durable < v.state
    BY <1>1, <1>4, <2>1, VersionTypes, NextSaveFits, NextSaveIsNewer
  <2>3. SaveFits' /\ DurableIsOnDisk'
    BY <1>1, <1>2, <1>3, <1>4, <2>2, VersionTypes DEF SaveFits, DurableIsOnDisk
  <2> QED
    BY <1>1, <1>2, <1>3, <1>4, <2>2, <2>3, VersionTypes DEF DurableInv, CarriedOn, Carries, ReleasedOnDisk
<1> QED
  BY <1>6, <1>7

LEMMA WorkingKeepsDurable ==
  ASSUME WindowInv, ClaimInv', StartWork
  PROVE  DurableInv'
<1> USE DEF WindowInv
<1>1. PICK j, base :
        /\ j \in Job /\ j = queue[1] /\ 1 \in DOMAIN queue /\ holder = Free
        /\ base = IF Kind(j.work) = "identity" THEN [of |-> j.of, did |-> {}] ELSE cache
        /\ UNCHANGED <<gen, bound, inits, disk, pending, owner>> /\ queue' = Tail(queue)
        /\ \/ /\ j.gen = gen /\ j.of = bound /\ base \in State /\ base.of = bound
              /\ Kind(j.work) = "identity" => Registering(1)
              /\ Perform(j, base)
           \/ /\ UNCHANGED <<ver, save, holder, released>> /\ cache' \in {cache, NoState}
  BY StartWorkDoes
<1>2. Flushed' = Flushed
  BY <1>1 DEF Flushed
<1>3. CASE UNCHANGED <<ver, save, holder, released>> /\ cache' \in {cache, NoState}
  <2>1. LoadIsNewest'
    BY <1>1, <1>2, <1>3 DEF DurableInv, LoadIsNewest
  <2>2. RegisterIsFirst'
    <3>1. queue # <<>>
      BY DEF StartWork
    <3>2. ASSUME NEW k \in DOMAIN queue', Registering(k)'
          PROVE  k + 1 \in DOMAIN queue /\ Registering(k + 1)
      BY <1>1, <3>1, <3>2, QueueParts DEF Registering, PersistShape
    <3> QED
      BY <1>1, <1>2, <1>3, <3>2 DEF DurableInv, RegisterIsFirst
  <2> QED
    BY <1>1, <1>3, <2>1, <2>2
       DEF DurableInv, VersionsFit, SaveFits, DurableIsOnDisk, CarriedOn, Carries, ReleasedOnDisk, Waits, Free
<1>4. CASE /\ j.gen = gen /\ j.of = bound /\ base \in State /\ base.of = bound
           /\ Kind(j.work) = "identity" => Registering(1)
           /\ Perform(j, base)
  <2>1. /\ With(base, j.work) \in State /\ With(base, j.work).of = bound
        /\ With(base, j.work).did = base.did \cup {j.work}
    BY <1>1, <1>4, WithAdds DEF Job
  <2>2. cache' # NoState
    <3>1. (cache' = cache /\ Kind(j.work) = "commit") \/ cache' = With(base, j.work)
      BY <1>1, <1>4, PerformDoes
    <3> QED
      BY <1>1, <1>4, <2>1, <3>1, PersistNoState
  <2>3. LoadIsNewest' /\ RegisterIsFirst'
    BY <2>2 DEF ClaimInv, InitsFit, OneRegisters, LoadIsNewest, RegisterIsFirst
  <2>4. cache = NoState => save.at # "sent"
    BY <1>1, <1>4, PersistNoState DEF DurableInv, RegisterIsFirst
  <2>5. owner = bound => Carries(base)
    <3>1. CASE Kind(j.work) = "identity"
      <4>1. owner = bound => Flushed[bound] = NoState
        BY <1>1, <1>4, <3>1 DEF DurableInv, RegisterIsFirst
      <4>2. owner = bound => \A r \in released : r.of # bound
        BY <4>1, FlushedCarries
      <4> QED
        BY <1>4, <4>2 DEF Carries
    <3>2. CASE Kind(j.work) # "identity"
      BY <1>1, <1>4, <3>2, PersistNoState DEF DurableInv, CarriedOn
    <3> QED
      BY <3>1, <3>2
  <2>6. owner = bound => Carries(With(base, j.work))
    BY <1>4, <2>1, <2>5 DEF Carries
  <2>7. CASE /\ Kind(j.work) = "decrypt" /\ holder' = holder /\ released' = released
             /\ CommitState(With(base, j.work), FALSE)
    <3>1. ~Waits(holder') /\ holder'.at = "free"
      BY <1>1, <2>7 DEF Waits, Free
    <3>2. VersionsFit' /\ SaveFits' /\ DurableIsOnDisk' /\ ReleasedOnDisk'
      BY <1>1, <2>1, <2>4, <2>6, <2>7, <3>1, CommittingKeepsSaves DEF VersionsFit
    <3>3. CarriedOn'
      <4>1. /\ pending' # NoState => Carries(pending')
            /\ save'.at = "sent" /\ owner' = save'.bytes.of => Carries(save'.bytes)
            /\ cache' # NoState /\ owner' = cache'.of => Carries(cache')
        BY <1>1, <2>1, <2>4, <2>6, <2>7, CommittingKeepsSaves
      <4> QED
        BY <2>7, <3>1, <4>1 DEF CarriedOn, Carries
    <3> QED
      BY <2>3, <3>2, <3>3 DEF DurableInv
  <2>8. CASE /\ Kind(j.work) \in {"encrypt", "identity"} /\ Take(j, "durable", base)
             /\ released' = released /\ CommitState(With(base, j.work), TRUE)
    <3>1. /\ holder'.at = "durable" /\ holder'.version = ver'.state /\ holder'.of = bound
          /\ holder'.base = base
      BY <1>4, <2>8 DEF Take
    <3>2. VersionsFit' /\ SaveFits' /\ DurableIsOnDisk' /\ ReleasedOnDisk'
      BY <1>1, <2>1, <2>4, <2>6, <2>8, <3>1, CommittingKeepsSaves DEF VersionsFit
    <3>3. CarriedOn'
      <4>1. /\ pending' # NoState => Carries(pending')
            /\ save'.at = "sent" /\ owner' = save'.bytes.of => Carries(save'.bytes)
            /\ cache' # NoState /\ owner' = cache'.of => Carries(cache')
        BY <1>1, <2>1, <2>4, <2>6, <2>8, CommittingKeepsSaves
      <4>2. owner' = holder'.of => Carries(holder'.base)
        BY <1>1, <2>5, <3>1
      <4> QED
        BY <2>8, <4>1, <4>2 DEF CarriedOn, Carries
    <3> QED
      BY <2>3, <3>2, <3>3 DEF DurableInv
  <2>9. CASE Kind(j.work) = "commit"
    <3> DEFINE w == IF ver.durable >= ver.state THEN ver.wanted ELSE Larger(ver.wanted, ver.state)
               v == [ver EXCEPT !.wanted = w]
    <3>1. /\ cache' = cache /\ ver' = v /\ SchedulePersist(cache, v) /\ base = cache
      BY <1>1, <1>4, <2>9 DEF Perform
    <3>2. /\ v \in Versions /\ v.state = ver.state /\ v.durable = ver.durable
          /\ v.persisted = ver.persisted /\ v.wanted <= v.state
      BY VersionTypes DEF Versions, Larger, DurableInv, VersionsFit
    <3> HIDE DEF v
    <3>3. /\ ver'.state = ver.state /\ ver'.durable = ver.durable /\ ver'.persisted = ver.persisted
          /\ ver'.wanted <= ver'.state
      BY <3>1, <3>2
    <3>4. cache \in State /\ cache # NoState
      BY <1>4, <3>1, PersistNoState
    <3>5. \/ save' = save
          \/ /\ save.at = "idle" /\ save'.at \in {"idle", "sent"}
             /\ save'.at # "idle" => save'.bytes = cache /\ save'.version = ver.state /\ ver.durable < ver.state
      BY <3>1, <3>2, <3>4, NextSaveFits, NextSaveIsNewer DEF SchedulePersist, DurableInv, VersionsFit
    <3>6. /\ holder'.version = ver'.state
          /\ holder'.at \in {"base", "sent"}
      <4>1. Take(j, "sent", base) \/ Take(j, "base", base)
        BY <1>1, <1>4, <2>9, PerformDoes
      <4> QED
        BY <4>1 DEF Take
    <3>7. VersionsFit'
      BY <3>3, <3>5, <3>6, VersionTypes DEF DurableInv, VersionsFit
    <3>8. SaveFits'
      BY <1>1, <3>1, <3>3, <3>5 DEF DurableInv, SaveFits
    <3>9. DurableIsOnDisk'
      BY <1>1, <3>1, <3>3 DEF DurableInv, DurableIsOnDisk
    <3>10. \/ released' = released
           \/ ver.durable >= ver.state /\ released' = released \cup {[of |-> bound, from |-> bound,
                                                needs |-> cache.did, generation |-> {}]}
      BY <1>1, <1>4, <2>9, <3>1, PerformDoes DEF Release
    <3>11. CASE released' = released
      <4>1. \A s : Carries(s)' <=> Carries(s)
        BY <3>11 DEF Carries
      <4>2. /\ pending # NoState => Carries(pending)
            /\ save.at = "sent" /\ owner = save.bytes.of => Carries(save.bytes)
            /\ owner = cache.of => Carries(cache)
        BY <3>4 DEF DurableInv, CarriedOn
      <4>3. save'.at = "sent" /\ owner = save'.bytes.of => Carries(save'.bytes)
        BY <3>5, <4>2
      <4>4. holder'.at # "durable"
        BY <3>6
      <4>5. CarriedOn'
        BY <1>1, <3>1, <4>1, <4>2, <4>3, <4>4 DEF CarriedOn
      <4>6. ReleasedOnDisk'
        BY <1>1, <3>11 DEF DurableInv, ReleasedOnDisk
      <4> QED
        BY <2>3, <3>7, <3>8, <3>9, <4>5, <4>6 DEF DurableInv
    <3>12. CASE ver.durable >= ver.state /\ released' = released \cup {[of |-> bound, from |-> bound,
                                                needs |-> cache.did, generation |-> {}]}
      <4>1. owner = bound /\ disk[owner] = cache /\ pending = NoState
        BY <1>4, <3>1, <3>4, <3>12 DEF DurableInv, DurableIsOnDisk
      <4>2. save'.at # "sent"
        BY <3>4, <3>5, <3>12, VersionTypes DEF DurableInv, VersionsFit, SaveFits
      <4>3. CarriedOn'
        BY <1>1, <1>4, <3>1, <3>6, <3>12, <4>1, <4>2 DEF DurableInv, CarriedOn, Carries
      <4>4. ReleasedOnDisk'
        BY <1>1, <3>4, <3>12, <4>1 DEF DurableInv, ReleasedOnDisk
      <4> QED
        BY <2>3, <3>7, <3>8, <3>9, <4>3, <4>4 DEF DurableInv
    <3> QED
      BY <3>10, <3>11, <3>12
  <2> QED
    BY <1>1, <1>4, <2>7, <2>8, <2>9, PerformDoes
<1> QED
  BY <1>1, <1>3, <1>4

LEMMA AnsweringKeepsDurable ==
  ASSUME WindowInv, NEW accepted \in BOOLEAN, Answer(accepted)
  PROVE  DurableInv'
<1> USE DEF WindowInv
<1>1. /\ UNCHANGED <<owner, disk, pending, gen, bound, queue, inits, released>> /\ holder.at = "sent"
      /\ Flushed' = Flushed
  BY DEF Answer, rustVars, Flushed
<1>2. CASE accepted /\ holder.gen = gen /\ cache = holder.base
  <2> DEFINE s == With(holder.base, holder.work)
  <2>1. /\ CommitState(s, TRUE)
        /\ holder' = [holder EXCEPT !.at = "durable", !.version = ver'.state]
    BY <1>2 DEF Answer
  <2>2. /\ cache \in State /\ cache # NoState /\ Kind(holder.work) = "commit"
        /\ s \in State /\ s.of = cache.of /\ s.did = cache.did \cup {holder.work}
    BY <1>1, <1>2, WithAdds, PersistNoState DEF PersistShape, HolderShape
  <2>3. /\ holder'.at = "durable" /\ holder'.version = ver'.state
        /\ holder'.work = holder.work
    BY <2>1 DEF PersistShape, PersistTypeOK, Holder
  <2> HIDE DEF s
  <2>4. owner = s.of => Carries(s)
    BY <2>2 DEF DurableInv, CarriedOn, Carries
  <2>5. /\ VersionsFit' /\ SaveFits' /\ DurableIsOnDisk' /\ ReleasedOnDisk'
        /\ pending' # NoState => Carries(pending')
        /\ save'.at = "sent" /\ owner' = save'.bytes.of => Carries(save'.bytes)
        /\ cache' # NoState /\ owner' = cache'.of => Carries(cache')
    BY <1>1, <2>1, <2>2, <2>3, <2>4, CommittingKeepsSaves DEF VersionsFit
  <2>6. CarriedOn'
    BY <1>1, <2>2, <2>3, <2>5 DEF CarriedOn, Carries
  <2>7. LoadIsNewest' /\ RegisterIsFirst'
    BY <1>1, <2>2 DEF ClaimInv, InitsFit, OneRegisters, LoadIsNewest, RegisterIsFirst, Registering
  <2> QED
    BY <2>5, <2>6, <2>7 DEF DurableInv
<1>3. CASE ~(accepted /\ holder.gen = gen /\ cache = holder.base)
  <2>1. holder' = Free /\ UNCHANGED <<cache, ver, save>>
    BY <1>3 DEF Answer
  <2> QED
    BY <1>1, <2>1
       DEF DurableInv, VersionsFit, SaveFits, DurableIsOnDisk, LoadIsNewest, RegisterIsFirst, Registering,
           CarriedOn, Carries, ReleasedOnDisk, Waits, Free
<1> QED
  BY <1>2, <1>3

LEMMA DurableStep ==
  ASSUME WindowInv, ClaimInv', "late" \notin PersistFaultKinds, [PersistNext /\ InOrder]_persistVars
  PROVE  DurableInv'
<1>1. CASE UNCHANGED persistVars \/ UiFollows \/ \E a \in Account : SignIn(a)
  <2>1. /\ UNCHANGED <<owner, disk, pending, gen, bound, cache, identity, ver, save, queue, holder, inits, released>>
        /\ Flushed' = Flushed
    BY <1>1 DEF persistVars, UiFollows, SignIn, rustVars, pageVars, lockVars, Flushed
  <2> QED
    BY <2>1
       DEF WindowInv, DurableInv, VersionsFit, SaveFits, DurableIsOnDisk, LoadIsNewest, RegisterIsFirst,
           Registering, CarriedOn, Carries, ReleasedOnDisk, Waits
<1>2. CASE PersistNext /\ InOrder
  <2>1. ASSUME ServerAccepts \/ ServerRejects PROVE Answer(TRUE) \/ Answer(FALSE)
    BY <2>1 DEF ServerAccepts, ServerRejects
  <2>2. ASSUME NEW i \in inits, RustLoads(i) PROVE DurableInv'
    BY <1>2, <2>2, LoadingKeepsDurable DEF InOrder
  <2> QED
    BY <1>1, <1>2, <2>1, <2>2, FlushKeepsDurable, SavingKeepsDurable, SucceedingKeepsDurable,
       FailingKeepsDurable, ResettingKeepsDurable, StartingKeepsDurable, AdoptingKeepsDurable,
       RegisteringKeepsDurable, CallingKeepsDurable, RestartingKeepsDurable, WorkingKeepsDurable,
       AnsweringKeepsDurable
       DEF PersistNext
<1> QED
  BY <1>1, <1>2

\* Where no load overtakes a save, and none is answered for another account after its session
\* ended, what the writer calls durable is on disk.
THEOREM WindowInvariance ==
  ASSUME "late" \notin PersistFaultKinds
  PROVE  PersistInit /\ [][PersistNext /\ InOrder]_persistVars => []WindowInv
<1>1. PersistInit => WindowInv
  BY PersistInitTyped, ClaimInit, DurableInit DEF WindowInv
<1>2. WindowInv /\ [PersistNext /\ InOrder]_persistVars => WindowInv'
  <2> SUFFICES ASSUME WindowInv, [PersistNext /\ InOrder]_persistVars PROVE WindowInv'
    OBVIOUS
  <2>1. [PersistNext]_persistVars
    OBVIOUS
  <2>2. PersistShape' /\ ClaimInv'
    BY <2>1, ShapeStep, ClaimStep DEF WindowInv
  <2> QED
    BY <2>2, DurableStep DEF WindowInv
<1> QED
  BY <1>1, <1>2, PTL

\* I5: under the same assumptions, a ciphertext or own commit that left the device depends on a
\* state that a crash at this moment would leave on disk.
THEOREM ReleasedOnDiskAlways ==
  ASSUME "late" \notin PersistFaultKinds
  PROVE  PersistInit /\ [][PersistNext /\ InOrder]_persistVars => []ReleasedOnDisk
<1>1. WindowInv => ReleasedOnDisk
  BY DEF WindowInv, DurableInv
<1> QED
  BY <1>1, WindowInvariance, PTL

-----------------------------------------------------------------------------
\* The storage is a cell per account. What has left the device does not come back,
\* and nothing leaves it in the step that writes a state.
LEMMA ReleasedSteps ==
  ASSUME [PersistNext]_persistVars
  PROVE  released \subseteq released' /\ (disk' = disk \/ released' = released)
<1>1. CASE UNCHANGED persistVars
  BY <1>1 DEF persistVars
<1>2. CASE \/ SaveFailed \/ SaveRefused \/ RustSaves \/ Flush \/ SwitchAccount \/ StartInit
           \/ UiFollows \/ \E a \in Account : SignIn(a)
           \/ \E kind \in {"crash", "reload"} : Restart(kind)
  BY <1>2 DEF SaveFailed, SaveRefused, RustSaves, Flush, SwitchAccount, StartInit, UiFollows,
              SignIn, Restart
<1>3. CASE \/ \E i \in inits : RustLoads(i) \/ InitLoaded(i) \/ InitRegistered(i)
           \/ \E kind \in {"decrypt", "encrypt", "commit"} : Call(kind)
           \/ ServerAccepts \/ ServerRejects
  BY <1>3 DEF RustLoads, InitLoaded, InitRegistered, Call, ServerAccepts, ServerRejects, Answer
<1>4. CASE SaveSucceeded
  <2>1. disk' = disk
    BY <1>4 DEF SaveSucceeded, rustVars
  <2>2. released' = released \/ Resume(holder)
    BY <1>4 DEF SaveSucceeded
  <2> QED
    BY <2>1, <2>2 DEF Resume, Release
<1>5. CASE StartWork
  <2>1. disk' = disk
    BY <1>5 DEF StartWork, rustVars
  <2>2. released' = released \/ \E j, base : Perform(j, base)
    BY <1>5 DEF StartWork
  <2> QED
    BY <2>1, <2>2 DEF Perform, Release
<1> QED
  BY <1>1, <1>2, <1>3, <1>4, <1>5 DEF PersistNext

\* Together with I5 that makes every step a save of the cell, or the promise of
\* what is there.
LEMMA LeftDeviceIsOnDisk ==
  ASSUME WindowInv, NEW a \in Account
  PROVE  /\ DidIn(disk[a]) \in SUBSET Work /\ LeftDevice(a) \subseteq DidIn(disk[a])
         /\ released = {} => LeftDevice(a) = {}
<1>1. disk[a] \in State \cup {NoState}
  BY DEF WindowInv, PersistShape, PersistTypeOK
<1>2. DidIn(disk[a]) \in SUBSET Work
  BY <1>1 DEF DidIn, State
<1>3. \A r \in released : r.of = a => r.needs \subseteq DidIn(disk[a])
  BY DEF WindowInv, DurableInv, ReleasedOnDisk, DidIn
<1> QED
  BY <1>2, <1>3 DEF LeftDevice

LEMMA LeftDeviceNext ==
  (WindowInv => \A a \in Account :
     DidIn(disk[a]) \in SUBSET Work /\ LeftDevice(a) \subseteq DidIn(disk[a]))'
<1>1. WindowInv => \A a \in Account :
        DidIn(disk[a]) \in SUBSET Work /\ LeftDevice(a) \subseteq DidIn(disk[a])
  BY LeftDeviceIsOnDisk
<1> QED
  BY <1>1, PTL

LEMMA DiskCellStep ==
  ASSUME WindowInv, WindowInv', [PersistNext]_persistVars, NEW a \in Account
  PROVE  [DiskCell(a)!Next]_(DiskCell(a)!vars)
<1>1. released \subseteq released' /\ (disk' = disk \/ released' = released)
  BY ReleasedSteps
<1>2. DidIn(disk[a])' \in SUBSET Work /\ LeftDevice(a)' \subseteq DidIn(disk[a])'
  BY LeftDeviceNext
<1>3. LeftDevice(a) \subseteq LeftDevice(a)'
  BY <1>1 DEF LeftDevice
<1>4. CASE disk' = disk
  <2>1. DidIn(disk[a])' = DidIn(disk[a])
    BY <1>4 DEF DidIn
  <2> QED
    BY <1>2, <1>3, <2>1 DEF DiskCell!Next, DiskCell!Complete
<1>5. CASE released' = released
  <2>1. LeftDevice(a)' = LeftDevice(a)
    BY <1>5 DEF LeftDevice
  <2> QED
    BY <1>2, <2>1 DEF DiskCell!Next, DiskCell!Write
<1> QED
  BY <1>1, <1>4, <1>5

\* What the window needs of the storage, and no more, is the cell that the files
\* of MlsStore are shown to be: a state is replaced by saves only, each includes
\* what has left the device, and what leaves is in the state that is there.
THEOREM DisksAreCellsAlways ==
  ASSUME "late" \notin PersistFaultKinds
  PROVE  PersistInit /\ [][PersistNext /\ InOrder]_persistVars => DisksAreCells
<1>1. WindowInv /\ WindowInv' /\ [PersistNext /\ InOrder]_persistVars
        => [\A a \in Account : [DiskCell(a)!Next]_(DiskCell(a)!vars)]_persistVars
  BY DiskCellStep
<1>2. PersistInit => \A a \in Account : DiskCell(a)!Init
  <2> SUFFICES ASSUME PersistInit, NEW a \in Account PROVE DiskCell(a)!Init
    OBVIOUS
  <2>1. WindowInv
    BY PersistInitTyped, ClaimInit, DurableInit DEF WindowInv
  <2>2. released = {}
    BY DEF PersistInit
  <2> QED
    BY <2>1, <2>2, LeftDeviceIsOnDisk DEF DiskCell!Init
<1> QED
  BY <1>1, <1>2, WindowInvariance, PTL DEF DisksAreCells

-----------------------------------------------------------------------------
\* The device states there are.
InMemory == ({disk[a] : a \in Account} \cup {i.got : i \in inits}
               \cup {pending, cache, save.bytes, holder.base}) \ {NoState}
\* Nobody has done the n-th work, or any that was made after it.
Undone(n) ==
    /\ \A s \in InMemory : \A w \in s.did : w[2] < n
    /\ holder.at # "free" => holder.work[2] < n
\* Work is done in the order it was made in, once.
NewerWork == \A k \in DOMAIN queue :
    queue[k].work[2] <= made /\ \A l \in DOMAIN queue : l < k => queue[l].work[2] < queue[k].work[2]
WorkIsNew ==
    /\ Undone(made + 1)
    /\ \A k \in DOMAIN queue : Undone(queue[k].work[2])
    /\ holder.at # "free" => \A w \in holder.base.did : w[2] < holder.work[2]
\* A ciphertext's generation is told by the work its state had absorbed.
Encrypts(did) == {w \in did : Kind(w) = "encrypt"}
GenerationsFit == \A r \in released :
    r.generation # {} => r.generation = {Cardinality(Encrypts(r.needs)) - 1}
GenInv == NewerWork /\ WorkIsNew /\ GenerationsFit /\ NoGenerationReuse

LEMMA GenInit == PersistInit => GenInv
<1> SUFFICES ASSUME PersistInit PROVE GenInv
  OBVIOUS
<1>1. \A s \in InMemory : s.did = {}
  BY DEF PersistInit, InMemory, NoSave, Free
<1> QED
  BY <1>1 DEF PersistInit, GenInv, NewerWork, WorkIsNew, Undone, GenerationsFit, NoGenerationReuse, Free

LEMMA GenTypes ==
  ASSUME PersistShape
  PROVE  /\ made \in Nat /\ made + 1 \in Nat /\ made < made + 1
         /\ \A s \in InMemory : s \in State
         /\ \A s \in State : \A w \in s.did : w \in Work /\ w[2] \in Nat
         /\ \A k \in DOMAIN queue : k \in Nat /\ queue[k].work \in Work /\ queue[k].work[2] \in Nat
         /\ holder.at # "free" => holder.base \in InMemory /\ holder.work \in Work /\ holder.work[2] \in Nat
<1>1. made \in Nat /\ made + 1 \in Nat /\ made < made + 1
  BY DEF PersistShape, PersistTypeOK
<1>2. \A s \in InMemory : s \in State
  <2>1. /\ \A a \in Account : disk[a] \in State \cup {NoState}
        /\ \A i \in inits : i.got \in State \cup {NoState}
        /\ pending \in State \cup {NoState} /\ cache \in State \cup {NoState}
        /\ save.bytes \in State \cup {NoState} /\ holder.base \in State \cup {NoState}
    BY DEF PersistShape, PersistTypeOK, Save, Holder
  <2> QED
    BY <2>1 DEF InMemory
<1>3. \A s \in State : \A w \in s.did : w \in Work /\ w[2] \in Nat
  BY WorkParts DEF State
<1>4. \A k \in DOMAIN queue : k \in Nat /\ queue[k].work \in Work /\ queue[k].work[2] \in Nat
  <2>1. queue \in Seq(Job) /\ \A k \in DOMAIN queue : queue[k].work \in Work
    BY QueueParts DEF Job, PersistShape
  <2>2. DOMAIN queue = 1..Len(queue) /\ Len(queue) \in Nat
    BY <2>1
  <2> QED
    BY <2>1, <2>2, WorkParts
<1>5. holder.at # "free" => holder.base \in InMemory /\ holder.work \in Work /\ holder.work[2] \in Nat
  BY PersistNoState, WorkParts DEF PersistShape, HolderShape, InMemory
<1> QED
  BY <1>1, <1>2, <1>3, <1>4, <1>5

\* A step that makes no state and starts no work does none.
LEMMA NothingNewIsDone ==
  ASSUME WorkIsNew, InMemory' \subseteq InMemory, UNCHANGED made,
         holder'.at # "free" =>
            holder.at # "free" /\ holder'.work = holder.work /\ holder'.base = holder.base,
         queue' = queue \/ queue' = <<>>
  PROVE  WorkIsNew'
<1>1. ASSUME NEW n, Undone(n) PROVE Undone(n)'
  BY <1>1 DEF Undone
<1>2. Undone(made + 1)'
  BY <1>1 DEF WorkIsNew
<1>4. holder'.at # "free" => \A w \in holder'.base.did : w[2] < holder'.work[2]
  BY DEF WorkIsNew
<1>3. (\A k \in DOMAIN queue : Undone(queue[k].work[2]))'
  <2>1. CASE queue' = queue
    BY <1>1, <2>1 DEF WorkIsNew
  <2>2. CASE queue' = <<>>
    BY <2>2
  <2> QED
    BY <2>1, <2>2
<1> QED
  BY <1>2, <1>3, <1>4 DEF WorkIsNew

LEMMA MemoryHas ==
  ASSUME PersistShape
  PROVE  /\ \A a \in Account : disk[a] \in InMemory \cup {NoState} /\ Flushed[a] \in InMemory \cup {NoState}
         /\ \A i \in inits : i.got \in InMemory \cup {NoState}
         /\ {pending, cache, save.bytes, holder.base} \subseteq InMemory \cup {NoState}
<1>1. \A a \in Account : disk[a] \in InMemory \cup {NoState}
  BY DEF InMemory
<1>2. {pending, cache, save.bytes, holder.base} \subseteq InMemory \cup {NoState}
  BY DEF InMemory
<1>3. \A a \in Account : Flushed[a] \in InMemory \cup {NoState}
  BY <1>1, <1>2, FlushedOnce DEF PersistShape
<1>4. \A i \in inits : i.got \in InMemory \cup {NoState}
  BY DEF InMemory
<1> QED
  BY <1>1, <1>2, <1>3, <1>4

LEMMA IdleKeepsWork ==
  ASSUME PersistShape, WorkIsNew, NewerWork,
         \/ RustSaves \/ Flush \/ UiFollows \/ (\E a \in Account : SignIn(a)) \/ SaveSucceeded
         \/ SaveFailed \/ SaveRefused \/ SwitchAccount \/ StartInit
         \/ (\E kind \in {"crash", "reload"} : Restart(kind))
         \/ (\E i \in inits : RustLoads(i) \/ InitLoaded(i))
  PROVE  WorkIsNew' /\ NewerWork'
<1>1. made' = made /\ (queue' = queue \/ queue' = <<>>)
  BY DEF RustSaves, Flush, UiFollows, SignIn, SaveSucceeded, SaveFailed, SaveRefused, SwitchAccount,
         StartInit, Restart, RustLoads, InitLoaded, lockVars, boundVars
<1>2. NewerWork'
  BY <1>1 DEF NewerWork
<1>3. holder'.at # "free" =>
         holder.at # "free" /\ holder'.work = holder.work /\ holder'.base = holder.base
  <2>1. \/ holder' \in {holder, Free}
        \/ holder' = [holder EXCEPT !.at = "sent"] /\ holder.at = "base"
    BY DEF RustSaves, Flush, UiFollows, SignIn, SaveSucceeded, SaveFailed, SaveRefused, SwitchAccount,
           StartInit, Restart, RustLoads, InitLoaded, lockVars, ResetForUser, Resume, Settled, Waits
  <2>2. holder \in Holder /\ Free.at = "free"
    BY DEF Free, PersistShape, PersistTypeOK
  <2> QED
    BY <2>1, <2>2 DEF Holder
<1>4. InMemory' \subseteq InMemory
  <2> DEFINE M == InMemory
  <2>1. \A a \in Account : disk'[a] \in M \cup {NoState}
    <3>1. \/ disk' = disk \/ disk' = Flushed
          \/ owner \in Account /\ disk' = [disk EXCEPT ![owner] = save.bytes]
      BY DEF RustSaves, Flush, UiFollows, SignIn, SaveSucceeded, SaveFailed, SaveRefused, SwitchAccount,
             StartInit, Restart, RustLoads, InitLoaded, rustVars, SaveShape, State, PersistShape
    <3>2. disk \in [Account -> State \cup {NoState}]
      BY DEF PersistShape, PersistTypeOK
    <3> QED
      BY <3>1, <3>2, MemoryHas
  <2>2. \A i \in inits' : i.got \in M \cup {NoState}
    <3>1. CASE \E i \in inits : RustLoads(i)
      <4>1. PICK i \in inits : RustLoads(i)
        BY <3>1
      <4> DEFINE at == IF Flushed[session] = NoState THEN "fresh" ELSE "loaded"
                 read == [i EXCEPT !.at = at, !.got = Flushed[session]]
                 failed == [i EXCEPT !.at = "failed"]
      <4>2. read.got = Flushed[session] /\ failed.got = i.got /\ session \in Account
        BY DEF PersistShape, PersistTypeOK
      <4>3. inits' = (inits \ {i}) \cup {read} \/ inits' = (inits \ {i}) \cup {failed}
        BY <4>1 DEF RustLoads
      <4> HIDE DEF read, failed
      <4> QED
        BY <4>2, <4>3, MemoryHas
    <3>2. CASE \E i \in inits : InitLoaded(i)
      <4>1. PICK i \in inits : InitLoaded(i)
        BY <3>2
      <4> DEFINE next == [i EXCEPT !.at = "register"]
      <4>2. next.got = i.got
        BY DEF PersistShape, PersistTypeOK
      <4>3. inits' = (inits \ {i}) \cup {next} \/ inits' = inits \ {i}
        BY <4>1 DEF InitLoaded
      <4> HIDE DEF next
      <4> QED
        BY <4>2, <4>3, MemoryHas
    <3>3. CASE SwitchAccount \/ StartInit
      BY <3>3, MemoryHas DEF SwitchAccount, StartInit, NewInit
    <3>4. CASE \/ RustSaves \/ Flush \/ UiFollows \/ (\E a \in Account : SignIn(a)) \/ SaveSucceeded
               \/ SaveFailed \/ SaveRefused \/ (\E kind \in {"crash", "reload"} : Restart(kind))
      <4>1. inits' = inits \/ inits' = {}
        BY <3>4 DEF RustSaves, Flush, UiFollows, SignIn, SaveSucceeded, SaveFailed, SaveRefused, Restart
      <4> QED
        BY <4>1, MemoryHas
    <3> QED
      BY <3>1, <3>2, <3>3, <3>4
  <2>3. pending' \in M \cup {NoState}
    <3>1. pending' \in {pending, NoState, save.bytes}
      BY DEF RustSaves, Flush, UiFollows, SignIn, SaveSucceeded, SaveFailed, SaveRefused, SwitchAccount,
             StartInit, Restart, RustLoads, InitLoaded, rustVars
    <3> QED
      BY <3>1, MemoryHas
  <2>4. cache' \in M \cup {NoState}
    <3>1. cache' \in {cache, NoState} \/ \E i \in inits : cache' = i.got
      BY DEF RustSaves, Flush, UiFollows, SignIn, SaveSucceeded, SaveFailed, SaveRefused, SwitchAccount,
             StartInit, Restart, RustLoads, InitLoaded, pageVars, ResetForUser, Resume, IdentitySettles
    <3> QED
      BY <3>1, MemoryHas
  <2>5. save'.bytes \in M \cup {NoState}
    <3>1. \/ save' \in {save, NoSave, NextSave(cache, ver')}
          \/ \E at \in {"refused", "ok", "failed"} : save' = [save EXCEPT !.at = at]
      BY DEF RustSaves, Flush, UiFollows, SignIn, SaveSucceeded, SaveFailed, SaveRefused, SwitchAccount,
             StartInit, Restart, RustLoads, InitLoaded
    <3>2. NoSave.bytes = NoState /\ NextSave(cache, ver').bytes \in {cache, NoState} /\ save \in Save
      BY DEF NoSave, NextSave, PersistShape, PersistTypeOK
    <3> QED
      BY <3>1, <3>2, MemoryHas DEF Save
  <2>6. holder'.base \in M \cup {NoState}
    <3>1. holder' \in {holder, Free, [holder EXCEPT !.at = "sent"]}
      BY DEF RustSaves, Flush, UiFollows, SignIn, SaveSucceeded, SaveFailed, SaveRefused, SwitchAccount,
             StartInit, Restart, RustLoads, InitLoaded, lockVars, ResetForUser, Resume, Settled, Waits
    <3>2. holder \in Holder /\ Free.base = NoState
      BY DEF Free, PersistShape, PersistTypeOK
    <3> QED
      BY <3>1, <3>2, MemoryHas DEF Holder
  <2> HIDE DEF M
  <2>7. InMemory' \subseteq M
    BY <2>1, <2>2, <2>3, <2>4, <2>5, <2>6 DEF InMemory
  <2> QED
    BY <2>7 DEF M
<1> QED
  BY <1>1, <1>2, <1>3, <1>4, NothingNewIsDone

\* The next work is newer than all that was made.
LEMMA QueueingKeepsWork ==
  ASSUME PersistShape, WorkIsNew, NewerWork, NEW j \in Job, j.work[2] = made + 1,
         queue' = Append(queue, j), made' = made + 1, inits' \subseteq inits,
         UNCHANGED <<disk, pending, cache, save, holder>>
  PROVE  WorkIsNew' /\ NewerWork'
<1>1. PICK n : /\ DOMAIN queue' = DOMAIN queue \cup {n} /\ n \notin DOMAIN queue /\ queue'[n] = j
               /\ \A k \in DOMAIN queue : queue'[k] = queue[k] /\ k < n
               /\ n \in Nat
  <2>1. queue \in Seq(Job) /\ Len(queue) \in Nat /\ DOMAIN queue = 1..Len(queue)
    BY QueueParts DEF PersistShape
  <2>2. Len(queue) + 1 \in Nat /\ \A k \in DOMAIN queue : k < Len(queue) + 1
    BY <2>1
  <2> QED
    BY <2>2, AppendParts DEF PersistShape
<1>2. InMemory' \subseteq InMemory
  BY DEF InMemory
<1>3. ASSUME NEW m, Undone(m) PROVE Undone(m)'
  BY <1>2, <1>3 DEF Undone
<1>4. Undone(made + 1)' /\ Undone(made')
  <2>1. \A s \in InMemory' : \A w \in s.did : w[2] < made' + 1
    BY <1>2, GenTypes DEF WorkIsNew, Undone
  <2>2. holder'.at # "free" => holder'.work[2] < made' + 1
    BY GenTypes DEF WorkIsNew, Undone
  <2> QED
    BY <2>1, <2>2 DEF WorkIsNew, Undone
<1>5. (\A k \in DOMAIN queue : Undone(queue[k].work[2]))'
  <2>1. ASSUME NEW k \in DOMAIN queue' PROVE Undone(queue'[k].work[2])
    <3>1. CASE k \in DOMAIN queue
      BY <1>1, <3>1 DEF WorkIsNew
    <3>2. CASE k = n
      BY <1>1, <1>4, <3>2
    <3> QED
      BY <1>1, <3>1, <3>2
  <2> QED
    BY <1>3, <2>1
<1>6. NewerWork'
  <2>1. \A k \in DOMAIN queue : queue[k].work[2] <= made /\ queue[k].work[2] \in Nat
    BY GenTypes DEF NewerWork
  <2>2. \A k \in DOMAIN queue' : queue'[k].work[2] <= made'
    BY <1>1, <2>1, GenTypes
  <2>3. ASSUME NEW k \in DOMAIN queue', NEW l \in DOMAIN queue', l < k
        PROVE  queue'[l].work[2] < queue'[k].work[2]
    <3>1. l \in DOMAIN queue
      BY <1>1, <2>3, GenTypes
    <3>2. CASE k = n
      BY <1>1, <2>1, <3>1, <3>2, GenTypes
    <3>3. CASE k \in DOMAIN queue
      BY <1>1, <2>3, <3>1, <3>3 DEF NewerWork
    <3> QED
      BY <1>1, <3>2, <3>3
  <2> QED
    BY <2>2, <2>3 DEF NewerWork
<1> QED
  BY <1>4, <1>5, <1>6 DEF WorkIsNew

LEMMA CallingKeepsWork ==
  ASSUME PersistShape, ClaimInv, WorkIsNew, NewerWork,
         (\E i \in inits : InitRegistered(i))
           \/ (\E kind \in {"decrypt", "encrypt", "commit"} : Call(kind))
  PROVE  WorkIsNew' /\ NewerWork'
<1>1. made \in Nat /\ gen \in Nat /\ ui \in Account
  BY ClaimTypes DEF PersistShape, PersistTypeOK
<1>2. ASSUME NEW kind \in {"decrypt", "encrypt", "commit"}, Call(kind) PROVE WorkIsNew' /\ NewerWork'
  <2> DEFINE job == [work |-> <<kind, made + 1>>, of |-> ui, gen |-> gen]
  <2>1. job \in Job /\ job.work[2] = made + 1
    BY <1>1, <1>2, WorkMade DEF Call, Job
  <2>2. /\ queue' = Append(queue, job) /\ made' = made + 1 /\ inits' = inits
        /\ UNCHANGED <<disk, pending, cache, save, holder>>
    BY <1>2 DEF Call, rustVars, pageVars
  <2> HIDE DEF job
  <2> QED
    BY <2>1, <2>2, QueueingKeepsWork
<1>3. ASSUME NEW i \in inits, InitRegistered(i) PROVE WorkIsNew' /\ NewerWork'
  <2> DEFINE job == [work |-> <<"identity", made + 1>>, of |-> i.of, gen |-> gen]
  <2>1. inits' = inits \ {i} /\ UNCHANGED <<disk, pending, cache, save, holder>>
    BY <1>3 DEF InitRegistered, rustVars
  <2>2. CASE i.gen # gen \/ made >= MaxJobs
    <3>1. UNCHANGED <<queue, made>>
      BY <1>3, <2>2 DEF InitRegistered
    <3>2. InMemory' \subseteq InMemory
      BY <2>1 DEF InMemory
    <3> QED
      BY <2>1, <3>1, <3>2, NothingNewIsDone DEF NewerWork
  <2>3. CASE ~(i.gen # gen \/ made >= MaxJobs)
    <3>1. queue' = Append(queue, job) /\ made' = made + 1 /\ made < MaxJobs /\ i.of \in Account
      BY <1>1, <1>3, <2>3, ClaimTypes, PersistBounds DEF InitRegistered
    <3>2. job \in Job /\ job.work[2] = made + 1
      BY <1>1, <3>1, WorkMade DEF Job
    <3> HIDE DEF job
    <3> QED
      BY <2>1, <3>1, <3>2, QueueingKeepsWork
  <2> QED
    BY <2>2, <2>3
<1> QED
  BY <1>2, <1>3

\* Work that is done goes into states of its base; the next in line is newer.
LEMMA DoingKeepsWork ==
  ASSUME PersistShape, ClaimInv, WorkIsNew, NewerWork, StartWork
  PROVE  WorkIsNew' /\ NewerWork'
<1>1. PICK j, base :
        /\ j \in Job /\ j = queue[1] /\ 1 \in DOMAIN queue /\ holder = Free
        /\ base = IF Kind(j.work) = "identity" THEN [of |-> j.of, did |-> {}] ELSE cache
        /\ UNCHANGED <<inits, disk, pending, made>> /\ queue' = Tail(queue)
        /\ \/ base \in State /\ Perform(j, base)
           \/ UNCHANGED <<ver, save, holder, released>> /\ cache' \in {cache, NoState}
  BY StartWorkDoes
<1>2. \A k \in DOMAIN queue' : k \in Nat /\ k + 1 \in DOMAIN queue /\ queue'[k] = queue[k + 1] /\ 1 < k + 1
  <2>1. queue # <<>> /\ queue \in Seq(Job)
    BY QueueParts DEF StartWork, PersistShape
  <2>2. \A k \in DOMAIN queue' : k + 1 \in DOMAIN queue /\ queue'[k] = queue[k + 1]
    BY <1>1, <2>1, QueueParts DEF PersistShape
  <2>3. \A k \in DOMAIN queue' : k \in Nat /\ k # 0
    <3>1. queue' \in Seq(Job)
      BY <1>1, <2>1
    <3> QED
      BY <3>1
  <2> QED
    BY <2>2, <2>3
<1>3. NewerWork'
  <2>1. \A k \in DOMAIN queue' : queue'[k].work[2] <= made'
    BY <1>1, <1>2 DEF NewerWork
  <2>2. ASSUME NEW k \in DOMAIN queue', NEW l \in DOMAIN queue', l < k
        PROVE  queue'[l].work[2] < queue'[k].work[2]
    <3>1. l + 1 < k + 1
      BY <1>2, <2>2
    <3> QED
      BY <1>2, <3>1 DEF NewerWork
  <2> QED
    BY <2>1, <2>2 DEF NewerWork
<1>4. /\ Undone(j.work[2]) /\ j.work[2] \in Nat /\ j.work \in Work
      /\ j.work[2] < made + 1
      /\ \A k \in DOMAIN queue' : j.work[2] < queue'[k].work[2]
  BY <1>1, <1>2, GenTypes DEF WorkIsNew, NewerWork
<1>5. CASE UNCHANGED <<ver, save, holder, released>> /\ cache' \in {cache, NoState}
  <2>1. InMemory' \subseteq InMemory
    BY <1>1, <1>5 DEF InMemory
  <2>2. ASSUME NEW m, Undone(m) PROVE Undone(m)'
    BY <1>5, <2>1, <2>2 DEF Undone
  <2>3. (\A k \in DOMAIN queue : Undone(queue[k].work[2]))'
    BY <1>2, <2>2 DEF WorkIsNew
  <2>4. Undone(made + 1)'
    BY <1>1, <2>2 DEF WorkIsNew
  <2> QED
    BY <1>3, <1>5, <2>3, <2>4 DEF WorkIsNew
<1>6. CASE base \in State /\ Perform(j, base)
  <2>1. base.did = {} \/ base \in InMemory
    BY <1>1, <1>6, PersistNoState DEF InMemory
  <2>2. \A w \in base.did : w[2] < j.work[2]
    BY <1>4, <2>1 DEF Undone
  <2>3. With(base, j.work).did = base.did \cup {j.work}
    BY <1>4, <1>6, WithAdds
  <2>4. /\ cache' \in {cache, With(base, j.work)}
        /\ save'.bytes \in {save.bytes, cache', NoState}
        /\ \/ holder' = holder
           \/ holder'.base = base /\ holder'.work = j.work
    <3>1. /\ cache' \in {cache, With(base, j.work)}
          /\ holder' = holder \/ \E stage : Take(j, stage, base)
      BY <1>1, <1>6, PerformDoes
    <3>2. \E v : SchedulePersist(cache', v)
      BY <1>6 DEF Perform, CommitState
    <3>3. save'.bytes \in {save.bytes, cache', NoState}
      BY <3>2 DEF SchedulePersist, NextSave, NoSave
    <3> QED
      BY <3>1, <3>3 DEF Take
  <2>5. \A s \in InMemory' : s \in InMemory \/ s.did = {} \/ s \in {With(base, j.work), base}
    BY <1>1, <2>4 DEF InMemory
  <2>6. ASSUME NEW s \in InMemory', NEW w \in s.did
        PROVE  w[2] <= j.work[2] /\ w[2] \in Nat
    <3>1. CASE s \in InMemory
      BY <1>4, <2>6, <3>1, GenTypes DEF Undone
    <3>2. CASE s \in {With(base, j.work), base}
      BY <1>4, <1>6, <2>2, <2>3, <2>6, <3>2, GenTypes
    <3> QED
      BY <2>5, <2>6, <3>1, <3>2
  <2>7. ASSUME NEW m \in Nat, j.work[2] < m PROVE Undone(m)'
    <3>1. \A s \in InMemory' : \A w \in s.did : w[2] < m
      BY <1>4, <2>6, <2>7
    <3>2. holder'.at # "free" => holder'.work[2] < m
      BY <1>1, <2>4, <2>7 DEF Free
    <3> QED
      BY <3>1, <3>2 DEF Undone
  <2>8. Undone(made + 1)'
    BY <1>1, <1>4, <2>7, GenTypes
  <2>9. (\A k \in DOMAIN queue : Undone(queue[k].work[2]))'
    BY <1>2, <1>4, <2>7, GenTypes
  <2>10. holder'.at # "free" => \A w \in holder'.base.did : w[2] < holder'.work[2]
    BY <1>1, <2>2, <2>4 DEF Free
  <2> QED
    BY <1>3, <2>8, <2>9, <2>10 DEF WorkIsNew
<1> QED
  BY <1>1, <1>5, <1>6

LEMMA AnsweringKeepsWork ==
  ASSUME PersistShape, WorkIsNew, NewerWork, NEW accepted \in BOOLEAN, Answer(accepted)
  PROVE  WorkIsNew' /\ NewerWork'
<1>1. UNCHANGED <<disk, pending, inits, queue, made>> /\ holder.at = "sent"
  BY DEF Answer, rustVars
<1>2. NewerWork'
  BY <1>1 DEF NewerWork
<1>3. CASE accepted /\ holder.gen = gen /\ cache = holder.base
  <2> DEFINE s == With(holder.base, holder.work)
  <2>1. /\ CommitState(s, TRUE)
        /\ holder' = [holder EXCEPT !.at = "durable", !.version = ver'.state]
    BY <1>3 DEF Answer
  <2>2. /\ holder.base \in State /\ holder.work \in Work /\ s.did = holder.base.did \cup {holder.work}
        /\ holder.base \in InMemory /\ holder.work[2] \in Nat
    BY <1>1, WithAdds, GenTypes DEF PersistShape, HolderShape
  <2>3. holder'.work = holder.work /\ holder'.base = holder.base /\ holder'.at = "durable"
    BY <2>1 DEF PersistShape, PersistTypeOK, Holder
  <2> HIDE DEF s
  <2>4. save'.bytes \in {save.bytes, s, NoState} /\ cache' = s
    BY <2>1 DEF CommitState, SchedulePersist, NextSave, NoSave
  <2>5. \A t \in InMemory' : t \in InMemory \/ t = s
    BY <1>1, <2>2, <2>3, <2>4 DEF InMemory
  <2>6. ASSUME NEW m, Undone(m) PROVE Undone(m)'
    <3>1. \A w \in s.did : w[2] < m
      BY <1>1, <2>2, <2>6 DEF Undone
    <3> QED
      BY <1>1, <2>3, <2>5, <2>6, <3>1 DEF Undone
  <2>7. Undone(made + 1)' /\ (\A k \in DOMAIN queue : Undone(queue[k].work[2]))'
    BY <1>1, <2>6 DEF WorkIsNew
  <2>8. \A w \in holder'.base.did : w[2] < holder'.work[2]
    BY <1>1, <2>3 DEF WorkIsNew
  <2> QED
    BY <1>2, <2>7, <2>8 DEF WorkIsNew
<1>4. CASE ~(accepted /\ holder.gen = gen /\ cache = holder.base)
  <2>1. holder' = Free /\ UNCHANGED <<cache, save>>
    BY <1>4 DEF Answer
  <2>2. InMemory' \subseteq InMemory
    BY <1>1, <2>1 DEF InMemory, Free
  <2> QED
    BY <1>1, <1>2, <2>1, <2>2, NothingNewIsDone DEF Free
<1> QED
  BY <1>3, <1>4

LEMMA WorkStep ==
  ASSUME PersistShape, ClaimInv, WorkIsNew, NewerWork, [PersistNext]_persistVars
  PROVE  WorkIsNew' /\ NewerWork'
<1>1. CASE UNCHANGED persistVars
  BY <1>1 DEF persistVars, WorkIsNew, NewerWork, Undone, InMemory
<1>2. CASE PersistNext
  <2>1. ASSUME ServerAccepts \/ ServerRejects PROVE Answer(TRUE) \/ Answer(FALSE)
    BY <2>1 DEF ServerAccepts, ServerRejects
  <2> QED
    BY <1>2, <2>1, IdleKeepsWork, CallingKeepsWork, DoingKeepsWork, AnsweringKeepsWork DEF PersistNext
<1> QED
  BY <1>1, <1>2

\* What a step releases: nothing, an own commit, or the one ciphertext whose work the lock holder
\* had done; that one is of the account the window may write for.
LEMMA WhatLeaves ==
  ASSUME WindowInv, [PersistNext]_persistVars
  PROVE  \/ released' = released
         \/ \E r : r.generation = {} /\ released' = released \cup {r}
         \/ /\ holder.at = "durable" /\ Kind(holder.work) = "encrypt" /\ owner = holder.of
            /\ released' = released \cup {[of |-> holder.of, from |-> holder.base.of,
                                           needs |-> holder.base.did \cup {holder.work},
                                           generation |-> {Generation(holder.base)}]}
<1> USE DEF WindowInv
<1>1. CASE SaveSucceeded
  <2>1. CASE ~Settled(holder, ver')
    BY <1>1, <2>1 DEF SaveSucceeded
  <2>2. CASE Settled(holder, ver')
    <3>1. Waits(holder) /\ Resume(holder) /\ cache' = cache
      BY <1>1, <2>2, NobodyElse DEF SaveSucceeded, Settled, Resume, IdentitySettles
    <3>2. CASE holder.at = "base"
      <4> DEFINE r == [of |-> holder.of, from |-> holder.base.of, needs |-> holder.base.did,
                       generation |-> {}]
      <4>1. r.generation = {} /\ released' = released \cup {r}
        BY <3>1, <3>2 DEF Resume, Release
      <4> QED
        BY <4>1
    <3>3. CASE holder.at = "durable" /\ Kind(holder.work) = "encrypt"
      <4>1. /\ holder.base \in State /\ holder.work \in Work
            /\ released' = released \cup {[of |-> holder.of, from |-> With(holder.base, holder.work).of,
                    needs |-> With(holder.base, holder.work).did, generation |-> {Generation(holder.base)}]}
        BY <3>1, <3>3 DEF Resume, Release, PersistShape, HolderShape
      <4>2. /\ cache # NoState /\ cache.of = bound /\ holder.of = bound /\ holder.version = ver.state
        BY <3>1, NobodyElse DEF DurableInv, VersionsFit
      <4>3. ver'.durable >= ver'.state
        <5>1. save.at = "ok" /\ ver' = Accepted(save, ver) /\ holder.version <= ver'.durable
          BY <1>1, <2>2 DEF SaveSucceeded, Settled
        <5>2. ver'.state = ver.state /\ ver' \in Versions
          BY <3>1, <5>1, SettledIsOnDisk
        <5>3. ver.state \in Nat /\ ver'.durable \in Nat
          BY <5>2, VersionTypes DEF Versions
        <5> QED
          BY <4>2, <5>1, <5>2, <5>3
      <4>4. owner = holder.of
        <5>1. save.at = "ok" /\ ver' = Accepted(save, ver)
          BY <1>1 DEF SaveSucceeded
        <5> QED
          BY <3>1, <4>2, <4>3, <5>1, SettledIsOnDisk
      <4> QED
        BY <3>3, <4>1, <4>4, WithAdds
    <3>4. CASE holder.at = "durable" /\ Kind(holder.work) # "encrypt"
      BY <3>1, <3>4 DEF Resume
    <3> QED
      BY <3>1, <3>2, <3>3, <3>4 DEF Waits
  <2> QED
    BY <2>1, <2>2
<1>2. CASE StartWork
  <2>1. PICK j, base :
          /\ j \in Job /\ holder = Free
          /\ base = IF Kind(j.work) = "identity" THEN [of |-> j.of, did |-> {}] ELSE cache
          /\ \/ base \in State /\ Perform(j, base)
             \/ released' = released
    BY <1>2, StartWorkDoes
  <2>2. released' = released \/ Release(j, base, {})
    BY <2>1, PerformDoes
  <2> DEFINE r == [of |-> j.of, from |-> base.of, needs |-> base.did, generation |-> {}]
  <2>3. r.generation = {} /\ (released' = released \/ released' = released \cup {r})
    BY <2>2 DEF Release
  <2> QED
    BY <2>3
<1>3. ASSUME UNCHANGED persistVars \/ (PersistNext /\ ~SaveSucceeded /\ ~StartWork)
      PROVE  released' = released
  BY <1>3 DEF persistVars, PersistNext, SaveFailed, SaveRefused, RustSaves, Flush, SignIn, SwitchAccount,
              StartInit, RustLoads, InitLoaded, InitRegistered, Call, ServerAccepts, ServerRejects,
              Answer, UiFollows, Restart
<1> QED
  BY <1>1, <1>2, <1>3

LEMMA GenStep ==
  ASSUME WindowInv, GenInv, [PersistNext]_persistVars
  PROVE  GenInv'
<1>1. WorkIsNew' /\ NewerWork'
  BY WorkStep DEF WindowInv, GenInv
<1>2. \A r \in released : r.needs \subseteq Work /\ r.generation \subseteq Nat
  BY DEF WindowInv, PersistShape, PersistTypeOK
<1>3. CASE released' = released
  BY <1>1, <1>3 DEF GenInv, GenerationsFit, NoGenerationReuse
<1>4. ASSUME NEW r, r.generation = {}, released' = released \cup {r}
      PROVE  GenInv'
  <2>1. GenerationsFit'
    BY <1>4 DEF GenInv, GenerationsFit
  <2>2. NoGenerationReuse'
    BY <1>4 DEF GenInv, NoGenerationReuse
  <2> QED
    BY <1>1, <2>1, <2>2 DEF GenInv
<1>5. CASE /\ holder.at = "durable" /\ Kind(holder.work) = "encrypt" /\ owner = holder.of
           /\ released' = released \cup {[of |-> holder.of, from |-> holder.base.of,
                                          needs |-> holder.base.did \cup {holder.work},
                                          generation |-> {Generation(holder.base)}]}
  <2> DEFINE old == Encrypts(holder.base.did)
             new == Encrypts(holder.base.did \cup {holder.work})
             r == [of |-> holder.of, from |-> holder.base.of,
                   needs |-> holder.base.did \cup {holder.work}, generation |-> {Generation(holder.base)}]
  <2>1. holder.base \in State /\ holder.work \in Work /\ holder.base.of = holder.of
    BY <1>5 DEF WindowInv, PersistShape, HolderShape, ClaimInv, HolderFits
  <2>2. IsFiniteSet(old) /\ Cardinality(old) \in Nat /\ Generation(holder.base) = Cardinality(old)
    <3>1. old \subseteq Work
      BY <2>1 DEF State, Encrypts
    <3> QED
      BY <3>1, WorkIsFinite, FS_Subset, FS_CardinalityType DEF Generation, Encrypts
  <2>3. holder.work \notin old
    <3>1. \A w \in holder.base.did : w[2] < holder.work[2] /\ w[2] \in Nat
      BY <1>5, <2>1, GenTypes DEF WindowInv, GenInv, WorkIsNew
    <3> QED
      BY <3>1 DEF Encrypts
  <2>4. new = old \cup {holder.work}
    BY <1>5 DEF Encrypts
  <2> HIDE DEF old, new
  <2>5. Cardinality(new) = Cardinality(old) + 1
    BY <2>2, <2>3, <2>4, FS_AddElement
  <2>6. /\ r.generation = {Cardinality(old)} /\ r.of = holder.of
        /\ Cardinality(Encrypts(r.needs)) - 1 = Cardinality(old)
    BY <2>2, <2>5 DEF new
  <2>7. ASSUME NEW q \in released, q.of = holder.of, q.generation # {}
        PROVE  q.generation # {Cardinality(old)}
    <3>1. q.needs \subseteq holder.base.did
      BY <1>5, <2>1, <2>7 DEF WindowInv, DurableInv, CarriedOn, Carries
    <3>2. Encrypts(q.needs) \subseteq old
      BY <3>1 DEF Encrypts, old
    <3>3. Cardinality(Encrypts(q.needs)) \in Nat /\ Cardinality(Encrypts(q.needs)) <= Cardinality(old)
      BY <2>2, <3>2, FS_Subset, FS_CardinalityType
    <3>4. q.generation = {Cardinality(Encrypts(q.needs)) - 1}
      BY <2>7 DEF GenInv, GenerationsFit
    <3>5. Cardinality(Encrypts(q.needs)) - 1 # Cardinality(old)
      BY <2>2, <3>3
    <3> QED
      BY <3>4, <3>5
  <2>8. released' = released \cup {r}
    BY <1>5
  <2> HIDE DEF r
  <2>9. GenerationsFit'
    BY <2>6, <2>8 DEF GenInv, GenerationsFit
  <2>10. NoGenerationReuse'
    BY <2>6, <2>7, <2>8 DEF GenInv, NoGenerationReuse
  <2> QED
    BY <1>1, <2>9, <2>10 DEF GenInv
<1> QED
  BY <1>3, <1>4, <1>5, WhatLeaves

\* What I5 is for: under the same assumptions no two ciphertexts of an account use one generation,
\* whatever crashes, failed saves and account switches come between them.
THEOREM NoGenerationReuseAlways ==
  ASSUME "late" \notin PersistFaultKinds
  PROVE  PersistInit /\ [][PersistNext /\ InOrder]_persistVars => []NoGenerationReuse
<1>1. PersistInit => GenInv
  BY GenInit
<1>2. WindowInv /\ GenInv /\ [PersistNext /\ InOrder]_persistVars => GenInv'
  <2> SUFFICES ASSUME WindowInv, GenInv, [PersistNext /\ InOrder]_persistVars PROVE GenInv'
    OBVIOUS
  <2>1. [PersistNext]_persistVars
    OBVIOUS
  <2> QED
    BY <2>1, GenStep
<1>3. GenInv => NoGenerationReuse
  BY DEF GenInv
<1> QED
  BY <1>1, <1>2, <1>3, WindowInvariance, PTL

=============================================================================
