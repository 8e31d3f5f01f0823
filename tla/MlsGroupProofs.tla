--------------------------- MODULE MlsGroupProofs ---------------------------
(***************************************************************************)
(* Proofs about MlsGroup, for every set of devices and every bound: type    *)
(* correctness, then the inductive invariant and the safety properties that *)
(* follow from it.                                                         *)
(*                                                                         *)
(* The argument: the server's log changes only by appending a commit that   *)
(* fits it (AppendStep); every other step (QuietStep) leaves the log alone, *)
(* and moves a device's copy, flow, lock and requests in one of a few ways  *)
(* (DeviceMoves, FlowMoves, LockMoves, NetMoves), whatever the action.      *)
(***************************************************************************)
EXTENDS MlsGroup, TLAPS

(* What the types alone need to be inductive: a flow about to build an      *)
(* external commit carries a GroupInfo, and a lock held for an own commit   *)
(* carries that commit.                                                     *)
Shape ==
    \A d \in Device :
        /\ flow[d].at = "join" => flow[d].gi # NoCommit
        /\ Committing(d) => op[d].c # NoCommit

-----------------------------------------------------------------------------
(* The helpers that compute a flow's next state stay within FlowState.      *)

\* Goto and GotoCatchUp (every "await the next step") yield a flow state that
\* carries no GroupInfo.
LEMMA GotoType ==
  ASSUME TypeOK, NEW d \in Device, NEW stage \in Stage, NEW resume \in Resume
  PROVE  /\ Goto(d, stage) \in FlowState /\ Goto(d, stage).at = stage
         /\ GotoCatchUp(d, resume) \in FlowState /\ GotoCatchUp(d, resume).at = "fetch"
         /\ Idle \in FlowState /\ Idle.at = "idle"
<1>1. flow[d] \in FlowState
  BY DEF TypeOK
<1>2. "fetch" \in Stage /\ "idle" \in Stage /\ "first" \in Resume /\ "sync" \in Goal
  BY DEF Stage, Resume, Goal
<1> QED
  BY <1>1, <1>2 DEF Goto, GotoCatchUp, Idle, FlowState

\* The ends of the join rounds never lead straight to a build from GroupInfo.
LEMMA AfterType ==
  ASSUME TypeOK, NEW d \in Device, NEW held \in BOOLEAN, NEW outcome
  PROVE  /\ AfterJoin(d, held) \in FlowState /\ AfterJoin(d, held).at # "join"
         /\ AfterAbsent(d) \in FlowState /\ AfterAbsent(d).at # "join"
         /\ AfterCommit(d, outcome, held) \in FlowState
         /\ AfterCommit(d, outcome, held).at # "join"
<1>1. AfterJoin(d, held) \in FlowState /\ AfterJoin(d, held).at # "join"
  BY GotoType DEF AfterJoin, Stage, Resume
<1>2. Held(d) \in BOOLEAN
  BY DEF Held
<1>3. AfterJoin(d, Held(d)) \in FlowState /\ AfterJoin(d, Held(d)).at # "join"
  BY GotoType, <1>2 DEF AfterJoin, Stage, Resume
<1>4. AfterAbsent(d) \in FlowState /\ AfterAbsent(d).at # "join"
  <2>1. "genesis" \in Stage /\ "first" \in Resume
    BY DEF Stage, Resume
  <2>2. Goto(d, "genesis") \in FlowState /\ Goto(d, "genesis").at = "genesis"
    BY GotoType, <2>1
  <2> QED
    BY <1>3, <2>2 DEF AfterAbsent
<1>5. flow[d].tries \in Nat /\ flow[d].tries + 1 \in Nat
  BY DEF TypeOK, FlowState
<1>6. /\ [GotoCatchUp(d, "retry") EXCEPT !.tries = flow[d].tries + 1] \in FlowState
      /\ [GotoCatchUp(d, "retry") EXCEPT !.tries = flow[d].tries + 1].at # "join"
  BY GotoType, <1>5 DEF Resume, Stage, FlowState
<1>7. /\ Goto(d, "add") \in FlowState /\ Goto(d, "add").at # "join"
      /\ GotoCatchUp(d, "final") \in FlowState /\ GotoCatchUp(d, "final").at # "join"
      /\ GotoCatchUp(d, "round1") \in FlowState /\ GotoCatchUp(d, "round1").at # "join"
  BY GotoType DEF Resume, Stage
<1> QED
  BY <1>1, <1>4, <1>6, <1>7 DEF AfterCommit

-----------------------------------------------------------------------------
(* Type correctness.                                                       *)

\* The states of the lock: taken to write ("settle") or for an own commit.
LEMMA OpType ==
  ASSUME NEW from \in {"none", "live"} \cup Stage, NEW c \in Commit
  PROVE  /\ Free \in OpState
         /\ [Free EXCEPT !.st = "settle", !.from = from] \in OpState
         /\ [Free EXCEPT !.st = "base", !.c = c, !.from = from] \in OpState
BY DEF OpState, Free

\* What mls-crypto makes of a commit is a copy.
LEMMA CopyType ==
  ASSUME NEW c \in Commit, NEW d \in Device
  PROVE  OwnCopy(c) \in Copy /\ CopyAfter(d, c) \in Copy
BY DEF OwnCopy, CopyAfter, Copy

\* One row of the log is a commit; so is the commit of a held copy.
LEMMA LogType ==
  ASSUME TypeOK
  PROVE  /\ \A i \in DOMAIN log : log[i] \in Commit
         /\ DOMAIN log = 1 .. Len(log) /\ Len(log) \in Nat
         /\ \A d \in Device : Held(d) =>
              cache[d] \in Copy /\ cache[d].c \in Commit /\ LocalEpoch(d) \in Nat
<1>1. log \in Seq(Commit) /\ cache \in [Device -> Copy \cup {NotHeld}]
  BY DEF TypeOK
<1>2. /\ \A i \in DOMAIN log : log[i] \in Commit
      /\ DOMAIN log = 1 .. Len(log) /\ Len(log) \in Nat
  BY <1>1
<1>3. \A d \in Device : Held(d) => cache[d] \in Copy
  BY <1>1 DEF Held
<1>4. \A copy \in Copy : copy.c \in Commit /\ copy.c.epoch \in Nat
  BY DEF Copy, Commit
<1> QED
  BY <1>2, <1>3, <1>4 DEF LocalEpoch

\* ApplyCatchUp starts from a held copy, or from one a logged Welcome makes,
\* and ends with a copy (IsReplay picks it, whatever it is).
LEMMA ReplayType ==
  ASSUME TypeOK, NEW d \in Device, NEW base \in ReplayBase(d)
  PROVE  base \in Copy
<1>1. CASE Held(d)
  BY <1>1, LogType DEF ReplayBase
<1>2. CASE ~Held(d)
  BY <1>2, LogType, CopyType DEF ReplayBase, EntryPoint, WelcomesOf
<1> QED
  BY <1>1, <1>2

\* The commits a device builds are commits.
LEMMA NewCommitType ==
  ASSUME NEW d \in Device, mint[d] \in Nat, NEW epoch \in Nat, NEW parent \in CommitId,
         NEW members \in SUBSET Device, NEW added \in SUBSET Device, NEW ext \in BOOLEAN
  PROVE  /\ NewCommit(d, epoch, parent, members, added, ext) \in Commit
         /\ NewCommit(d, epoch, parent, members, added, ext) # NoCommit
BY NoCommitAssumption DEF NewCommit, Commit, CommitId, Root

LEMMA IdType ==
  ASSUME NEW c \in Commit
  PROVE  Id(c) \in CommitId
BY DEF Id, CommitId, Commit

\* What the caller of a catch-up does next carries no GroupInfo.
LEMMA AfterCatchUpType ==
  ASSUME TypeOK, NEW d \in Device, NEW f \in AfterCatchUp(d), flow[d].at = "decide"
  PROVE  f \in FlowState /\ f.at # "join"
<1>1. flow[d] \in FlowState /\ roster \in SUBSET Device
  BY DEF TypeOK
<1>2. /\ Idle \in FlowState /\ Idle.at = "idle"
      /\ [Idle EXCEPT !.at = "fetch", !.goal = "heal"] \in FlowState
      /\ [Idle EXCEPT !.at = "fetch", !.goal = "heal"].at = "fetch"
  BY DEF Idle, FlowState, Stage, Resume, Goal
<1>3. \A held \in BOOLEAN : AfterJoin(d, held) \in FlowState /\ AfterJoin(d, held).at # "join"
  BY AfterType
<1>4. Goto(d, "info") \in FlowState /\ Goto(d, "info").at = "info"
  BY GotoType DEF Stage, Resume
<1>5. Goto(d, "remove") \in FlowState /\ Goto(d, "remove").at = "remove"
  BY GotoType DEF Stage, Resume
<1>6. /\ [Goto(d, "info") EXCEPT !.list = roster] \in FlowState
      /\ [Goto(d, "info") EXCEPT !.list = roster].at = "info"
      /\ [Goto(d, "remove") EXCEPT !.list = roster] \in FlowState
      /\ [Goto(d, "remove") EXCEPT !.list = roster].at = "remove"
  BY <1>1, <1>4, <1>5 DEF FlowState
<1>7. Held(d) \in BOOLEAN /\ TRUE \in BOOLEAN
  BY DEF Held
<1>8. flow[d].resume \in Resume
  BY <1>1 DEF FlowState
<1> QED
  BY <1>2, <1>3, <1>4, <1>6, <1>7, <1>8 DEF AfterCatchUp, Resume


\* One step keeps the types and the shape.
LEMMA TypeStep ==
  ASSUME TypeOK, Shape, [Next]_vars
  PROVE  TypeOK' /\ Shape'
<1> USE DEF deviceVars, serverVars, rowVars
<1>0. /\ curEpoch \in Nat /\ infoEpoch \in Nat /\ log \in Seq(Commit)
      /\ info \in Commit \cup {NoCommit} /\ roster \in SUBSET Device
      /\ net \in SUBSET Commit /\ faults \in Nat
      /\ cache \in [Device -> Copy \cup {NotHeld}]
      /\ disk \in [Device -> Copy \cup {NotHeld}]
      /\ op \in [Device -> OpState]
      /\ flow \in [Device -> FlowState]
      /\ mint \in [Device -> Nat]
  BY DEF TypeOK
<1>f. ASSUME NEW kind, NEW d, Fault(kind, d) PROVE faults' \in Nat
  <2>1. faults' = faults + 1
    BY <1>f, Zenon DEF Fault
  <2> QED
    BY <1>0, <2>1
<1>i. Idle \in FlowState /\ Idle.at = "idle"
  BY DEF Idle, FlowState, Stage, Resume, Goal
<1>o. Free \in OpState /\ Free.st = "free"
  BY DEF Free, OpState
<1>1. ASSUME NEW d \in Device, NEW goal \in Goals, StartFlow(d, goal)
      PROVE  TypeOK' /\ Shape'
  <2>1. goal \in Goal
    BY GoalsAssumption
  <2>2. /\ [Idle EXCEPT !.at = "fetch", !.goal = goal] \in FlowState
        /\ [Idle EXCEPT !.at = "fetch", !.goal = goal].at = "fetch"
    BY <2>1 DEF Idle, FlowState, Stage, Resume, Goal
  <2>3. flow' \in [Device -> FlowState] /\ \A e \in Device : flow'[e].at = "join" => flow'[e] = flow[e]
    BY <1>0, <1>1, <2>2 DEF StartFlow
  <2> QED
    BY <1>0, <1>1, <1>f, <2>3 DEF StartFlow, TypeOK, Shape, Committing
<1>2. ASSUME NEW d \in Device, FlowStep(d)
      PROVE  TypeOK' /\ Shape'
  <2>0. /\ flow[d] \in FlowState /\ op[d] \in OpState /\ mint[d] \in Nat
        /\ flow[d].gi \in Commit \cup {NoCommit} /\ flow[d].giEpoch \in Nat
        /\ flow[d].list \in SUBSET Device /\ flow[d].snap \in Nat
        /\ flow[d].snapEpoch \in Nat
        /\ flow[d].at = "join" => flow[d].gi # NoCommit
        /\ flow[d].at \in Stage
    BY <1>0 DEF FlowState, Shape
  <2>h. Held(d) \in BOOLEAN
    BY DEF Held
  <2>n. \A c \in Commit : TakeToCommit(d, c) => TypeOK' /\ Shape'
    <3> SUFFICES ASSUME NEW c \in Commit, TakeToCommit(d, c)
                 PROVE  TypeOK' /\ Shape'
      OBVIOUS
    <3>1. op' = [op EXCEPT ![d] = [Free EXCEPT !.st = "base", !.c = c, !.from = flow[d].at]]
      BY DEF TakeToCommit
    <3>2. [Free EXCEPT !.st = "base", !.c = c, !.from = flow[d].at] \in OpState
      BY <2>0, OpType
    <3>3. [Free EXCEPT !.st = "base", !.c = c, !.from = flow[d].at].c # NoCommit
      BY NoCommitAssumption DEF Free, Commit, CommitId, Root
    <3>4. /\ op' \in [Device -> OpState]
          /\ \A e \in Device : op'[e] = op[e] \/ op'[e].c # NoCommit
      BY <1>0, <3>1, <3>2, <3>3
    <3>5. mint' \in [Device -> Nat]
      BY <1>0 DEF TakeToCommit
    <3> QED
      BY <1>0, <3>4, <3>5 DEF TakeToCommit, TypeOK, Shape, Committing
  <2>s. \A f \in FlowState : f.at # "join" /\ SkipTo(d, f) => TypeOK' /\ Shape'
    BY <1>0 DEF SkipTo, TypeOK, Shape, Committing
  <2>1. CASE FetchLog(d)
    BY <1>0, <2>0, <2>1, LogType DEF FetchLog, TypeOK, Shape, Committing, FlowState, Stage
  <2>2. CASE FetchRow(d)
    BY <1>0, <2>0, <2>2 DEF FetchRow, TypeOK, Shape, Committing, FlowState, Stage
  <2>3. CASE ApplyCatchUp(d)
    <3>1. CASE ReplayBase(d) = {} /\ flow' = [flow EXCEPT ![d].at = "decide", ![d].diverged = FALSE]
                 /\ UNCHANGED <<cache, op>>
      BY <1>0, <2>0, <2>3, <3>1 DEF ApplyCatchUp, TypeOK, Shape, Committing, FlowState, Stage
    <3>2. ASSUME NEW base \in ReplayBase(d),
                 NEW copy \in {base} \cup {CopyAfter(d, log[i]) : i \in DOMAIN log},
                 flow' = [flow EXCEPT
                   ![d].at = IF Diverged(d, copy) THEN "decide" ELSE "refresh",
                   ![d].diverged = Diverged(d, copy)],
                 IF copy = cache[d] THEN UNCHANGED <<cache, op>>
                                    ELSE TakeToSettle(d, copy, "apply")
          PROVE  TypeOK' /\ Shape'
      <4>1. copy \in Copy
        BY ReplayType, LogType, CopyType
      <4>2. Diverged(d, copy) \in BOOLEAN
        BY DEF Diverged
      <4>3. /\ flow' \in [Device -> FlowState]
            /\ \A e \in Device : flow'[e].at = "join" => flow'[e] = flow[e]
        BY <1>0, <2>0, <3>2, <4>2 DEF FlowState, Stage
      <4>4. cache' \in [Device -> Copy \cup {NotHeld}]
        BY <1>0, <3>2, <4>1 DEF TakeToSettle
      <4>5. [Free EXCEPT !.st = "settle", !.from = "apply"] \in OpState
            /\ [Free EXCEPT !.st = "settle", !.from = "apply"].st = "settle"
        BY DEF Free, OpState, Stage
      <4>6. /\ op' \in [Device -> OpState]
            /\ \A e \in Device : op'[e] = op[e] \/ op'[e].st = "settle"
        BY <1>0, <3>2, <4>5 DEF TakeToSettle
      <4> QED
        BY <1>0, <2>3, <4>3, <4>4, <4>6 DEF ApplyCatchUp, TypeOK, Shape, Committing
    <3> QED
      BY <2>3, <3>1, <3>2 DEF ApplyCatchUp
  <2>4. CASE RefreshGroupInfo(d)
    <3>1. flow' = [flow EXCEPT ![d].at = "decide"]
      BY <2>4 DEF RefreshGroupInfo
    <3>2. info' \in Commit \cup {NoCommit} /\ infoEpoch' \in Nat
      BY <1>0, <2>0, <2>4, LogType DEF RefreshGroupInfo, PutGroupInfo
    <3>3. UNCHANGED <<cache, disk, op, mint, faults, curEpoch, log, roster, net>>
      BY <2>4 DEF RefreshGroupInfo
    <3>4. flow' \in [Device -> FlowState] /\ \A e \in Device : flow'[e].at = "join" => flow'[e] = flow[e]
      BY <1>0, <2>0, <3>1 DEF FlowState, Stage
    <3> QED
      BY <1>0, <3>2, <3>3, <3>4 DEF TypeOK, Shape, Committing
  <2>5. CASE Decide(d)
    <3>1. PICK f \in AfterCatchUp(d) : flow' = [flow EXCEPT ![d] = f]
      BY <2>5 DEF Decide
    <3>2. f \in FlowState /\ f.at # "join"
      BY <2>5, AfterCatchUpType DEF Decide
    <3> QED
      BY <1>0, <2>5, <3>1, <3>2 DEF Decide, TypeOK, Shape, Committing
  <2>6. CASE FetchInfo(d)
    <3>1. \A held \in BOOLEAN : AfterJoin(d, held) \in FlowState /\ AfterJoin(d, held).at # "join"
      BY AfterType
    <3>2. AfterAbsent(d) \in FlowState /\ AfterAbsent(d).at # "join"
      BY AfterType
    <3>3. Goto(d, "join") \in FlowState
      BY GotoType DEF Stage, Resume
    <3>4. [Goto(d, "join") EXCEPT !.gi = info, !.giEpoch = curEpoch] \in FlowState
      BY <1>0, <3>3 DEF FlowState
    <3>5. [Goto(d, "join") EXCEPT !.gi = info, !.giEpoch = curEpoch].gi = info
      BY <3>3 DEF FlowState
    <3>6. PICK f : /\ flow' = [flow EXCEPT ![d] = f]
                   /\ f \in FlowState
                   /\ f.at = "join" => f.gi # NoCommit
      <4> DEFINE Next1 == CASE d \in Legacy -> AfterAbsent(d)
           [] d \notin roster \cup Legacy -> AfterJoin(d, Held(d))
           [] d \in roster \ Legacy /\ ~GroupExists -> AfterAbsent(d)
           [] d \in roster \ Legacy /\ GroupExists /\ ~ServesInfo -> AfterJoin(d, Held(d))
           [] OTHER -> [Goto(d, "join") EXCEPT !.gi = info, !.giEpoch = curEpoch]
      <4>1. flow' = [flow EXCEPT ![d] = Next1]
        BY <2>6 DEF FetchInfo
      <4>2. CASE d \in Legacy
        BY <3>2, <4>1, <4>2
      <4>3. CASE d \notin roster /\ d \notin Legacy
        BY <2>h, <3>1, <4>1, <4>3
      <4>4. CASE d \in roster \ Legacy /\ ~GroupExists
        BY <3>2, <4>1, <4>4
      <4>5. CASE d \in roster \ Legacy /\ GroupExists /\ ~ServesInfo
        BY <2>h, <3>1, <4>1, <4>5
      <4>6. CASE d \in roster \ Legacy /\ GroupExists /\ ServesInfo
        BY <3>4, <3>5, <4>1, <4>6 DEF ServesInfo
      <4> QED
        BY <4>2, <4>3, <4>4, <4>5, <4>6
    <3> QED
      BY <1>0, <2>6, <3>6 DEF FetchInfo, TypeOK, Shape, Committing
  <2>7. CASE BuildExternal(d)
    <3>1. AfterJoin(d, TRUE) \in FlowState /\ AfterJoin(d, TRUE).at # "join"
      BY AfterType
    <3>2. flow[d].gi \in Commit
      BY <2>0, <2>7 DEF BuildExternal
    <3>3. /\ Id(flow[d].gi) \in CommitId /\ flow[d].gi.members \cup {d} \in SUBSET Device
          /\ flow[d].giEpoch + 1 \in Nat /\ {} \in SUBSET Device
      BY <2>0, <3>2, IdType DEF Commit
    <3>4. NewCommit(d, flow[d].giEpoch + 1, Id(flow[d].gi),
                    flow[d].gi.members \cup {d}, {}, TRUE) \in Commit
      BY <2>0, <3>3, NewCommitType
    <3> QED
      BY <2>n, <2>s, <2>7, <3>1, <3>4 DEF BuildExternal
  <2>8. CASE BuildGenesis(d)
    <3>1. AfterJoin(d, Held(d)) \in FlowState /\ AfterJoin(d, Held(d)).at # "join"
      BY <2>h, AfterType
    <3>2. Root \in CommitId
      BY DEF CommitId
    <3>3. NewCommit(d, 1, Root, flow[d].list \cup {d}, flow[d].list \ {d}, FALSE) \in Commit
      BY <2>0, <3>2, NewCommitType
    <3> QED
      BY <2>n, <2>s, <2>8, <3>1, <3>3 DEF BuildGenesis
  <2>m. \A members \in SUBSET Device :
          Held(d) /\ BuildMemberCommit(d, members) => TypeOK' /\ Shape'
    <3> SUFFICES ASSUME NEW members \in SUBSET Device, Held(d), BuildMemberCommit(d, members)
                 PROVE  TypeOK' /\ Shape'
      OBVIOUS
    <3>1. cache[d].c \in Commit /\ LocalEpoch(d) \in Nat
      BY LogType
    <3>2. /\ Id(cache[d].c) \in CommitId /\ members \ cache[d].c.members \in SUBSET Device
          /\ LocalEpoch(d) + 1 \in Nat
      BY <3>1, IdType
    <3>3. NewCommit(d, LocalEpoch(d) + 1, Id(cache[d].c), members,
                    members \ cache[d].c.members, FALSE) \in Commit
      BY <2>0, <3>1, <3>2, NewCommitType
    <3> QED
      BY <1>i, <2>n, <2>s, <3>3 DEF BuildMemberCommit
  <2>9. CASE BuildRemove(d)
    <3>1. Goto(d, "add") \in FlowState /\ Goto(d, "add").at = "add"
      BY GotoType DEF Stage, Resume
    <3>2. Held(d) => cache[d].c.members \cap flow[d].list \in SUBSET Device
      BY <2>0
    <3> QED
      BY <2>m, <2>s, <2>9, <3>1, <3>2 DEF BuildRemove
  <2>10. CASE BuildAdd(d)
    <3>1. GotoCatchUp(d, "final") \in FlowState /\ GotoCatchUp(d, "final").at = "fetch"
      BY GotoType DEF Stage, Resume
    <3>2. Held(d) => cache[d].c.members \cup (flow[d].list \ {d}) \in SUBSET Device
      BY <2>0, LogType DEF Commit
    <3> QED
      BY <2>m, <2>s, <2>10, <3>1, <3>2 DEF BuildAdd
  <2> QED
    BY <1>2, <2>1, <2>2, <2>3, <2>4, <2>5, <2>6, <2>7, <2>8, <2>9, <2>10 DEF FlowStep
<1>t. ASSUME NEW d \in Device, NEW copy \in Copy, NEW from \in {"none", "live"} \cup Stage,
              TakeToSettle(d, copy, from)
      PROVE  /\ cache' \in [Device -> Copy \cup {NotHeld}]
             /\ op' \in [Device -> OpState]
             /\ \A e \in Device : op'[e] = op[e] \/ op'[e].st = "settle"
  <2>1. /\ [Free EXCEPT !.st = "settle", !.from = from] \in OpState
        /\ [Free EXCEPT !.st = "settle", !.from = from].st = "settle"
    BY DEF Free, OpState
  <2> QED
    BY <1>0, <1>t, <2>1 DEF TakeToSettle
<1>c. ASSUME NEW d \in Device, NEW outcome, Conclude(d, outcome)
      PROVE  /\ op' \in [Device -> OpState] /\ flow' \in [Device -> FlowState]
             /\ \A e \in Device : op'[e] = op[e] \/ op'[e].st = "free"
             /\ \A e \in Device : flow'[e].at = "join" => flow'[e] = flow[e]
             /\ UNCHANGED <<cache, disk, mint>>
  <2>1. /\ AfterCommit(d, outcome, Held(d)) \in FlowState
        /\ AfterCommit(d, outcome, Held(d)).at # "join"
    BY AfterType DEF Held
  <2> QED
    BY <1>0, <1>o, <1>c, <2>1 DEF Conclude
<1>a. ASSUME NEW d \in Device, Committing(d), Adopt(d)
      PROVE  /\ cache' \in [Device -> Copy \cup {NotHeld}]
             /\ op' \in [Device -> OpState] /\ flow' \in [Device -> FlowState]
             /\ \A e \in Device : op'[e] = op[e] \/ op'[e].st = "settle"
             /\ \A e \in Device : flow'[e].at = "join" => flow'[e] = flow[e]
             /\ UNCHANGED <<disk, mint>>
  <2>1. /\ AfterCommit(d, "accepted", TRUE) \in FlowState
        /\ AfterCommit(d, "accepted", TRUE).at # "join"
    BY AfterType
  <2>2. op[d].c \in Commit /\ op[d].from \in {"none", "live"} \cup Stage
    BY <1>0, <1>a DEF OpState, Shape
  <2>3. OwnCopy(op[d].c) \in Copy
    BY <2>2, CopyType
  <2>4. /\ flow' \in [Device -> FlowState]
        /\ \A e \in Device : flow'[e].at = "join" => flow'[e] = flow[e]
    BY <1>0, <1>a, <2>1 DEF Adopt
  <2> QED
    BY <1>a, <1>t, <2>2, <2>3, <2>4 DEF Adopt
<1>3. ASSUME NEW d \in Device, LockStep(d)
      PROVE  TypeOK' /\ Shape'
  <2>0. op[d] \in OpState
    BY <1>0
  <2>1. CASE Settle(d)
    BY <1>0, <1>o, <2>1 DEF Settle, TypeOK, Shape, Committing
  <2>2. CASE Submit(d)
    <3>1. op[d].c \in Commit
      BY <2>0, <2>2 DEF Submit, Shape, Committing, OpState
    <3>2. /\ op' \in [Device -> OpState]
          /\ \A e \in Device : op'[e].c = op[e].c /\ (op'[e] = op[e] \/ op[e].st = "base")
      BY <1>0, <2>0, <2>2 DEF Submit, OpState
    <3>3. disk' \in [Device -> Copy \cup {NotHeld}] /\ net' \in SUBSET Commit
      BY <1>0, <2>2, <3>1 DEF Submit
    <3> QED
      BY <1>0, <2>2, <3>2, <3>3 DEF Submit, TypeOK, Shape, Committing
  <2>3. CASE Answer(d)
    <3>1. op[d].ans \in {"accepted", "conflict", "refused"}
      BY <2>0, <2>3 DEF Answer, OpState
    <3>2. Committing(d) /\ UNCHANGED <<faults, serverVars>>
      BY <2>3 DEF Answer, Committing
    <3>3. CASE op[d].ans = "accepted"
      <4>1. Adopt(d)
        BY <2>3, <3>3 DEF Answer
      <4> QED
        BY <1>0, <1>a, <3>2, <4>1 DEF TypeOK, Shape, Committing
    <3>4. CASE op[d].ans = "conflict"
      <4>1. Conclude(d, "conflict")
        BY <2>3, <3>4 DEF Answer
      <4> QED
        BY <1>0, <1>c, <3>2, <4>1 DEF TypeOK, Shape, Committing
    <3>5. CASE op[d].ans = "refused"
      <4>1. op' = [op EXCEPT ![d].st = "check"] /\ UNCHANGED <<cache, disk, flow, mint>>
        BY <2>3, <3>5 DEF Answer
      <4>2. /\ op' \in [Device -> OpState]
            /\ \A e \in Device : op'[e].c = op[e].c /\ (op'[e] = op[e] \/ op[e].st = "sent")
        BY <1>0, <2>0, <2>3, <4>1 DEF OpState, Answer
      <4> QED
        BY <1>0, <3>2, <4>1, <4>2 DEF TypeOK, Shape, Committing
    <3> QED
      BY <3>1, <3>3, <3>4, <3>5
  <2>4. CASE CheckLog(d)
    <3>1. Committing(d) /\ UNCHANGED <<faults, serverVars>> /\ (Adopt(d) \/ Conclude(d, "failed"))
      BY <2>4 DEF CheckLog, Committing
    <3>2. CASE Adopt(d)
      BY <1>0, <1>a, <3>1, <3>2 DEF TypeOK, Shape, Committing
    <3>3. CASE Conclude(d, "failed")
      BY <1>0, <1>c, <3>1, <3>3 DEF TypeOK, Shape, Committing
    <3> QED
      BY <3>1, <3>2, <3>3
  <2> QED
    BY <1>3, <2>1, <2>2, <2>3, <2>4 DEF LockStep
<1>4. ASSUME NEW d \in Device, FaultStep(d)
      PROVE  TypeOK' /\ Shape'
  <2>0. /\ op[d] \in OpState /\ flow[d] \in FlowState /\ Held(d) \in BOOLEAN
        /\ \A held \in BOOLEAN : AfterJoin(d, held) \in FlowState /\ AfterJoin(d, held).at # "join"
    BY <1>0, AfterType DEF Held
  <2>1. CASE SettleFails(d)
    BY <1>0, <1>i, <1>o, <1>f, <2>0, <2>1 DEF SettleFails, TypeOK, Shape, Committing
  <2>2. CASE FetchFails(d)
    <3>1. faults' \in Nat
      BY <1>0, <1>f, <2>2 DEF FetchFails
    <3>2. flow' \in [Device -> FlowState] /\ \A e \in Device : flow'[e].at = "join" => flow'[e] = flow[e]
      BY <1>0, <2>0, <2>2 DEF FetchFails, FlowState, Stage
    <3> QED
      BY <1>0, <2>2, <3>1, <3>2 DEF FetchFails, TypeOK, Shape, Committing
  <2>3. CASE DecideFails(d)
    BY <1>0, <1>i, <1>f, <2>3 DEF DecideFails, TypeOK, Shape, Committing
  <2>4. CASE FetchInfoFails(d)
    BY <1>0, <1>f, <2>0, <2>4 DEF FetchInfoFails, TypeOK, Shape, Committing
  <2>5. CASE BaseFails(d)
    BY <1>0, <1>i, <1>o, <1>f, <2>0, <2>5 DEF BaseFails, TypeOK, Shape, Committing
  <2>6. CASE LoseAnswer(d)
    <3>1. op' = [op EXCEPT ![d].st = "check", ![d].ans = "none"] /\ op[d].st = "sent"
      BY <2>6 DEF LoseAnswer
    <3>2. /\ op' \in [Device -> OpState]
          /\ \A e \in Device : op'[e].c = op[e].c /\ (op'[e] = op[e] \/ op[e].st = "sent")
      BY <1>0, <2>0, <3>1 DEF OpState
    <3>3. net' \in SUBSET Commit
      BY <1>0, <2>6 DEF LoseAnswer
    <3> QED
      BY <1>0, <1>f, <2>6, <3>2, <3>3 DEF LoseAnswer, TypeOK, Shape, Committing
  <2>7. CASE CheckGivesUp(d)
    BY <1>0, <1>c, <1>f, <2>7 DEF CheckGivesUp, TypeOK, Shape, Committing
  <2>8. CASE Crash(d)
    BY <1>0, <1>i, <1>o, <1>f, <2>8 DEF Crash, TypeOK, Shape, Committing
  <2> QED
    BY <1>4, <2>1, <2>2, <2>3, <2>4, <2>5, <2>6, <2>7, <2>8 DEF FaultStep
<1>5. ASSUME NEW d \in Device, LiveCommit(d) \/ LiveWelcome(d)
      PROVE  TypeOK' /\ Shape'
  <2>1. PICK copy \in Copy : TakeToSettle(d, copy, "live")
    BY <1>5, LogType, CopyType DEF LiveCommit, LiveWelcome
  <2>2. UNCHANGED <<disk, flow, mint, faults, serverVars>>
    BY <1>5 DEF LiveCommit, LiveWelcome
  <2> QED
    BY <1>0, <1>t, <2>1, <2>2 DEF TypeOK, Shape, Committing
<1>6. ASSUME ServerSubmit
      PROVE  TypeOK' /\ Shape'
  <2>1. PICK c \in net : /\ HandleSubmit(c)
                         /\ op' = IF op[c.by].st = "sent" /\ op[c.by].c = c
                                    THEN [op EXCEPT ![c.by].ans = Verdict(c)] ELSE op
                         /\ UNCHANGED <<cache, disk, flow, mint, faults>>
    BY <1>6 DEF ServerSubmit
  <2>2. c \in Commit /\ c.by \in Device /\ c.epoch \in Nat
    BY <1>0, <2>1 DEF Commit
  <2>3. Verdict(c) \in {"accepted", "conflict", "refused"}
    BY DEF Verdict
  <2>4. /\ op' \in [Device -> OpState]
        /\ \A e \in Device : op'[e].c = op[e].c /\ op'[e].st = op[e].st
    BY <1>0, <2>1, <2>2, <2>3 DEF OpState
  <2>5. roster' = roster /\ net' \in SUBSET Commit
    BY <1>0, <2>1 DEF HandleSubmit
  <2>6. CASE UNCHANGED rowVars
    BY <1>0, <2>1, <2>4, <2>5, <2>6 DEF TypeOK, Shape, Committing
  <2>7. CASE BumpGroupEpoch(c)
    <3>1. /\ curEpoch' \in Nat /\ infoEpoch' \in Nat
          /\ info' \in Commit \cup {NoCommit}
      BY <1>0, <2>2, <2>7 DEF BumpGroupEpoch
    <3>2. log' \in Seq(Commit)
      BY <1>0, <2>2, <2>7 DEF BumpGroupEpoch
    <3> QED
      BY <1>0, <2>1, <2>4, <2>5, <3>1, <3>2 DEF TypeOK, Shape, Committing
  <2> QED
    BY <2>1, <2>6, <2>7 DEF HandleSubmit
<1>7. ASSUME NEW d \in Device, MemberListChange(d)
      PROVE  TypeOK' /\ Shape'
  BY <1>0, <1>7, <1>f DEF MemberListChange, RosterChange, TypeOK, Shape, Committing
<1>8. ASSUME UNCHANGED vars
      PROVE  TypeOK' /\ Shape'
  BY <1>8 DEF vars, TypeOK, Shape, Committing
<1> QED
  BY <1>1, <1>2, <1>3, <1>4, <1>5, <1>6, <1>7, <1>8 DEF Next


\* Init has the types, and the shape.
LEMMA TypeInit == Init => TypeOK /\ Shape
<1> SUFFICES ASSUME Init
             PROVE  TypeOK /\ Shape
  OBVIOUS
<1>1. Idle \in FlowState /\ Idle.at = "idle"
  BY DEF Idle, FlowState, Stage, Resume, Goal
<1>2. Free \in OpState /\ Free.st = "free"
  BY DEF Free, OpState
<1> QED
  BY <1>1, <1>2 DEF Init, ServerInit, TypeOK, Shape, Committing

\* Every variable keeps its type, whatever the devices, the bounds, the
\* interleaving and the faults.
THEOREM TypeCorrect == Spec => [](TypeOK /\ Shape)
<1>1. TypeOK /\ Shape /\ [Next]_vars => (TypeOK /\ Shape)'
  BY TypeStep
<1> QED
  BY TypeInit, <1>1, PTL DEF Spec

-----------------------------------------------------------------------------
(* The log and the copies of it.                                           *)

\* How a step may move the copy of a device, in memory and on disk: not at
\* all, forwards along the log, by a completed write, by a restart.
Forwards(d) ==
    /\ cache'[d] # NotHeld /\ IsLogged(cache'[d].c)
    /\ Held(d) => LocalEpoch(d) <= cache'[d].c.epoch
DeviceMoves(d) ==
    \/ cache'[d] = cache[d] /\ disk'[d] = disk[d]
    \/ disk'[d] = disk[d] /\ Forwards(d)
    \/ disk'[d] = cache[d] /\ cache'[d] = cache[d]
    \/ disk'[d] = disk[d] /\ cache'[d] = disk[d]

\* How it may move the flow: a GroupInfo it carries is a logged commit's.
FlowMoves(d) ==
    \/ flow'[d] = flow[d]
    \/ /\ flow'[d].snap <= Len(log)
       /\ flow'[d].at = "join" =>
            /\ flow'[d].gi # NoCommit /\ IsLogged(flow'[d].gi)
            /\ flow'[d].gi.epoch = flow'[d].giEpoch

\* How it may move the lock: keep, release, or take it for a write; go on with
\* the own commit it is held for; take it for a new one.
OwnCommitFits(d, c) ==
    /\ c # NoCommit /\ c.by = d /\ c.no <= mint'[d] /\ FitsLog(c)
    /\ ~c.ext /\ c.epoch > 1 => Held(d) /\ LocalEpoch(d) = c.epoch - 1
    /\ Held(d) /\ IsLogged(c) => LocalEpoch(d) < c.epoch
LockMoves(d) ==
    \/ op'[d] = op[d] /\ cache'[d] = cache[d]
    \/ op'[d].st \in {"free", "settle"} /\ op'[d].ans # "accepted"
    \/ /\ op'[d].ans # "accepted" /\ cache'[d] = cache[d]
       /\ \/ Committing(d) /\ op'[d].c = op[d].c
          \/ OwnCommitFits(d, op'[d].c)

\* A request that appears fits the log and has its base on disk.
NetMoves ==
    \A c \in net' : c \in net \/ (FitsLog(c) /\ c.no <= mint[c.by] /\ BaseOnDisk(c)')

LEMMA NoForkMember ==
  ASSUME TypeOK, NoFork, NEW d \in Device
  PROVE  /\ Held(d) => IsLogged(cache[d].c)
         /\ disk[d] # NotHeld => IsLogged(disk[d].c)
BY DEF NoFork, Held, IsLogged

\* Copies keep agreeing with the log, the disk stays behind the memory and
\* never goes back.
LEMMA CopiesStep ==
  ASSUME TypeOK, TypeOK', NoFork, DiskBehindCache, BaseSurvivesCrash,
         log' = log, \A d \in Device : DeviceMoves(d)
  PROVE  /\ NoFork' /\ DiskBehindCache' /\ BaseSurvivesCrash'
         /\ \A d \in Device : disk[d] # NotHeld =>
              disk'[d] # NotHeld /\ disk[d].c.epoch <= disk'[d].c.epoch
<1>0. \A d \in Device : /\ cache[d] # NotHeld => cache[d] \in Copy /\ cache[d].c.epoch \in Nat
                        /\ disk[d] # NotHeld => disk[d] \in Copy /\ disk[d].c.epoch \in Nat
                        /\ cache'[d] # NotHeld => cache'[d] \in Copy /\ cache'[d].c.epoch \in Nat
  <2>1. \A copy \in Copy : copy.c.epoch \in Nat
    BY DEF Copy, Commit
  <2> QED
    BY <2>1 DEF TypeOK
<1>1. NoFork'
  <2>1. \A d \in Device : /\ cache'[d] # NotHeld => IsLogged(cache'[d].c)
                          /\ disk'[d] # NotHeld => IsLogged(disk'[d].c)
    BY NoForkMember DEF DeviceMoves, Forwards, Held
  <2> QED
    BY <2>1 DEF NoFork, IsLogged
<1>2. DiskBehindCache'
  BY <1>0 DEF DiskBehindCache, DeviceMoves, Forwards, Held, LocalEpoch
<1>3. \A d \in Device : disk[d] # NotHeld =>
         disk'[d] # NotHeld /\ disk[d].c.epoch <= disk'[d].c.epoch
  BY <1>0 DEF DiskBehindCache, DeviceMoves, Held, LocalEpoch
<1>4. BaseSurvivesCrash'
  <2> SUFFICES ASSUME NEW i \in DOMAIN log, i > 1, ~log[i].ext
               PROVE  disk'[log[i].by] # NotHeld /\ disk'[log[i].by].c.epoch >= i - 1
    BY DEF BaseSurvivesCrash
  <2>1. log[i].by \in Device /\ i \in Nat
    BY LogType DEF Commit
  <2>2. disk[log[i].by] # NotHeld /\ disk[log[i].by].c.epoch >= i - 1
    BY DEF BaseSurvivesCrash
  <2>3. disk'[log[i].by].c.epoch \in Nat
    BY <1>3, <2>1, <2>2 DEF TypeOK, Copy, Commit
  <2> QED
    BY <1>0, <1>3, <2>1, <2>2, <2>3
<1> QED
  BY <1>1, <1>2, <1>3, <1>4

\* Everything but an append to the log.
LEMMA QuietStep ==
  ASSUME TypeOK, TypeOK', IndInv,
         UNCHANGED <<curEpoch, log>>, InfoFitsItsEpoch',
         \A d \in Device : DeviceMoves(d) /\ FlowMoves(d) /\ LockMoves(d) /\ mint[d] <= mint'[d],
         NetMoves
  PROVE  IndInv'
<1> USE DEF IndInv
<1>1. LogIsChain'
  BY DEF LogIsChain
<1>2. /\ NoFork' /\ DiskBehindCache' /\ BaseSurvivesCrash'
      /\ \A d \in Device : disk[d] # NotHeld =>
           disk'[d] # NotHeld /\ disk[d].c.epoch <= disk'[d].c.epoch
  BY CopiesStep
<1>3. InfoCarried' /\ SnapshotsLogged'
  BY DEF InfoCarried, SnapshotsLogged, FlowMoves, IsLogged
<1>4. OwnCommitsFit'
  <2> SUFFICES ASSUME NEW d \in Device, Committing(d)'
               PROVE  /\ op'[d].c # NoCommit
                      /\ op'[d].c.by = d /\ op'[d].c.no <= mint'[d] /\ FitsLog(op'[d].c)
                      /\ ~op'[d].c.ext /\ op'[d].c.epoch > 1 =>
                            Held(d)' /\ LocalEpoch(d)' = op'[d].c.epoch - 1
                      /\ Held(d)' /\ IsLogged(op'[d].c) => LocalEpoch(d)' < op'[d].c.epoch
    BY DEF OwnCommitsFit, FitsLog, IsLogged
  <2>1. cache'[d] = cache[d] /\ ((Committing(d) /\ op'[d].c = op[d].c) \/ OwnCommitFits(d, op'[d].c))
    BY DEF LockMoves, Committing
  <2>2. CASE Committing(d) /\ op'[d].c = op[d].c
    <3>1. op[d].c \in Commit /\ op[d].c.no \in Nat /\ mint[d] \in Nat /\ mint'[d] \in Nat
      BY <2>2 DEF OwnCommitsFit, TypeOK, OpState, Commit
    <3> QED
      BY <2>1, <2>2, <3>1 DEF OwnCommitsFit, Held, LocalEpoch
  <2>3. CASE OwnCommitFits(d, op'[d].c)
    BY <2>1, <2>3 DEF OwnCommitFits, Held, LocalEpoch
  <2> QED
    BY <2>1, <2>2, <2>3
<1>5. RequestsFit'
  <2> SUFFICES ASSUME NEW c \in net'
               PROVE  FitsLog(c) /\ c.no <= mint'[c.by] /\ BaseOnDisk(c)'
    BY DEF RequestsFit, FitsLog
  <2>1. c.by \in Device /\ c.no \in Nat /\ c.epoch \in Nat /\ mint[c.by] \in Nat /\ mint'[c.by] \in Nat
    BY DEF TypeOK, Commit
  <2>2. CASE c \in net
    <3>1. FitsLog(c) /\ c.no <= mint[c.by] /\ BaseOnDisk(c)
      BY <2>2 DEF RequestsFit
    <3>2. mint[c.by] <= mint'[c.by]
      BY <2>1
    <3>3. disk[c.by] # NotHeld => disk[c.by].c.epoch \in Nat
      BY <2>1 DEF TypeOK, Copy, Commit
    <3>4. disk'[c.by] # NotHeld => disk'[c.by].c.epoch \in Nat
      BY <2>1 DEF TypeOK, Copy, Commit
    <3>5. BaseOnDisk(c)'
      BY <1>2, <2>1, <3>1, <3>3, <3>4 DEF BaseOnDisk
    <3> QED
      BY <2>1, <3>1, <3>2, <3>5
  <2>3. CASE c \notin net
    BY <2>1, <2>3 DEF NetMoves
  <2> QED
    BY <2>2, <2>3
<1>6. AnswersTrue'
  BY DEF AnswersTrue, LockMoves, IsLogged, Committing
<1>7. LogNumbered'
  <2> SUFFICES ASSUME NEW i \in DOMAIN log
               PROVE  log[i].no <= mint'[log[i].by]
    BY DEF LogNumbered
  <2>1. log[i].by \in Device /\ log[i].no \in Nat
    BY LogType DEF Commit
  <2>2. log[i].no <= mint[log[i].by] /\ mint[log[i].by] <= mint'[log[i].by]
    BY <2>1 DEF LogNumbered
  <2>3. mint[log[i].by] \in Nat /\ mint'[log[i].by] \in Nat
    BY <2>1 DEF TypeOK
  <2> QED
    BY <2>1, <2>2, <2>3
<1> QED
  BY <1>1, <1>2, <1>3, <1>4, <1>5, <1>6, <1>7

-----------------------------------------------------------------------------
(* The server handles a request.                                           *)

LEMMA AppendStep ==
  ASSUME TypeOK, TypeOK', IndInv, ServerSubmit
  PROVE  IndInv'
<1> USE DEF IndInv
<1>1. PICK c \in net : /\ HandleSubmit(c)
                       /\ op' = IF op[c.by].st = "sent" /\ op[c.by].c = c
                                  THEN [op EXCEPT ![c.by].ans = Verdict(c)] ELSE op
                       /\ UNCHANGED <<cache, disk, flow, mint, faults>>
  BY DEF ServerSubmit
<1>2. c \in Commit /\ c.by \in Device /\ c.epoch \in Nat
  BY <1>1 DEF TypeOK, Commit
<1>3. FitsLog(c) /\ c.no <= mint[c.by] /\ BaseOnDisk(c) /\ net' \subseteq net
  BY <1>1 DEF RequestsFit, HandleSubmit
<1>4. op[c.by] \in OpState /\ \A d \in Device : op'[d] = op[d] \/ (d = c.by /\ op'[d] = [op[d] EXCEPT !.ans = Verdict(c)]
                                             /\ op[d].st = "sent" /\ op[d].c = c)
  BY <1>1, <1>2 DEF TypeOK
<1>5. \A d \in Device : /\ op'[d].st = op[d].st /\ op'[d].c = op[d].c
                        /\ op'[d].ans = op[d].ans \/ (op'[d].ans = Verdict(c) /\ op[d].st = "sent" /\ op[d].c = c)
  <2> TAKE d \in Device
  <2>1. op[d] \in OpState
    BY DEF TypeOK
  <2>2. CASE op'[d] = op[d]
    BY <2>2
  <2>3. CASE op'[d] = [op[d] EXCEPT !.ans = Verdict(c)] /\ op[d].st = "sent" /\ op[d].c = c
    BY <2>1, <2>3 DEF OpState
  <2> QED
    BY <1>4, <2>2, <2>3
<1>6. CASE Verdict(c) # "accepted"
  <2>1. UNCHANGED <<curEpoch, log, info, infoEpoch>>
    BY <1>1, <1>6 DEF HandleSubmit, rowVars
  <2>2. \A d \in Device : op'[d] = op[d] \/ (op'[d].ans # "accepted" /\ Committing(d))
    BY <1>4, <1>6 DEF TypeOK, OpState, Committing
  <2>3. \A d \in Device : DeviceMoves(d) /\ FlowMoves(d) /\ LockMoves(d) /\ mint[d] <= mint'[d]
    BY <1>1, <1>5, <2>2 DEF DeviceMoves, FlowMoves, LockMoves, TypeOK
  <2>4. InfoFitsItsEpoch'
    BY <2>1 DEF InfoFitsItsEpoch
  <2> QED
    BY <1>3, <2>1, <2>3, <2>4, QuietStep DEF NetMoves
<1>7. CASE Verdict(c) = "accepted"
  <2>1. BumpGroupEpoch(c) /\ TargetsCurrentEpoch(c)
    BY <1>1, <1>7 DEF HandleSubmit, Verdict
  <2>2. /\ c.epoch = curEpoch + 1 /\ curEpoch = Len(log) /\ curEpoch \in Nat
        /\ curEpoch' = curEpoch + 1 /\ log' = Append(log, c) /\ log \in Seq(Commit)
    BY <1>2, <2>1 DEF BumpGroupEpoch, TargetsCurrentEpoch, LogIsChain, TypeOK
  <2>3. /\ Len(log') = Len(log) + 1 /\ DOMAIN log' = 1 .. Len(log) + 1
        /\ DOMAIN log = 1 .. Len(log)
        /\ \A i \in DOMAIN log : log'[i] = log[i] /\ i \in DOMAIN log'
        /\ log'[Len(log) + 1] = c
    BY <1>2, <2>2
  <2>4. LogIsChain'
    <3> SUFFICES ASSUME NEW i \in DOMAIN log'
                 PROVE  /\ log'[i].epoch = i
                        /\ log'[i].parent = IF i = 1 THEN Root ELSE Id(log'[i - 1])
      BY <2>2, <2>3 DEF LogIsChain
    <3>1. CASE i \in DOMAIN log
      <4>1. i # 1 => i - 1 \in DOMAIN log
        BY <2>3, <3>1
      <4> QED
        BY <2>3, <3>1, <4>1 DEF LogIsChain
    <3>2. CASE i = Len(log) + 1
      <4>1. i # 1 => i - 1 \in DOMAIN log
        BY <2>2, <2>3, <3>2
      <4> QED
        BY <1>3, <2>2, <2>3, <3>2, <4>1 DEF FitsLog
    <3> QED
      BY <2>3, <3>1, <3>2
  <2>5. \A x : IsLogged(x) => IsLogged(x)'
    BY <2>3 DEF IsLogged
  <2>6. NoFork' /\ DiskBehindCache'
    BY <1>1, <2>3 DEF NoFork, DiskBehindCache, Held, LocalEpoch
  <2>7. InfoFitsItsEpoch'
    BY <2>1, <2>2, <2>3 DEF InfoFitsItsEpoch, BumpGroupEpoch
  <2>8. BaseSurvivesCrash'
    <3> SUFFICES ASSUME NEW i \in DOMAIN log', i > 1, ~log'[i].ext
                 PROVE  disk[log'[i].by] # NotHeld /\ disk[log'[i].by].c.epoch >= i - 1
      BY <1>1 DEF BaseSurvivesCrash
    <3>1. CASE i \in DOMAIN log
      BY <2>3, <3>1 DEF BaseSurvivesCrash
    <3>2. CASE i = Len(log) + 1
      BY <1>3, <2>2, <2>3, <3>2 DEF BaseOnDisk
    <3> QED
      BY <2>3, <3>1, <3>2
  <2>9. InfoCarried' /\ SnapshotsLogged'
    <3>1. InfoCarried'
      BY <1>1, <2>5 DEF InfoCarried
    <3>2. SnapshotsLogged'
      BY <1>1, <2>3, LogType DEF SnapshotsLogged, TypeOK, FlowState
    <3> QED
      BY <3>1, <3>2
  <2>f. \A x \in Commit : FitsLog(x) => FitsLog(x)'
    <3> SUFFICES ASSUME NEW x \in Commit, FitsLog(x)
                 PROVE  FitsLog(x)'
      OBVIOUS
    <3>1. x.epoch \in Nat /\ x.epoch \in 1 .. curEpoch + 1 /\ x.epoch \in 1 .. curEpoch' + 1
      BY <2>2 DEF FitsLog, Commit
    <3>2. x.epoch # 1 => x.epoch - 1 \in DOMAIN log
      BY <2>2, <2>3, <3>1
    <3> QED
      BY <2>3, <3>1, <3>2 DEF FitsLog
  <2>10. OwnCommitsFit'
    <3>1. \A d \in Device : Committing(d) => op[d].c \in Commit
      BY DEF OwnCommitsFit, TypeOK, OpState
    <3> SUFFICES ASSUME NEW d \in Device, NEW x \in Commit, Committing(d), x = op[d].c
                 PROVE  /\ x # NoCommit /\ x.by = d /\ x.no <= mint[d] /\ FitsLog(x)'
                        /\ ~x.ext /\ x.epoch > 1 => Held(d) /\ LocalEpoch(d) = x.epoch - 1
                        /\ Held(d) /\ IsLogged(x)' => LocalEpoch(d) < x.epoch
      BY <1>1, <1>5, <3>1 DEF OwnCommitsFit, Committing, Held, LocalEpoch, FitsLog, IsLogged
    <3>2. ASSUME IsLogged(x)', ~IsLogged(x), Held(d)
          PROVE  LocalEpoch(d) < x.epoch
      <4>1. x.epoch = Len(log) + 1
        BY <2>3, <3>2 DEF IsLogged
      <4>2. LocalEpoch(d) \in DOMAIN log
        BY <3>2 DEF NoFork, Held, LocalEpoch
      <4> QED
        BY <2>2, <2>3, <4>1, <4>2
    <3> QED
      BY <2>f, <3>2 DEF OwnCommitsFit
  <2>11. RequestsFit'
    <3> SUFFICES ASSUME NEW x \in net
                 PROVE  FitsLog(x)' /\ x.no <= mint[x.by] /\ BaseOnDisk(x)
      BY <1>1, <1>3 DEF RequestsFit, BaseOnDisk, FitsLog
    <3>1. x \in Commit
      BY DEF TypeOK
    <3> QED
      BY <2>f, <3>1 DEF RequestsFit
  <2>12. AnswersTrue'
    <3>1. IsLogged(c)'
      BY <2>2, <2>3 DEF IsLogged
    <3>2. ASSUME NEW d \in Device, NEW x, x = op[d].c, op'[d].ans = "accepted"
          PROVE  op'[d].st = "sent" /\ IsLogged(x)'
      BY <1>5, <2>5, <3>1, <3>2 DEF AnswersTrue
    <3> QED
      BY <1>5, <3>2 DEF AnswersTrue, IsLogged
  <2>13. LogNumbered'
    BY <1>1, <1>3, <2>3 DEF LogNumbered
  <2> QED
    BY <2>4, <2>6, <2>7, <2>8, <2>9, <2>10, <2>11, <2>12, <2>13
<1> QED
  BY <1>6, <1>7

\* The initial state.
LEMMA IndInit == Init => IndInv
BY DEF Init, ServerInit, IndInv, LogIsChain, NoFork, InfoFitsItsEpoch,
       BaseSurvivesCrash, InfoCarried, SnapshotsLogged, OwnCommitsFit, Committing,
       RequestsFit, AnswersTrue, LogNumbered, DiskBehindCache, Idle, Free


-----------------------------------------------------------------------------
(* The steps of one device.                                                *)

\* A flow state computed by the helpers knows nothing of the log.
LEMMA AfterFresh ==
  ASSUME TypeOK, NEW d \in Device, NEW held \in BOOLEAN, NEW outcome
  PROVE  /\ Idle.snap = 0 /\ Idle.at = "idle"
         /\ \A stage \in Stage : Goto(d, stage).snap = 0 /\ Goto(d, stage).at = stage
         /\ \A resume : GotoCatchUp(d, resume).snap = 0 /\ GotoCatchUp(d, resume).at = "fetch"
         /\ AfterJoin(d, held).snap = 0
         /\ AfterCommit(d, outcome, held).snap = 0
         /\ AfterAbsent(d).snap = 0
         /\ \A f \in AfterCatchUp(d) : flow[d].at = "decide" => f.snap = 0
<1>1. Idle.snap = 0 /\ Idle.at = "idle"
  BY DEF Idle
<1>2. \A stage \in Stage : Goto(d, stage).snap = 0 /\ Goto(d, stage).at = stage
  BY DEF Goto, Idle
<1>3. \A resume : GotoCatchUp(d, resume).snap = 0 /\ GotoCatchUp(d, resume).at = "fetch"
  BY DEF GotoCatchUp, Goto, Idle
<1>4. \A b \in BOOLEAN : AfterJoin(d, b).snap = 0
  BY <1>1, <1>2, <1>3 DEF AfterJoin, Stage
<1>5. [GotoCatchUp(d, "retry") EXCEPT !.tries = flow[d].tries + 1].snap = 0
  BY DEF GotoCatchUp, Goto, Idle
<1>6. AfterCommit(d, outcome, held).snap = 0
  BY <1>2, <1>3, <1>4, <1>5 DEF AfterCommit, Stage
<1>7. Held(d) \in BOOLEAN /\ TRUE \in BOOLEAN
  BY DEF Held
<1>8. AfterAbsent(d).snap = 0
  BY <1>2, <1>4, <1>7 DEF AfterAbsent, Stage
<1>9. /\ [Goto(d, "info") EXCEPT !.list = roster].snap = 0
      /\ [Goto(d, "remove") EXCEPT !.list = roster].snap = 0
      /\ [Idle EXCEPT !.at = "fetch", !.goal = "heal"].snap = 0
      /\ Goto(d, "info").snap = 0
  BY DEF Goto, Idle
<1>10. \A f \in AfterCatchUp(d) : flow[d].at = "decide" => f.snap = 0
  <2>1. flow[d].resume \in Resume
    BY DEF TypeOK, FlowState
  <2> QED
    BY <1>1, <1>4, <1>7, <1>9, <2>1 DEF AfterCatchUp, Resume
<1> QED
  BY <1>1, <1>2, <1>3, <1>4, <1>6, <1>8, <1>10

OthersStay(d) ==
    \A e \in Device \ {d} :
        /\ cache'[e] = cache[e] /\ disk'[e] = disk[e] /\ op'[e] = op[e]
        /\ flow'[e] = flow[e] /\ mint'[e] = mint[e]

\* What IndStep shows of a step: the invariant survives, and the step appends to
\* the log, moves the copy of one device, or leaves log and copies alone.
StepOutcome ==
    /\ IndInv'
    /\ \/ ServerSubmit
       \/ UNCHANGED <<log, cache, disk>>
       \/ \E d \in Device : OthersStay(d) /\ DeviceMoves(d) /\ log' = log

\* A step that is not an append, of the device d.
LEMMA DeviceStep ==
  ASSUME TypeOK, TypeOK', IndInv, NEW d \in Device, OthersStay(d),
         UNCHANGED <<curEpoch, log>>, InfoFitsItsEpoch',
         DeviceMoves(d), FlowMoves(d), LockMoves(d), mint[d] <= mint'[d], NetMoves
  PROVE  StepOutcome
<1>1. ASSUME NEW e \in Device
      PROVE  DeviceMoves(e) /\ FlowMoves(e) /\ LockMoves(e) /\ mint[e] <= mint'[e]
  <2>1. CASE e = d
    BY <2>1
  <2>2. CASE e # d
    BY <2>2 DEF OthersStay, DeviceMoves, FlowMoves, LockMoves, TypeOK
  <2> QED
    BY <2>1, <2>2
<1>2. IndInv'
  BY <1>1, QuietStep
<1> QED
  BY <1>2 DEF StepOutcome

\* The same, when only the flow moves (and requests may be lost).
LEMMA FlowOnlyStep ==
  ASSUME TypeOK, TypeOK', IndInv, NEW d \in Device,
         flow'[d].at # "join", flow'[d].snap <= Len(log),
         \A e \in Device \ {d} : flow'[e] = flow[e],
         UNCHANGED <<curEpoch, log, cache, disk, op, mint>>, net' \subseteq net,
         InfoFitsItsEpoch'
  PROVE  StepOutcome
<1>1. OthersStay(d)
  BY DEF OthersStay, TypeOK
<1>2. FlowMoves(d) /\ DeviceMoves(d) /\ LockMoves(d) /\ mint[d] <= mint'[d] /\ NetMoves
  BY DEF TypeOK, FlowMoves, DeviceMoves, LockMoves, NetMoves
<1> QED
  BY <1>1, <1>2, DeviceStep

\* A device builds an own commit on what is in the log.
LEMMA BuildStep ==
  ASSUME TypeOK, TypeOK', IndInv, NEW d \in Device, NEW c \in Commit,
         TakeToCommit(d, c), c.by = d, c.no = mint[d] + 1, FitsLog(c), c # NoCommit,
         ~c.ext /\ c.epoch > 1 => Held(d) /\ LocalEpoch(d) = c.epoch - 1
  PROVE  StepOutcome
<1>1. mint[d] \in Nat /\ mint'[d] = mint[d] + 1
  BY DEF TakeToCommit, TypeOK
<1>2. ~IsLogged(c)
  BY <1>1 DEF IsLogged, IndInv, LogNumbered
<1>3. op'[d] = [Free EXCEPT !.st = "base", !.c = c, !.from = flow[d].at]
  BY DEF TakeToCommit, TypeOK
<1>4. op'[d].c = c /\ op'[d].ans = "none"
  BY <1>3 DEF Free
<1>5. OwnCommitFits(d, c)
  BY <1>1, <1>2 DEF OwnCommitFits
<1>6. OthersStay(d) /\ DeviceMoves(d) /\ FlowMoves(d) /\ LockMoves(d)
  BY <1>4, <1>5 DEF OthersStay, DeviceMoves, FlowMoves, LockMoves, TakeToCommit, TypeOK
<1>7. NetMoves /\ InfoFitsItsEpoch' /\ UNCHANGED <<curEpoch, log>>
  BY DEF NetMoves, TakeToCommit, serverVars, InfoFitsItsEpoch, IndInv
<1> QED
  BY <1>1, <1>6, <1>7, DeviceStep

\* The lock is released, or taken to write the copy in memory, and the flow goes on.
LEMMA ReleaseStep ==
  ASSUME TypeOK, TypeOK', IndInv, NEW d \in Device, OthersStay(d),
         op'[d].st \in {"free", "settle"}, op'[d].ans # "accepted",
         DeviceMoves(d), FlowMoves(d), mint' = mint,
         UNCHANGED serverVars
  PROVE  StepOutcome
<1>1. NetMoves /\ InfoFitsItsEpoch' /\ UNCHANGED <<curEpoch, log>>
  BY DEF NetMoves, serverVars, InfoFitsItsEpoch, IndInv
<1>2. LockMoves(d) /\ mint[d] <= mint'[d]
  BY DEF LockMoves, TypeOK
<1> QED
  BY <1>1, <1>2, DeviceStep


\* catchUpGroup ends at a logged epoch, never before the copy it started from.
LEMMA ReplayForwards ==
  ASSUME TypeOK, LogIsChain, NoFork, SnapshotsLogged, NEW d \in Device,
         NEW base \in ReplayBase(d), NEW copy, IsReplay(d, base, flow[d].snap, copy)
  PROVE  IsLogged(copy.c) /\ (Held(d) => LocalEpoch(d) <= copy.c.epoch)
<1>0. /\ base \in Copy /\ base.c.epoch \in Nat /\ flow[d].snap \in Nat
      /\ Len(log) \in Nat /\ DOMAIN log = 1 .. Len(log) /\ flow[d].snap <= Len(log)
  BY ReplayType, LogType DEF Copy, Commit, TypeOK, FlowState, SnapshotsLogged
<1>1. IsLogged(base.c) /\ (Held(d) => base = cache[d])
  <2>1. CASE Held(d)
    BY <2>1, NoForkMember DEF ReplayBase
  <2>2. CASE ~Held(d)
    <3>1. PICK i \in DOMAIN log : base = OwnCopy(log[i])
      BY <2>2 DEF ReplayBase, EntryPoint, WelcomesOf
    <3> QED
      BY <2>2, <3>1 DEF OwnCopy, LogIsChain, IsLogged
  <2> QED
    BY <2>1, <2>2
<1>2. CASE base.c.epoch >= flow[d].snap
  BY <1>0, <1>1, <1>2 DEF IsReplay, LocalEpoch
<1>3. CASE ~(base.c.epoch >= flow[d].snap)
  <2>1. PICK m \in Replayable(d, base, flow[d].snap) : copy = CopyAt(d, base, m)
    BY <1>3 DEF IsReplay
  <2>2. m \in base.c.epoch .. flow[d].snap
    BY <2>1 DEF Replayable
  <2>3. CASE m = base.c.epoch
    BY <1>0, <1>1, <2>1, <2>3 DEF CopyAt, LocalEpoch
  <2>4. CASE m # base.c.epoch
    <3>1. m \in DOMAIN log /\ copy.c = log[m] /\ log[m].epoch = m
      BY <1>0, <2>1, <2>2, <2>4 DEF CopyAt, CopyAfter, LogIsChain
    <3> QED
      BY <1>0, <1>1, <2>2, <3>1 DEF IsLogged, LocalEpoch
  <2> QED
    BY <2>3, <2>4
<1> QED
  BY <1>2, <1>3

\* One step preserves the inductive invariant, in one of three ways.
LEMMA IndStep ==
  ASSUME TypeOK, Shape, TypeOK', IndInv, [Next]_vars
  PROVE  StepOutcome
<1> USE DEF serverVars, deviceVars, rowVars
<1>0. /\ \A d \in Device : flow[d] \in FlowState /\ op[d] \in OpState /\ mint[d] \in Nat
      /\ flow \in [Device -> FlowState] /\ op \in [Device -> OpState] /\ mint \in [Device -> Nat]
      /\ Len(log) \in Nat /\ DOMAIN log = 1 .. Len(log) /\ curEpoch = Len(log)
  BY LogType DEF TypeOK, IndInv, LogIsChain
<1>k. UNCHANGED <<curEpoch, log, info, infoEpoch>> => InfoFitsItsEpoch'
  BY DEF IndInv, InfoFitsItsEpoch
<1>1. ASSUME NEW d \in Device, NEW goal \in Goals, StartFlow(d, goal)
      PROVE  StepOutcome
  <2>1. /\ [Idle EXCEPT !.at = "fetch", !.goal = goal].at = "fetch"
        /\ [Idle EXCEPT !.at = "fetch", !.goal = goal].snap = 0
    BY DEF Idle
  <2>2. /\ flow'[d].at # "join" /\ flow'[d].snap <= Len(log)
        /\ \A e \in Device \ {d} : flow'[e] = flow[e]
    BY <1>0, <1>1, <2>1 DEF StartFlow
  <2> QED
    BY <1>1, <1>k, <2>2, FlowOnlyStep DEF StartFlow
<1>2. ASSUME NEW d \in Device, FlowStep(d)
      PROVE  StepOutcome
  <2>s. \A f : SkipTo(d, f) /\ f.at # "join" /\ f.snap = 0 => StepOutcome
    <3> SUFFICES ASSUME NEW f, SkipTo(d, f), f.at # "join", f.snap = 0
                 PROVE  StepOutcome
      OBVIOUS
    <3>1. /\ flow'[d].at # "join" /\ flow'[d].snap <= Len(log)
          /\ \A e \in Device \ {d} : flow'[e] = flow[e]
      BY <1>0 DEF SkipTo
    <3> QED
      BY <1>k, <3>1, FlowOnlyStep DEF SkipTo
  <2>h. Held(d) \in BOOLEAN /\ TRUE \in BOOLEAN
    BY DEF Held
  <2>1. CASE FetchLog(d)
    <3>1. flow' = [flow EXCEPT ![d] = [@ EXCEPT !.at = "fetched", !.snap = Len(log)]]
      BY <1>0, <2>1 DEF FetchLog, TypeOK
    <3>2. /\ [flow[d] EXCEPT !.at = "fetched", !.snap = Len(log)].at = "fetched"
          /\ [flow[d] EXCEPT !.at = "fetched", !.snap = Len(log)].snap = Len(log)
      BY <1>0 DEF FlowState
    <3>3. /\ flow'[d].at # "join" /\ flow'[d].snap <= Len(log)
          /\ \A e \in Device \ {d} : flow'[e] = flow[e]
      BY <1>0, <3>1, <3>2
    <3> QED
      BY <1>k, <2>1, <3>3, FlowOnlyStep DEF FetchLog
  <2>2. CASE FetchRow(d)
    <3>1. flow' = [flow EXCEPT ![d] = [@ EXCEPT !.at = "apply", !.snapEpoch = curEpoch, !.snapInfo = infoEpoch]]
      BY <1>0, <2>2 DEF FetchRow, TypeOK
    <3>2. /\ [flow[d] EXCEPT !.at = "apply", !.snapEpoch = curEpoch, !.snapInfo = infoEpoch].at = "apply"
          /\ [flow[d] EXCEPT !.at = "apply", !.snapEpoch = curEpoch, !.snapInfo = infoEpoch].snap = flow[d].snap
      BY <1>0 DEF FlowState
    <3>3. /\ flow'[d].at # "join" /\ flow'[d].snap <= Len(log)
          /\ \A e \in Device \ {d} : flow'[e] = flow[e]
      BY <1>0, <3>1, <3>2 DEF IndInv, SnapshotsLogged
    <3> QED
      BY <1>k, <2>2, <3>3, FlowOnlyStep DEF FetchRow
  <2>3. CASE ApplyCatchUp(d)
    <3>1. UNCHANGED <<disk, mint, faults, serverVars>> /\ LockFree(d)
      BY <2>3 DEF ApplyCatchUp
    <3>2. FlowMoves(d) /\ \A e \in Device \ {d} : flow'[e] = flow[e]
      <4>0. PICK stage \in {"decide", "refresh"} : \E g :
               flow' = [flow EXCEPT ![d] = [@ EXCEPT !.at = stage, !.diverged = g]]
        BY <2>3 DEF ApplyCatchUp
      <4>1. PICK g : flow' = [flow EXCEPT ![d] = [@ EXCEPT !.at = stage, !.diverged = g]]
        BY <4>0
      <4>2. /\ [flow[d] EXCEPT !.at = stage, !.diverged = g].at = stage
            /\ [flow[d] EXCEPT !.at = stage, !.diverged = g].snap = flow[d].snap
        BY <1>0 DEF FlowState
      <4>3. flow'[d].at # "join" /\ flow'[d].snap <= Len(log)
        BY <1>0, <4>0, <4>1, <4>2 DEF IndInv, SnapshotsLogged
      <4> QED
        BY <1>0, <4>1, <4>3 DEF FlowMoves
    <3>3. CASE UNCHANGED <<cache, op>>
      <4>2. OthersStay(d) /\ FlowMoves(d)
        BY <3>1, <3>2, <3>3 DEF OthersStay
      <4>3. DeviceMoves(d) /\ LockMoves(d) /\ mint[d] <= mint'[d] /\ NetMoves
        BY <1>0, <3>1, <3>3 DEF DeviceMoves, LockMoves, NetMoves
      <4> QED
        BY <1>k, <3>1, <4>2, <4>3, DeviceStep
    <3>4. CASE ~UNCHANGED <<cache, op>>
      <4>1. PICK base, copy :
               /\ base \in ReplayBase(d)
               /\ copy \in {base} \cup {CopyAfter(d, log[i]) : i \in DOMAIN log}
               /\ IsReplay(d, base, flow[d].snap, copy)
               /\ flow' = [flow EXCEPT
                   ![d].at = IF Diverged(d, copy) THEN "decide" ELSE "refresh",
                   ![d].diverged = Diverged(d, copy)]
               /\ TakeToSettle(d, copy, "apply")
        <5>1. PICK base \in ReplayBase(d) : \E copy \in {base} \cup {CopyAfter(d, log[i]) : i \in DOMAIN log} :
               /\ IsReplay(d, base, flow[d].snap, copy)
               /\ flow' = [flow EXCEPT
                   ![d].at = IF Diverged(d, copy) THEN "decide" ELSE "refresh",
                   ![d].diverged = Diverged(d, copy)]
               /\ TakeToSettle(d, copy, "apply")
          BY <2>3, <3>4 DEF ApplyCatchUp
        <5> QED
          BY <5>1
      <4>2. IsLogged(copy.c) /\ (Held(d) => LocalEpoch(d) <= copy.c.epoch)
        BY <4>1, ReplayForwards DEF IndInv
      <4>3. copy # NotHeld
        BY <4>1, ReplayType, LogType, CopyType, NotHeldAssumption DEF Copy
      <4>4. cache'[d] = copy /\ op'[d] = [Free EXCEPT !.st = "settle", !.from = "apply"]
            /\ \A e \in Device \ {d} : cache'[e] = cache[e] /\ op'[e] = op[e]
        BY <4>1 DEF TakeToSettle, TypeOK
      <4>5. op'[d].st = "settle" /\ op'[d].ans = "none"
        BY <4>4 DEF Free
      <4>6. OthersStay(d) /\ FlowMoves(d)
        BY <3>1, <3>2, <4>4 DEF OthersStay
      <4>7. DeviceMoves(d)
        BY <3>1, <4>2, <4>3, <4>4 DEF DeviceMoves, Forwards
      <4> QED
        BY <3>1, <4>5, <4>6, <4>7, ReleaseStep
    <3> QED
      BY <3>3, <3>4
  <2>4. CASE RefreshGroupInfo(d)
    <3>1. flow' = [flow EXCEPT ![d] = [@ EXCEPT !.at = "decide"]]
      BY <2>4 DEF RefreshGroupInfo, TypeOK
    <3>2. [flow[d] EXCEPT !.at = "decide"].at = "decide" /\ [flow[d] EXCEPT !.at = "decide"].snap = flow[d].snap
      BY <1>0 DEF FlowState
    <3>3. UNCHANGED <<cache, disk, op, mint, faults, curEpoch, log, roster, net>>
      BY <2>4 DEF RefreshGroupInfo
    <3>4. InfoFitsItsEpoch'
      <4>1. CASE UNCHANGED <<info, infoEpoch>>
        BY <1>k, <3>3, <4>1
      <4>2. CASE Held(d) /\ LocalEpoch(d) = flow[d].snapEpoch /\ curEpoch = flow[d].snapEpoch
                 /\ info' = cache[d].c /\ infoEpoch' = flow[d].snapEpoch
        BY <3>3, <4>2, NoForkMember DEF InfoFitsItsEpoch, IndInv, IsLogged, LocalEpoch
      <4> QED
        BY <2>4, <4>1, <4>2 DEF RefreshGroupInfo, PutGroupInfo
    <3>5. /\ flow'[d].at # "join" /\ flow'[d].snap <= Len(log)
          /\ \A e \in Device \ {d} : flow'[e] = flow[e]
      BY <1>0, <3>1, <3>2 DEF IndInv, SnapshotsLogged
    <3> QED
      BY <3>3, <3>4, <3>5, FlowOnlyStep
  <2>5. CASE Decide(d)
    <3>1. PICK f \in AfterCatchUp(d) : flow' = [flow EXCEPT ![d] = f]
      BY <2>5 DEF Decide
    <3>2. f.snap = 0 /\ f.at # "join"
      BY <2>5, <2>h, AfterFresh, AfterCatchUpType DEF Decide
    <3>3. /\ flow'[d].at # "join" /\ flow'[d].snap <= Len(log)
          /\ \A e \in Device \ {d} : flow'[e] = flow[e]
      BY <1>0, <3>1, <3>2
    <3> QED
      BY <1>k, <2>5, <3>3, FlowOnlyStep DEF Decide
  <2>6. CASE FetchInfo(d)
    <3>0. UNCHANGED <<cache, disk, op, mint, faults, serverVars>>
      BY <2>6 DEF FetchInfo
    <3>1. AfterAbsent(d).at # "join" /\ AfterAbsent(d).snap = 0
          /\ AfterJoin(d, Held(d)).at # "join" /\ AfterJoin(d, Held(d)).snap = 0
      BY <2>h, AfterFresh, AfterType
    <3>2. CASE flow' = [flow EXCEPT ![d] = AfterAbsent(d)] \/ flow' = [flow EXCEPT ![d] = AfterJoin(d, Held(d))]
      <4>1. /\ flow'[d].at # "join" /\ flow'[d].snap <= Len(log)
            /\ \A e \in Device \ {d} : flow'[e] = flow[e]
        BY <1>0, <3>1, <3>2
      <4> QED
        BY <1>k, <3>0, <4>1, FlowOnlyStep
    <3>3. CASE /\ d \in roster \ Legacy /\ GroupExists /\ ServesInfo
               /\ flow' = [flow EXCEPT ![d] = [Goto(d, "join") EXCEPT !.gi = info, !.giEpoch = curEpoch]]
      <4>1. info # NoCommit /\ IsLogged(info) /\ info.epoch = curEpoch
        BY <1>0, <3>3 DEF ServesInfo, GroupExists, IndInv, InfoFitsItsEpoch, IsLogged, LogIsChain
      <4>2. flow'[d].snap = 0 /\ flow'[d].gi = info /\ flow'[d].giEpoch = curEpoch
        BY <1>0, <3>3 DEF Goto, Idle, TypeOK
      <4>3. FlowMoves(d)
        BY <1>0, <4>1, <4>2 DEF FlowMoves
      <4>4. OthersStay(d) /\ DeviceMoves(d) /\ LockMoves(d) /\ mint[d] <= mint'[d] /\ NetMoves
        BY <1>0, <3>0, <3>3 DEF OthersStay, DeviceMoves, LockMoves, NetMoves, TypeOK
      <4> QED
        BY <1>k, <3>0, <4>3, <4>4, DeviceStep
    <3> QED
      BY <2>6, <3>2, <3>3 DEF FetchInfo
  <2>7. CASE BuildExternal(d)
    <3>1. AfterJoin(d, TRUE).at # "join" /\ AfterJoin(d, TRUE).snap = 0
      BY <2>h, AfterFresh, AfterType
    <3>0. PICK c : c = NewCommit(d, flow[d].giEpoch + 1, Id(flow[d].gi),
                                 flow[d].gi.members \cup {d}, {}, TRUE)
      OBVIOUS
    <3>2. /\ flow[d].gi \in Commit /\ IsLogged(flow[d].gi) /\ flow[d].gi.epoch = flow[d].giEpoch
          /\ flow[d].giEpoch \in Nat
      BY <1>0, <2>7 DEF BuildExternal, IndInv, InfoCarried, FlowState
    <3>3. c \in Commit /\ c # NoCommit
      <4>1. /\ Id(flow[d].gi) \in CommitId /\ flow[d].gi.members \cup {d} \in SUBSET Device
            /\ flow[d].giEpoch + 1 \in Nat /\ {} \in SUBSET Device
        BY <3>2, IdType DEF Commit
      <4> QED
        BY <1>0, <3>0, <4>1, NewCommitType
    <3>4. c.by = d /\ c.no = mint[d] + 1 /\ c.ext /\ c.epoch = flow[d].giEpoch + 1 /\ c.parent = Id(flow[d].gi)
      BY <3>0 DEF NewCommit
    <3>5. FitsLog(c)
      BY <1>0, <3>2, <3>4 DEF FitsLog, IsLogged
    <3> QED
      BY <2>7, <2>s, <3>0, <3>1, <3>3, <3>4, <3>5, BuildStep DEF BuildExternal
  <2>8. CASE BuildGenesis(d)
    <3>1. AfterJoin(d, Held(d)).at # "join" /\ AfterJoin(d, Held(d)).snap = 0
      BY <2>h, AfterFresh, AfterType
    <3>0. PICK c : c = NewCommit(d, 1, Root, flow[d].list \cup {d}, flow[d].list \ {d}, FALSE)
      OBVIOUS
    <3>2. c \in Commit /\ c # NoCommit
      <4>1. Root \in CommitId /\ flow[d].list \in SUBSET Device
        BY <1>0 DEF CommitId, FlowState
      <4> QED
        BY <1>0, <3>0, <4>1, NewCommitType
    <3>3. c.by = d /\ c.no = mint[d] + 1 /\ c.epoch = 1 /\ c.parent = Root
      BY <3>0 DEF NewCommit
    <3>4. FitsLog(c)
      BY <1>0, <3>3 DEF FitsLog
    <3>5. ~(c.epoch > 1)
      BY <3>3
    <3>6. TakeToCommit(d, c) => StepOutcome
      BY <3>2, <3>3, <3>4, <3>5, BuildStep
    <3> QED
      BY <2>8, <2>s, <3>0, <3>1, <3>6 DEF BuildGenesis
  <2>m. \A members \in SUBSET Device :
          Held(d) /\ BuildMemberCommit(d, members) => StepOutcome
    <3> SUFFICES ASSUME NEW members \in SUBSET Device, Held(d), BuildMemberCommit(d, members)
                 PROVE  StepOutcome
      OBVIOUS
    <3>0. PICK c : c = NewCommit(d, LocalEpoch(d) + 1, Id(cache[d].c), members,
                                 members \ cache[d].c.members, FALSE)
      OBVIOUS
    <3>1. cache[d].c \in Commit /\ LocalEpoch(d) \in Nat /\ IsLogged(cache[d].c)
      BY LogType, NoForkMember DEF IndInv
    <3>2. c \in Commit /\ c # NoCommit
      <4>1. /\ Id(cache[d].c) \in CommitId /\ members \ cache[d].c.members \in SUBSET Device
            /\ LocalEpoch(d) + 1 \in Nat
        BY <3>1, IdType
      <4> QED
        BY <1>0, <3>0, <4>1, NewCommitType
    <3>3. c.by = d /\ c.no = mint[d] + 1 /\ c.epoch = LocalEpoch(d) + 1 /\ c.parent = Id(cache[d].c)
      BY <3>0 DEF NewCommit
    <3>4. FitsLog(c) /\ LocalEpoch(d) = c.epoch - 1
      <4>1. LocalEpoch(d) = c.epoch - 1
        BY <3>1, <3>3
      <4>2. LocalEpoch(d) \in DOMAIN log /\ log[LocalEpoch(d)] = cache[d].c
        BY <3>1 DEF IsLogged, LocalEpoch
      <4>3. c.epoch \in 1 .. curEpoch + 1 /\ c.epoch # 1
        BY <1>0, <3>1, <3>3, <4>2
      <4> QED
        BY <3>3, <4>1, <4>2, <4>3 DEF FitsLog
    <3>5. Idle.at # "join" /\ Idle.snap = 0
      BY DEF Idle
    <3> QED
      BY <2>s, <3>0, <3>2, <3>3, <3>4, <3>5, BuildStep DEF BuildMemberCommit
  <2>9. CASE BuildRemove(d)
    <3>1. Goto(d, "add").at # "join" /\ Goto(d, "add").snap = 0
      BY <2>h, AfterFresh DEF Stage
    <3>2. Held(d) => cache[d].c.members \cap flow[d].list \in SUBSET Device
      BY <1>0 DEF FlowState
    <3> QED
      BY <2>m, <2>s, <2>9, <3>1, <3>2 DEF BuildRemove
  <2>10. CASE BuildAdd(d)
    <3>1. GotoCatchUp(d, "final").at # "join" /\ GotoCatchUp(d, "final").snap = 0
      BY <2>h, AfterFresh
    <3>2. Held(d) => cache[d].c.members \cup (flow[d].list \ {d}) \in SUBSET Device
      BY <1>0, LogType DEF FlowState, Commit
    <3> QED
      BY <2>m, <2>s, <2>10, <3>1, <3>2 DEF BuildAdd
  <2> QED
    BY <1>2, <2>1, <2>2, <2>3, <2>4, <2>5, <2>6, <2>7, <2>8, <2>9, <2>10 DEF FlowStep
<1>t. ASSUME NEW d \in Device, NEW copy \in Copy, NEW from, TakeToSettle(d, copy, from)
      PROVE  /\ cache'[d] = copy /\ copy # NotHeld
             /\ op'[d].st = "settle" /\ op'[d].ans = "none"
             /\ \A e \in Device \ {d} : cache'[e] = cache[e] /\ op'[e] = op[e]
  <2>1. [Free EXCEPT !.st = "settle", !.from = from].st = "settle"
        /\ [Free EXCEPT !.st = "settle", !.from = from].ans = "none"
    BY DEF Free
  <2> QED
    BY <1>t, <2>1, NotHeldAssumption DEF TakeToSettle, TypeOK, Copy
<1>c. ASSUME NEW d \in Device, NEW outcome, Conclude(d, outcome), UNCHANGED serverVars
      PROVE  StepOutcome
  <2>1. /\ AfterCommit(d, outcome, Held(d)).snap = 0
        /\ AfterCommit(d, outcome, Held(d)).at # "join"
    BY AfterType, AfterFresh DEF Held
  <2>2. op'[d].st = "free" /\ op'[d].ans = "none" /\ flow'[d].snap = 0 /\ flow'[d].at # "join"
    BY <1>c, <2>1 DEF Conclude, TypeOK, Free
  <2>3. OthersStay(d) /\ DeviceMoves(d) /\ FlowMoves(d) /\ mint' = mint
    BY <1>0, <1>c, <2>2 DEF Conclude, OthersStay, DeviceMoves, FlowMoves, TypeOK
  <2> QED
    BY <1>c, <2>2, <2>3, ReleaseStep
<1>a. ASSUME NEW d \in Device, Committing(d), IsLogged(op[d].c), Adopt(d), UNCHANGED serverVars
      PROVE  StepOutcome
  <2>1. /\ AfterCommit(d, "accepted", TRUE).snap = 0
        /\ AfterCommit(d, "accepted", TRUE).at # "join"
    BY AfterType, AfterFresh
  <2>2. op[d].c \in Commit
    BY <1>0, <1>a DEF OpState, Shape
  <2>3. OwnCopy(op[d].c) \in Copy /\ OwnCopy(op[d].c).c = op[d].c
    BY <2>2, CopyType DEF OwnCopy
  <2>4. /\ cache'[d] = OwnCopy(op[d].c) /\ cache'[d] # NotHeld
        /\ op'[d].st = "settle" /\ op'[d].ans = "none"
        /\ \A e \in Device \ {d} : cache'[e] = cache[e] /\ op'[e] = op[e]
    BY <1>a, <1>t, <2>3 DEF Adopt
  <2>5. Forwards(d)
    <3>1. Held(d) => LocalEpoch(d) \in Nat /\ LocalEpoch(d) < op[d].c.epoch
      BY <1>a, LogType DEF IndInv, OwnCommitsFit
    <3>2. op[d].c.epoch \in Nat
      BY <2>2 DEF Commit
    <3> QED
      BY <1>a, <2>3, <2>4, <3>1, <3>2 DEF Forwards
  <2>6. OthersStay(d) /\ DeviceMoves(d) /\ FlowMoves(d) /\ mint' = mint
    <3>1. UNCHANGED <<disk, mint>> /\ flow' = [flow EXCEPT ![d] = AfterCommit(d, "accepted", TRUE)]
      BY <1>a DEF Adopt
    <3>2. OthersStay(d)
      BY <1>0, <2>4, <3>1 DEF OthersStay
    <3>3. DeviceMoves(d)
      BY <2>5, <3>1 DEF DeviceMoves
    <3>4. flow'[d].snap <= Len(log) /\ flow'[d].at # "join"
      <4>1. PICK f : f = AfterCommit(d, "accepted", TRUE)
        OBVIOUS
      <4>2. flow'[d] = f
        BY <1>0, <3>1, <4>1 DEF TypeOK
      <4>3. f.snap = 0 /\ f.at # "join"
        BY <2>1, <4>1
      <4> QED
        BY <1>0, <4>2, <4>3
    <3> QED
      BY <3>1, <3>2, <3>3, <3>4 DEF FlowMoves
  <2> QED
    BY <1>a, <2>4, <2>6, ReleaseStep
<1>3. ASSUME NEW d \in Device, LockStep(d)
      PROVE  StepOutcome
  <2>1. CASE Settle(d)
    <3>1. op'[d].st = "free" /\ op'[d].ans = "none"
      BY <2>1 DEF Settle, Free, TypeOK
    <3>2. OthersStay(d) /\ DeviceMoves(d) /\ FlowMoves(d) /\ mint' = mint
      BY <2>1 DEF Settle, OthersStay, DeviceMoves, FlowMoves, TypeOK
    <3> QED
      BY <2>1, <3>1, <3>2, ReleaseStep DEF Settle
  <2>2. CASE Submit(d)
    <3>1. op'[d].c = op[d].c /\ op'[d].ans = op[d].ans /\ Committing(d) /\ op[d].ans # "accepted"
      BY <1>0, <2>2 DEF Submit, Committing, OpState, TypeOK, IndInv, AnswersTrue
    <3>2. OthersStay(d) /\ DeviceMoves(d) /\ FlowMoves(d) /\ LockMoves(d) /\ mint[d] <= mint'[d]
      BY <1>0, <2>2, <3>1 DEF Submit, OthersStay, DeviceMoves, FlowMoves, LockMoves, TypeOK
    <3>3. NetMoves
      <4>1. op[d].c.by = d /\ op[d].c.no <= mint[d] /\ FitsLog(op[d].c)
        BY <3>1 DEF IndInv, OwnCommitsFit
      <4>2. ~op[d].c.ext /\ op[d].c.epoch > 1 => Held(d) /\ LocalEpoch(d) = op[d].c.epoch - 1
        BY <3>1 DEF IndInv, OwnCommitsFit
      <4>3. disk'[d] = cache[d] /\ net' = net \cup {op[d].c}
        BY <2>2 DEF Submit, TypeOK
      <4>4. Held(d) => LocalEpoch(d) \in Nat
        BY LogType
      <4>5. ASSUME NEW c, c = op[d].c
            PROVE  FitsLog(c) /\ c.no <= mint[c.by] /\ BaseOnDisk(c)'
        BY <4>1, <4>2, <4>3, <4>4, <4>5 DEF BaseOnDisk, Held, LocalEpoch
      <4> QED
        BY <4>3, <4>5 DEF NetMoves
    <3> QED
      BY <1>k, <2>2, <3>2, <3>3, DeviceStep DEF Submit
  <2>3. CASE Answer(d)
    <3>1. op[d].ans \in {"accepted", "conflict", "refused"}
      BY <1>0, <2>3 DEF Answer, OpState
    <3>2. Committing(d) /\ UNCHANGED <<faults, serverVars>>
      BY <2>3 DEF Answer, Committing
    <3>3. CASE op[d].ans = "accepted"
      <4>1. Adopt(d)
        BY <2>3, <3>3 DEF Answer
      <4>2. IsLogged(op[d].c)
        BY <3>3 DEF IndInv, AnswersTrue
      <4> QED
        BY <1>a, <3>2, <4>1, <4>2
    <3>4. CASE op[d].ans = "conflict"
      <4>1. Conclude(d, "conflict")
        BY <2>3, <3>4 DEF Answer
      <4> QED
        BY <1>c, <3>2, <4>1
    <3>5. CASE op[d].ans = "refused"
      <4>1. op' = [op EXCEPT ![d].st = "check"] /\ UNCHANGED <<cache, disk, flow, mint>>
        BY <2>3, <3>5 DEF Answer
      <4>2. op'[d].c = op[d].c /\ op'[d].ans = "refused"
        BY <1>0, <3>5, <4>1 DEF OpState, TypeOK
      <4>3. OthersStay(d) /\ DeviceMoves(d) /\ FlowMoves(d) /\ LockMoves(d) /\ mint[d] <= mint'[d] /\ NetMoves
        BY <1>0, <3>2, <4>1, <4>2 DEF OthersStay, DeviceMoves, FlowMoves, LockMoves, NetMoves, TypeOK
      <4> QED
        BY <1>k, <3>2, <4>3, DeviceStep
    <3> QED
      BY <3>1, <3>3, <3>4, <3>5
  <2>4. CASE CheckLog(d)
    <3>1. Committing(d) /\ UNCHANGED <<faults, serverVars>>
      BY <2>4 DEF CheckLog, Committing
    <3>2. CASE LogShows(op[d].c)
      BY <1>a, <2>4, <3>1, <3>2 DEF CheckLog, LogShows, IsLogged
    <3>3. CASE ~LogShows(op[d].c)
      BY <1>c, <2>4, <3>1, <3>3 DEF CheckLog
    <3> QED
      BY <3>2, <3>3
  <2> QED
    BY <1>3, <2>1, <2>2, <2>3, <2>4 DEF LockStep
<1>4. ASSUME NEW d \in Device, FaultStep(d)
      PROVE  StepOutcome
  <2>h. Held(d) \in BOOLEAN /\ Idle.at # "join" /\ Idle.snap = 0
    BY DEF Held, Idle
  <2>j. AfterJoin(d, Held(d)).at # "join" /\ AfterJoin(d, Held(d)).snap = 0
    BY <2>h, AfterFresh, AfterType
  <2>r. ASSUME op' = [op EXCEPT ![d] = Free], FlowMoves(d), DeviceMoves(d), mint' = mint,
               UNCHANGED serverVars, OthersStay(d)
        PROVE  StepOutcome
    <3>1. op'[d].st = "free" /\ op'[d].ans = "none"
      BY <2>r DEF Free, TypeOK
    <3> QED
      BY <2>r, <3>1, ReleaseStep
  <2>1. CASE SettleFails(d)
    <3>1. FlowMoves(d) /\ DeviceMoves(d) /\ OthersStay(d)
      BY <1>0, <2>1, <2>h DEF SettleFails, FlowMoves, DeviceMoves, OthersStay, TypeOK
    <3> QED
      BY <2>1, <2>r, <3>1 DEF SettleFails
  <2>2. CASE FetchFails(d)
    <3>1. flow' = [flow EXCEPT ![d] = [@ EXCEPT !.at = "decide", !.diverged = FALSE]]
      BY <2>2 DEF FetchFails, TypeOK
    <3>2. /\ [flow[d] EXCEPT !.at = "decide", !.diverged = FALSE].at = "decide"
          /\ [flow[d] EXCEPT !.at = "decide", !.diverged = FALSE].snap = flow[d].snap
      BY <1>0 DEF FlowState
    <3>3. /\ flow'[d].at # "join" /\ flow'[d].snap <= Len(log)
          /\ \A e \in Device \ {d} : flow'[e] = flow[e]
      BY <1>0, <3>1, <3>2 DEF IndInv, SnapshotsLogged
    <3> QED
      BY <1>k, <2>2, <3>3, FlowOnlyStep DEF FetchFails
  <2>3. CASE DecideFails(d)
    <3>1. /\ flow'[d].at # "join" /\ flow'[d].snap <= Len(log)
          /\ \A e \in Device \ {d} : flow'[e] = flow[e]
      BY <1>0, <2>3, <2>h DEF DecideFails
    <3> QED
      BY <1>k, <2>3, <3>1, FlowOnlyStep DEF DecideFails
  <2>4. CASE FetchInfoFails(d)
    <3>1. /\ flow'[d].at # "join" /\ flow'[d].snap <= Len(log)
          /\ \A e \in Device \ {d} : flow'[e] = flow[e]
      BY <1>0, <2>4, <2>j DEF FetchInfoFails
    <3> QED
      BY <1>k, <2>4, <3>1, FlowOnlyStep DEF FetchInfoFails
  <2>5. CASE BaseFails(d)
    <3>1. FlowMoves(d) /\ DeviceMoves(d) /\ OthersStay(d)
      BY <1>0, <2>5, <2>h, <2>j DEF BaseFails, FlowMoves, DeviceMoves, OthersStay, TypeOK
    <3> QED
      BY <2>5, <2>r, <3>1 DEF BaseFails
  <2>6. CASE LoseAnswer(d)
    <3>1. op' = [op EXCEPT ![d].st = "check", ![d].ans = "none"] /\ Committing(d)
          /\ UNCHANGED <<cache, disk, flow, mint, rowVars, roster>> /\ net' \subseteq net
      BY <2>6 DEF LoseAnswer, Committing
    <3>2. op'[d].c = op[d].c /\ op'[d].ans = "none"
      BY <1>0, <3>1 DEF OpState, TypeOK
    <3>3. OthersStay(d) /\ DeviceMoves(d) /\ FlowMoves(d) /\ LockMoves(d) /\ mint[d] <= mint'[d] /\ NetMoves
      BY <1>0, <3>1, <3>2 DEF OthersStay, DeviceMoves, FlowMoves, LockMoves, NetMoves, TypeOK
    <3> QED
      BY <1>k, <3>1, <3>3, DeviceStep
  <2>7. CASE CheckGivesUp(d)
    BY <1>c, <2>7 DEF CheckGivesUp
  <2>8. CASE Crash(d)
    <3>1. FlowMoves(d) /\ DeviceMoves(d) /\ OthersStay(d)
      BY <1>0, <2>8, <2>h DEF Crash, FlowMoves, DeviceMoves, OthersStay, TypeOK
    <3> QED
      BY <2>8, <2>r, <3>1 DEF Crash
  <2> QED
    BY <1>4, <2>1, <2>2, <2>3, <2>4, <2>5, <2>6, <2>7, <2>8 DEF FaultStep
<1>5. ASSUME NEW d \in Device, LiveCommit(d) \/ LiveWelcome(d)
      PROVE  StepOutcome
  <2>1. UNCHANGED <<disk, flow, mint, faults, serverVars>>
    BY <1>5 DEF LiveCommit, LiveWelcome
  <2>2. PICK i \in DOMAIN log, copy \in Copy :
          /\ copy.c = log[i] /\ TakeToSettle(d, copy, "live")
          /\ Held(d) => i = LocalEpoch(d) + 1
    <3>1. CASE LiveCommit(d)
      <4>1. PICK i \in DOMAIN log : CanProcess(d, cache[d], log[i])
                                    /\ TakeToSettle(d, CopyAfter(d, log[i]), "live")
        BY <3>1 DEF LiveCommit
      <4>2. log[i].epoch = i
        BY DEF IndInv, LogIsChain
      <4>3. CopyAfter(d, log[i]) \in Copy /\ CopyAfter(d, log[i]).c = log[i]
        BY LogType, CopyType DEF CopyAfter
      <4> QED
        BY <4>1, <4>2, <4>3 DEF CanProcess, LocalEpoch
    <3>2. CASE LiveWelcome(d)
      BY <3>2, LogType, CopyType DEF LiveWelcome, OwnCopy
    <3> QED
      BY <1>5, <3>1, <3>2
  <2>3. IsLogged(copy.c) /\ copy.c.epoch = i
    BY <2>2 DEF IndInv, LogIsChain, IsLogged
  <2>4. Forwards(d)
    BY <1>0, <1>t, <2>2, <2>3, LogType DEF Forwards
  <2>5. /\ cache'[d] = copy /\ op'[d].st = "settle" /\ op'[d].ans = "none"
        /\ \A e \in Device \ {d} : cache'[e] = cache[e] /\ op'[e] = op[e]
    BY <1>t, <2>2
  <2>6. OthersStay(d) /\ DeviceMoves(d) /\ FlowMoves(d)
    BY <2>1, <2>4, <2>5 DEF OthersStay, DeviceMoves, FlowMoves
  <2> QED
    BY <2>1, <2>5, <2>6, ReleaseStep
<1>6. ASSUME ServerSubmit
      PROVE  StepOutcome
  BY <1>6, AppendStep DEF StepOutcome
<1>7. CASE (\E d \in Device : MemberListChange(d)) \/ UNCHANGED vars
  <2>1. UNCHANGED <<curEpoch, log, info, infoEpoch, net, cache, disk, op, flow, mint>>
    BY <1>7 DEF MemberListChange, RosterChange, vars
  <2>2. NetMoves /\ \A d \in Device : DeviceMoves(d) /\ FlowMoves(d) /\ LockMoves(d) /\ mint[d] <= mint'[d]
    BY <1>0, <2>1 DEF NetMoves, DeviceMoves, FlowMoves, LockMoves
  <2>3. IndInv'
    BY <1>k, <2>1, <2>2, QuietStep
  <2> QED
    BY <2>1, <2>3 DEF StepOutcome
<1> QED
  BY <1>1, <1>2, <1>3, <1>4, <1>5, <1>6, <1>7 DEF Next

-----------------------------------------------------------------------------
(* Theorems.                                                               *)

\* The inductive invariant holds of every reachable state.
THEOREM Invariance == Spec => []IndInv
<1>1. Init => IndInv /\ TypeOK /\ Shape
  BY IndInit, TypeInit
<1>2. (IndInv /\ TypeOK /\ Shape) /\ [Next]_vars => (IndInv /\ TypeOK /\ Shape)'
  BY TypeStep, IndStep DEF StepOutcome
<1> QED
  BY <1>1, <1>2, PTL DEF Spec

\* No device ever holds, in memory or on disk, a copy of the group other than
\* the one the logged commit of its epoch produces.
THEOREM NoForkEver == Spec => []NoFork
<1>1. IndInv => NoFork
  BY DEF IndInv
<1> QED
  BY <1>1, Invariance, PTL

\* The server's log is one chain, one commit per epoch, although the server
\* cannot read a commit.
THEOREM OneChain == Spec => []LogIsChain
<1>1. IndInv => LogIsChain
  BY DEF IndInv
<1> QED
  BY <1>1, Invariance, PTL

\* A GroupInfo is stored under the epoch of the commit it describes, also
\* beside clients that upload none.
THEOREM InfoNeverStaleUnnoticed == Spec => []InfoFitsItsEpoch
<1>1. IndInv => InfoFitsItsEpoch
  BY DEF IndInv
<1> QED
  BY <1>1, Invariance, PTL

\* A restart never loads anything older than the base of a member commit of
\* the device that the server has logged.
THEOREM CommittersCanRestart == Spec => []BaseSurvivesCrash
<1>1. IndInv => BaseSurvivesCrash
  BY DEF IndInv
<1> QED
  BY <1>1, Invariance, PTL


-----------------------------------------------------------------------------
(* MlsGroup implements GroupHistory.                                       *)

\* An append to the log extends the history; nothing else of it moves.
LEMMA AppendExtends ==
  ASSUME TypeOK, TypeOK', ServerSubmit
  PROVE  History!Extend \/ UNCHANGED History!vars
<1>1. PICK c \in net : HandleSubmit(c) /\ UNCHANGED <<cache, disk>>
  BY DEF ServerSubmit
<1>2. c \in Commit /\ log \in Seq(Commit)
  BY DEF TypeOK
<1>3. CASE log' = log
  BY <1>1, <1>3 DEF History!vars
<1>4. CASE log' = Append(log, c)
  <2>1. log' # << >> /\ log'[Len(log')] = c
    BY <1>2, <1>4
  <2> QED
    BY <1>1, <1>2, <1>4, <2>1 DEF History!Extend
<1> QED
  BY <1>1, <1>3, <1>4 DEF HandleSubmit, BumpGroupEpoch, rowVars

\* A move of one copy advances, saves or restarts one reader, or is invisible.
LEMMA CopyMoves ==
  ASSUME TypeOK, TypeOK', IndInv, IndInv', NEW d \in Device,
         OthersStay(d), DeviceMoves(d), log' = log
  PROVE  \/ History!Advance(d) \/ History!Save(d) \/ History!Restart(d)
         \/ UNCHANGED History!vars
<1> DEFINE place == [e \in Device |-> Place(cache[e])]
           saved == [e \in Device |-> Place(disk[e])]
<1>1. \A e \in Device \ {d} : place'[e] = place[e] /\ saved'[e] = saved[e]
  BY DEF OthersStay
<1>2. \A e \in Device : place[e] \in Nat /\ saved[e] \in Nat /\ place'[e] \in Nat /\ saved'[e] \in Nat
  <2>1. \A copy \in Copy : copy.c.epoch \in Nat
    BY DEF Copy, Commit
  <2> QED
    BY <2>1 DEF Place, TypeOK
<1>3. CASE cache'[d] = cache[d] /\ disk'[d] = disk[d]
  <2>1. place' = place /\ saved' = saved
    BY <1>1, <1>3
  <2> QED
    BY <2>1 DEF History!vars
<1>4. CASE disk'[d] = disk[d] /\ Forwards(d)
  <2>1. saved' = saved
    BY <1>1, <1>4
  <2>2. place'[d] \in 1 .. Len(log) /\ place[d] <= place'[d]
    <3>1. cache'[d].c.epoch \in DOMAIN log /\ cache'[d] # NotHeld
      BY <1>4 DEF Forwards, IsLogged
    <3> QED
      BY <1>2, <1>4, <3>1, LogType DEF Forwards, Place, Held, LocalEpoch
  <2>3. place' = [place EXCEPT ![d] = place'[d]]
    BY <1>1
  <2>4. CASE place'[d] = place[d]
    BY <2>1, <2>3, <2>4 DEF History!vars
  <2>5. CASE place'[d] # place[d]
    <3>1. place'[d] \in place[d] + 1 .. Len(log)
      BY <1>2, <2>2, <2>5, LogType
    <3> QED
      BY <2>1, <2>3, <3>1 DEF History!Advance
  <2> QED
    BY <2>4, <2>5
<1>5. CASE disk'[d] = cache[d] /\ cache'[d] = cache[d]
  <2>1. place' = place /\ saved' = [saved EXCEPT ![d] = place[d]]
    BY <1>1, <1>5
  <2> QED
    BY <2>1 DEF History!Save
<1>6. CASE disk'[d] = disk[d] /\ cache'[d] = disk[d]
  <2>1. saved' = saved /\ place' = [place EXCEPT ![d] = saved[d]]
    BY <1>1, <1>6
  <2> QED
    BY <2>1 DEF History!Restart
<1> QED
  BY <1>3, <1>4, <1>5, <1>6 DEF DeviceMoves

\* The clients and the Delivery Service together implement GroupHistory.
THEOREM Refinement == Spec => ImplementsHistory
<1>1. Init => History!Init
  BY DEF Init, ServerInit, History!Init, Place
<1>2. ASSUME TypeOK, Shape, IndInv, TypeOK', IndInv', [Next]_vars
      PROVE  [History!Next]_(History!vars)
  <2>1. StepOutcome
    BY <1>2, IndStep
  <2>2. CASE ServerSubmit
    BY <1>2, <2>2, AppendExtends DEF History!Next
  <2>3. CASE UNCHANGED <<log, cache, disk>>
    BY <2>3 DEF History!vars
  <2>4. CASE \E d \in Device : OthersStay(d) /\ DeviceMoves(d) /\ log' = log
    BY <1>2, <2>4, CopyMoves DEF History!Next
  <2> QED
    BY <2>1, <2>2, <2>3, <2>4 DEF StepOutcome
<1>3. (TypeOK /\ Shape) /\ IndInv /\ (TypeOK /\ Shape)' /\ IndInv' /\ [Next]_vars
        => [History!Next]_(History!vars)
  BY <1>2
<1> QED
  BY <1>1, <1>3, TypeCorrect, Invariance, PTL DEF Spec, ImplementsHistory, History!Spec
=============================================================================
