--------------------------- MODULE MlsStoreProofs ---------------------------
(***************************************************************************)
(* Proofs about MlsStore, for every set of accounts and every bound.         *)
(*                                                                           *)
(* Whatever the legacy state and the faults, loads that overtake saves       *)
(* included: the types are right, no directory holds another account's      *)
(* state, and there is one key.                                              *)
(*                                                                           *)
(* Where no load overtakes a save and no migration passes over the legacy    *)
(* state (MigrationFinds): no confirmed state is lost or rolled back, by a   *)
(* migration cut short at any step included; none is reported as fresh,      *)
(* unless a legacy state lost its key; and where no write fails either, no   *)
(* accepted state is lost before a crash. Under the first two assumptions    *)
(* every account's files implement a StateCell.                              *)
(***************************************************************************)
EXTENDS MlsStore, TLAPS

(* What the types alone need to be inductive: a write has a state and an     *)
(* account to write it for, a migration and a load have the account's        *)
(* directory, a call and a page in use have a state, and the caller of a     *)
(* durable save waits for it.                                               *)
JobShape(j) ==
    /\ j.at \in WriteStage => j.to \in Account /\ j.st # Nothing
    /\ j.at \in {"marker", "move", "read"} => j.dir \in Account
    /\ (j.at \in WriteStage /\ j.op = "load") => j.dir \in Account
PageShape(p) ==
    /\ p.at \in {"creating", "ready"} => p.mem # Nothing
    /\ p.at \in {"fresh", "loading"} => p.acct \in Account
CallsShape(r) == \A s \in Sender : r[s].at # "none" => r[s].st # Nothing
CallerWaits(j, r) == j.op = "save" => j.at \in WriteStage /\ r[j.from].at = "sent"
Shape == JobShape(job) /\ PageShape(js) /\ CallsShape(req) /\ CallerWaits(job, req)

-----------------------------------------------------------------------------
(* The values the actions build stay in their sets.                         *)

\* The absent values are none of the values they stand beside.
LEMMA Apart ==
  /\ Nothing \notin State /\ Nothing \notin Blob /\ Nothing \notin Deferred
  /\ Unreadable \notin Blob /\ Unreadable \notin State /\ Nothing # Unreadable
  /\ Nobody \notin Account /\ Root \notin Account
BY NothingAssumption, AccountAssumption

\* The names of the steps.
LEMMA StageNames ==
  /\ \A at \in WriteStage : at \in JobStage
  /\ {"key", "create", "sync", "copy", "copied", "rename"} \subseteq WriteStage
  /\ {"idle", "done", "migrate", "marker", "move", "account", "read"} \subseteq JobStage
  /\ \A at \in WriteStage :
        at \notin {"idle", "done", "migrate", "marker", "move", "account", "read"}
  /\ {"none", "save", "load", "owner", "flush", "handoff", "exit"} \subseteq JobOp
  /\ {"out", "loading", "fresh", "creating", "ready"} \subseteq PageStage
  /\ {"none", "sent", "deferred"} \subseteq CallStage
BY DEF WriteStage, JobStage, JobOp, PageStage, CallStage

\* What a job becomes: idle, at another step, or with a state to write.
LEMMA JobForms ==
  /\ NoJob \in Job
  /\ \A op \in JobOp, at \in JobStage : [NoJob EXCEPT !.op = op, !.at = at] \in Job
  /\ \A op \in JobOp, at \in JobStage, to \in Dir, st \in State, from \in Sender :
       [NoJob EXCEPT !.op = op, !.at = at, !.to = to, !.st = st, !.from = from] \in Job
  /\ \A j \in Job, at \in JobStage : [j EXCEPT !.at = at] \in Job
  /\ \A j \in Job, at \in JobStage, dir \in Dir : [j EXCEPT !.at = at, !.dir = dir] \in Job
  /\ \A j \in Job, at \in JobStage, to \in Dir, st \in State :
       [j EXCEPT !.at = at, !.to = to, !.st = st] \in Job
<1>1. NoJob \in Job
  BY StageNames DEF NoJob, Job, Dir, Sender
<1> QED
  BY <1>1 DEF Job

\* The same for the page ...
LEMMA PageForms ==
  /\ NoPage \in Page
  /\ \A acct \in Account \cup {Nobody} : [NoPage EXCEPT !.acct = acct] \in Page
  /\ \A p \in Page, at \in PageStage : [p EXCEPT !.at = at] \in Page
  /\ \A p \in Page, mem \in State \cup {Nothing} : [p EXCEPT !.mem = mem] \in Page
  /\ \A p \in Page, at \in PageStage, mem \in State \cup {Nothing} :
       [p EXCEPT !.at = at, !.mem = mem] \in Page
<1>1. NoPage \in Page
  BY StageNames DEF NoPage, Page
<1> QED
  BY <1>1 DEF Page

\* ... and for its calls.
LEMMA CallForms ==
  ASSUME NEW r \in [Sender -> Call], NEW s \in Sender
  PROVE  /\ NoReq \in Call
         /\ [r EXCEPT ![s] = NoReq] \in [Sender -> Call]
         /\ \A at \in CallStage : [r EXCEPT ![s].at = at] \in [Sender -> Call]
         /\ [r EXCEPT ![s].live = FALSE] \in [Sender -> Call]
         /\ \A st \in State, durable \in BOOLEAN :
              [r EXCEPT ![s] = [at |-> "sent", st |-> st, durable |-> durable, live |-> TRUE]]
                \in [Sender -> Call]
         /\ [t \in Sender |-> NoReq] \in [Sender -> Call]
         /\ [page |-> NoReq, gone |-> [r["page"] EXCEPT !.live = FALSE]] \in [Sender -> Call]
<1>1. NoReq \in Call
  BY StageNames DEF NoReq, Call
<1>2. /\ \A at \in CallStage : [r[s] EXCEPT !.at = at] \in Call
      /\ [r[s] EXCEPT !.live = FALSE] \in Call
      /\ \A st \in State, durable \in BOOLEAN :
           [at |-> "sent", st |-> st, durable |-> durable, live |-> TRUE] \in Call
  BY StageNames DEF Call
<1>3. "page" \in Sender /\ "gone" \in Sender /\ Sender = {"page", "gone"}
  BY DEF Sender
<1>4. [r["page"] EXCEPT !.live = FALSE] \in Call
  BY <1>3 DEF Call
<1>5. \A f, g \in Call : [page |-> f, gone |-> g] \in [Sender -> Call]
  BY <1>3
<1> QED
  BY <1>1, <1>2, <1>4, <1>5

\* One file of a directory is replaced.
LEMMA FileForms ==
  ASSUME NEW fs \in [Dir -> [FileName -> File]], NEW d \in Dir, NEW n \in FileName,
         NEW f \in File, NEW m \in FileName, NEW g \in File
  PROVE  /\ fs[d] \in [FileName -> File] /\ fs[d][n] \in File
         /\ Nothing \in File /\ Unreadable \in File
         /\ [fs EXCEPT ![d][n] = f] \in [Dir -> [FileName -> File]]
         /\ [fs EXCEPT ![d] = [@ EXCEPT ![n] = f, ![m] = g]] \in [Dir -> [FileName -> File]]
<1>1. /\ fs[d] \in [FileName -> File] /\ fs[d][n] \in File
      /\ Nothing \in File /\ Unreadable \in File
  BY DEF File
<1>2. [fs[d] EXCEPT ![n] = f] \in [FileName -> File]
  BY <1>1
<1>3. [fs[d] EXCEPT ![n] = f, ![m] = g] \in [FileName -> File]
  BY <1>1
<1> QED
  BY <1>1, <1>2, <1>3

\* The file a load prefers is one of the three; what it returns is a state, or
\* that there is none, or an error.
LEMMA LoadStateType ==
  ASSUME NEW fs \in [FileName -> File], NEW k
  PROVE  LoadState(fs, k) \in State \cup {Nothing, Unreadable}
<1>1. BestFile(fs, k) \in FileName
  BY DEF BestFile, FileName
<1>2. fs[BestFile(fs, k)] \in File
  BY <1>1
<1>3. Opens(k, fs[BestFile(fs, k)]) => StateIn(fs[BestFile(fs, k)]) \in State
  BY <1>2 DEF Opens, StateIn, File, Blob, State
<1> QED
  BY <1>3 DEF LoadState

\* The names of the files and the senders.
LEMMA Names ==
  /\ "tmp" \in FileName /\ "bak" \in FileName /\ "main" \in FileName
  /\ "page" \in Sender /\ "gone" \in Sender
  /\ Root \in Dir /\ Account \subseteq Dir
BY DEF FileName, Sender, Dir

\* Taking PENDING for a flush, or not.
LEMMA FlushThenType ==
  ASSUME TypeOK, NEW next \in Job, next.op # "save",
         next.at \notin WriteStage \cup {"marker", "move"},
         next.at = "read" \/ next.op = "load" => next.dir \in Account,
         FlushThen(next)
  PROVE  /\ job' \in Job /\ pending' \in Deferred \cup {Nothing}
         /\ JobShape(job') /\ CallerWaits(job', req')
<1>1. CASE pending = Nothing
  BY <1>1, StageNames DEF FlushThen, JobShape, CallerWaits
<1>2. CASE pending # Nothing
  <2>1. pending \in Deferred
    BY <1>2 DEF TypeOK
  <2>2. pending.dir \in Account /\ pending.st \in State /\ pending.dir \in Dir
    BY <2>1, Names DEF Deferred
  <2>3. job' = [next EXCEPT !.at = "key", !.to = pending.dir, !.st = pending.st]
    BY <1>2 DEF FlushThen
  <2>4. job' \in Job
    BY <2>2, <2>3, JobForms, StageNames
  <2>5. /\ job'.op = next.op /\ job'.dir = next.dir /\ job'.at = "key"
        /\ job'.to = pending.dir /\ job'.st = pending.st
    BY <2>3 DEF Job
  <2>6. pending' = Nothing
    BY <1>2 DEF FlushThen
  <2> QED
    BY <2>2, <2>4, <2>5, <2>6, Apart, StageNames DEF JobShape, CallerWaits
<1> QED
  BY <1>1, <1>2

\* The end of a write: the state goes back to PENDING if it failed.
LEMMA WriteEndsType ==
  ASSUME TypeOK, Shape, job.at \in WriteStage, NEW ok \in BOOLEAN, WriteEnds(ok)
  PROVE  /\ job' \in Job /\ pending' \in Deferred \cup {Nothing}
         /\ JobShape(job') /\ CallerWaits(job', req')
<1>1. job \in Job /\ job.to \in Account /\ job.st \in State
  BY DEF TypeOK, Shape, JobShape, Job
<1>2. [dir |-> job.to, st |-> job.st] \in Deferred
  BY <1>1 DEF Deferred
<1>3. pending' \in Deferred \cup {Nothing}
  BY <1>2 DEF WriteEnds, TypeOK
<1>4. CASE job.op = "save"
  <2>1. job' = NoJob
    BY <1>4 DEF WriteEnds
  <2> QED
    BY <1>3, <2>1, JobForms, StageNames DEF NoJob, JobShape, CallerWaits
<1>5. CASE job.op # "save"
  <2>1. PICK at \in {"read", "done"} : /\ job' = [job EXCEPT !.at = at]
                                       /\ at = "read" => job.op = "load"
    BY <1>5 DEF WriteEnds
  <2>2. job' \in Job
    BY <2>1, <1>1, JobForms, StageNames
  <2>3. job'.at = at /\ job'.op = job.op /\ job'.dir = job.dir
    BY <2>1, <1>1 DEF Job
  <2>4. job.op = "load" => job.dir \in Account
    BY DEF Shape, JobShape
  <2> QED
    BY <1>3, <1>5, <2>1, <2>2, <2>3, <2>4, StageNames DEF JobShape, CallerWaits
<1> QED
  BY <1>4, <1>5

\* A call is answered.
LEMMA AnsweredType ==
  ASSUME TypeOK, Shape, NEW s \in Sender
  PROVE  /\ Answered(s) \in [Sender -> Call] /\ CallsShape(Answered(s))
         /\ \A t \in Sender \ {s} : Answered(s)[t] = req[t]
<1>1. req \in [Sender -> Call]
  BY DEF TypeOK
<1>2. Answered(s)[s] = NoReq /\ \A t \in Sender \ {s} : Answered(s)[t] = req[t]
  BY <1>1 DEF Answered
<1> QED
  BY <1>1, <1>2, CallForms DEF Answered, Shape, CallsShape, NoReq

\* A page whose save is refused or confirmed.
LEMMA RefusedType ==
  ASSUME TypeOK, Shape, NEW s \in Sender, NEW error, Refused(s, error)
  PROVE  /\ js' \in Page /\ req' \in [Sender -> Call]
         /\ PageShape(js') /\ CallsShape(req')
<1>1. req' \in [Sender -> Call] /\ CallsShape(req')
  BY AnsweredType DEF Refused
<1>2. js \in Page
  BY DEF TypeOK
<1>3. \/ js' = NoPage \/ js' = js \/ js' = [js EXCEPT !.at = "out", !.mem = Nothing]
  BY DEF Refused
<1>4. js' \in Page
  <2>1. "out" \in PageStage /\ Nothing \in State \cup {Nothing}
    BY StageNames
  <2>2. [js EXCEPT !.at = "out", !.mem = Nothing] \in Page /\ NoPage \in Page
    BY <1>2, <2>1, PageForms
  <2> QED
    BY <1>2, <1>3, <2>2
<1>5. PageShape(NoPage) /\ PageShape([js EXCEPT !.at = "out", !.mem = Nothing])
  BY <1>2 DEF PageShape, NoPage, Page
<1> QED
  BY <1>1, <1>3, <1>4, <1>5 DEF Shape

LEMMA ConfirmType ==
  ASSUME TypeOK, Shape, NEW s \in Sender, req[s].at # "none", Confirm(s)
  PROVE  /\ js' \in Page /\ req' \in [Sender -> Call]
         /\ PageShape(js') /\ CallsShape(req')
         /\ acked' \in [Account -> SUBSET Update] /\ relied' \in [Account -> SUBSET Update]
         /\ accepted' \in [Account -> SUBSET Update]
<1>1. req' \in [Sender -> Call] /\ CallsShape(req')
  BY AnsweredType DEF Confirm
<1>2. js \in Page
  BY DEF TypeOK
<1>5. js' \in Page /\ PageShape(js')
  <2>1. CASE js' = js
    BY <1>2, <2>1 DEF Shape
  <2>2. CASE js' = [js EXCEPT !.at = "ready"] /\ js.at = "creating"
    <3>1. js' \in Page
      BY <1>2, <2>2, PageForms, StageNames
    <3>2. js'.at = "ready" /\ js'.mem = js.mem
      BY <1>2, <2>2 DEF Page
    <3> QED
      BY <3>1, <3>2, <2>2 DEF Shape, PageShape
  <2> QED
    BY <2>1, <2>2 DEF Confirm
<1>6. req[s].st \in State
  BY DEF TypeOK, Shape, CallsShape, Call
<1>7. req[s].st.of \in Account /\ req[s].st.has \in SUBSET Update
  BY <1>6 DEF State
<1>8. \A f \in [Account -> SUBSET Update] :
        [f EXCEPT ![req[s].st.of] = @ \cup req[s].st.has] \in [Account -> SUBSET Update]
  BY <1>7
<1> QED
  BY <1>1, <1>5, <1>8 DEF Confirm, Accept, TypeOK

\* A page that leaves; a call it sent stays out.
LEMMA PageLeavesType ==
  ASSUME TypeOK, Shape, PageLeaves
  PROVE  /\ js' \in Page /\ req' \in [Sender -> Call]
         /\ PageShape(js') /\ CallsShape(req')
<1>1. js' \in Page /\ PageShape(js')
  BY PageForms DEF PageLeaves, PageShape, NoPage
<1>2. CASE req' = req
  BY <1>1, <1>2 DEF TypeOK, Shape
<1>3. CASE /\ req' = [page |-> NoReq, gone |-> [req["page"] EXCEPT !.live = FALSE]]
           /\ req["page"].at # "none"
  <2>1. req' \in [Sender -> Call]
    BY <1>3, CallForms, Names DEF TypeOK
  <2>2. req'["page"] = NoReq
    BY <1>3
  <2>3. req'["gone"].st = req["page"].st
    BY <1>3, Names DEF TypeOK, Call
  <2> QED
    BY <1>1, <1>3, <2>1, <2>2, <2>3, Names DEF Shape, CallsShape, NoReq, Sender
<1> QED
  BY <1>2, <1>3 DEF PageLeaves

\* What a load tells the page.
LEMMA LoadAnsweredType ==
  ASSUME TypeOK, Shape, NEW at \in {"out", "fresh", "ready"}, NEW mem \in State \cup {Nothing},
         at = "ready" => mem # Nothing, LoadAnswered(at, mem)
  PROVE  js' \in Page /\ PageShape(js')
<1>1. js \in Page
  BY DEF TypeOK
<1>2. CASE js' = js
  BY <1>1, <1>2 DEF Shape
<1>3. CASE js' = [js EXCEPT !.at = at, !.mem = mem] /\ js.at = "loading"
  <2>1. js' \in Page
    BY <1>1, <1>3, PageForms, StageNames
  <2>2. js'.at = at /\ js'.mem = mem /\ js'.acct = js.acct
    BY <1>1, <1>3 DEF Page
  <2> QED
    BY <1>3, <2>1, <2>2 DEF Shape, PageShape
<1> QED
  BY <1>2, <1>3 DEF LoadAnswered

-----------------------------------------------------------------------------
(* One lemma per action: mlsSession.js and its saves.                       *)

LEMMA SignInType ==
  ASSUME TypeOK, Shape, NEW a \in Account \cup {Nobody}, SignIn(a)
  PROVE  TypeOK' /\ Shape'
<1>1. session' \in Account \cup {Nobody}
  BY DEF SignIn
<1> QED
  BY <1>1 DEF TypeOK, Shape, SignIn, diskVars, procVars, pageVars, ghostVars

LEMMA BindAccountType ==
  ASSUME TypeOK, Shape, BindAccount
  PROVE  TypeOK' /\ Shape'
<1>1. js' \in Page
  BY PageForms DEF BindAccount, TypeOK
<1>2. req' \in [Sender -> Call]
  BY CallForms, Names DEF BindAccount, TypeOK
<1>3. PageShape(js')
  BY DEF BindAccount, PageShape, NoPage
<1>4. \A s \in Sender : req'[s].at = req[s].at /\ req'[s].st = req[s].st
  BY Names DEF BindAccount, TypeOK, Call
<1>5. CallsShape(req') /\ CallerWaits(job', req')
  BY <1>4 DEF BindAccount, Shape, CallsShape, CallerWaits, TypeOK, Job
<1> QED
  BY <1>1, <1>2, <1>3, <1>4, <1>5 DEF TypeOK, Shape, BindAccount, diskVars, procVars, pageVars, ghostVars

\* A save is sent by a page whose previous one was answered.
LEMMA SendType ==
  ASSUME TypeOK, Shape, NEW st \in State, NEW durable \in BOOLEAN, Send(st, durable)
  PROVE  req' \in [Sender -> Call] /\ CallsShape(req') /\ CallerWaits(job, req')
<1>1. req' \in [Sender -> Call]
  BY CallForms, Names DEF Send, TypeOK
<1>2. req'["page"].st = st /\ req'["gone"] = req["gone"]
  BY Names DEF Send, TypeOK
<1>3. CallsShape(req')
  BY <1>2, Apart DEF Shape, CallsShape, Sender
<1>4. job.op = "save" => job.from = "gone"
  BY DEF Send, Shape, CallerWaits, TypeOK, Job, Sender
<1> QED
  BY <1>1, <1>2, <1>3, <1>4 DEF Shape, CallerWaits

LEMMA CreateIdentityType ==
  ASSUME TypeOK, Shape, CreateIdentity
  PROVE  TypeOK' /\ Shape'
<1> DEFINE st == [of |-> js.acct, has |-> {made + 1}]
<1>1. made + 1 \in Update
  BY BoundAssumption DEF CreateIdentity, TypeOK, Update
<1>2. st \in State
  BY <1>1 DEF CreateIdentity, Shape, PageShape, TypeOK, Page, State
<1>3. Send(st, TRUE) /\ js' = [js EXCEPT !.at = "creating", !.mem = st]
  BY DEF CreateIdentity
<1>4. req' \in [Sender -> Call] /\ CallsShape(req') /\ CallerWaits(job, req')
  BY <1>2, <1>3, SendType
<1>5. js' \in Page
  BY <1>2, <1>3, PageForms, StageNames DEF TypeOK
<1>6. PageShape(js')
  BY <1>2, <1>3, Apart DEF PageShape, TypeOK, Page
<1> HIDE DEF st
<1> QED
  BY <1>1, <1>2, <1>3, <1>4, <1>5, <1>6 DEF TypeOK, Shape, CreateIdentity, diskVars, procVars, pageVars, ghostVars

LEMMA ChangeStateType ==
  ASSUME TypeOK, Shape, NEW durable \in BOOLEAN, ChangeState(durable)
  PROVE  TypeOK' /\ Shape'
<1> DEFINE st == [of |-> js.mem.of, has |-> js.mem.has \cup {made + 1}]
<1>1. made + 1 \in Update
  BY BoundAssumption DEF ChangeState, TypeOK, Update
<1>2. js \in Page /\ js.mem \in State /\ js.at = "ready"
  BY DEF ChangeState, Shape, PageShape, TypeOK, Page
<1>3. st \in State
  BY <1>1, <1>2 DEF State
<1>4. Send(st, durable) /\ js' = [js EXCEPT !.mem = st]
  BY DEF ChangeState
<1>5. req' \in [Sender -> Call] /\ CallsShape(req') /\ CallerWaits(job, req')
  BY <1>3, <1>4, SendType
<1>6. js' \in Page
  BY <1>2, <1>3, <1>4, PageForms
<1>7. PageShape(js')
  BY <1>2, <1>3, <1>4, Apart DEF PageShape, Page
<1> HIDE DEF st
<1> QED
  BY <1>1, <1>2, <1>3, <1>4, <1>5, <1>6, <1>7 DEF TypeOK, Shape, ChangeState, diskVars, procVars, pageVars, ghostVars

LEMMA SaveAgainType ==
  ASSUME TypeOK, Shape, SaveAgain
  PROVE  TypeOK' /\ Shape'
<1>1. js.mem \in State
  BY DEF SaveAgain, Shape, PageShape, TypeOK, Page
<1>2. req' \in [Sender -> Call] /\ CallsShape(req') /\ CallerWaits(job, req')
  BY <1>1, SendType DEF SaveAgain
<1> QED
  BY <1>1, <1>2 DEF TypeOK, Shape, SaveAgain, diskVars, procVars, pageVars, ghostVars

LEMMA ReloadType ==
  ASSUME TypeOK, Shape, Reload
  PROVE  TypeOK' /\ Shape'
<1>1. js' \in Page /\ req' \in [Sender -> Call] /\ PageShape(js') /\ CallsShape(req')
  BY PageLeavesType DEF Reload
<1>2. faults' \in Nat
  BY DEF Reload, Fault, TypeOK
<1>3. CallerWaits(job', req')
  BY DEF Reload, CallerWaits, NoJob
<1> QED
  BY <1>1, <1>2, <1>3 DEF TypeOK, Shape, Reload, diskVars, procVars, pageVars, ghostVars

LEMMA RefuseSaveType ==
  ASSUME TypeOK, Shape, NEW s \in Sender, RefuseSave(s)
  PROVE  TypeOK' /\ Shape'
<1>1. js' \in Page /\ req' \in [Sender -> Call] /\ PageShape(js') /\ CallsShape(req')
  BY RefusedType DEF RefuseSave
<1>2. CallerWaits(job', req')
  BY DEF RefuseSave, CallerWaits, NoJob
<1> QED
  BY <1>1, <1>2 DEF TypeOK, Shape, RefuseSave, diskVars, procVars, pageVars, ghostVars

LEMMA DeferSaveType ==
  ASSUME TypeOK, Shape, NEW s \in Sender, DeferSave(s)
  PROVE  TypeOK' /\ Shape'
<1>1. req[s] \in Call /\ req[s].st \in State
  BY DEF DeferSave, TypeOK, Shape, CallsShape, Call
<1>2. req[s].st.of \in Account /\ req[s].st.has \in SUBSET Update
  BY <1>1 DEF State
<1>3. pending' \in Deferred
  BY <1>1, <1>2 DEF DeferSave, MayWrite, Deferred
<1>4. accepted' \in [Account -> SUBSET Update]
  BY <1>2 DEF DeferSave, Accept, TypeOK
<1>5. req' \in [Sender -> Call]
  BY CallForms, StageNames DEF DeferSave, TypeOK
<1>6. \A t \in Sender : req'[t].st = req[t].st /\ (t # s => req'[t] = req[t])
  BY DEF DeferSave, TypeOK, Call
<1>7. CallsShape(req')
  BY <1>1, <1>6, Apart DEF Shape, CallsShape
<1>8. CallerWaits(job', req')
  BY DEF DeferSave, CallerWaits, NoJob
<1> QED
  BY <1>1, <1>2, <1>3, <1>4, <1>5, <1>6, <1>7, <1>8 DEF TypeOK, Shape, DeferSave, diskVars, procVars, pageVars, ghostVars

LEMMA ScheduleFlushType ==
  ASSUME TypeOK, Shape, NEW s \in Sender, ScheduleFlush(s)
  PROVE  TypeOK' /\ Shape'
<1>1. req' \in [Sender -> Call] /\ CallsShape(req')
  BY AnsweredType DEF ScheduleFlush
<1>2. job.op = "save" => job.from \in Sender \ {s}
  BY DEF ScheduleFlush, Shape, CallerWaits, TypeOK, Job
<1>3. CallerWaits(job', req')
  BY <1>2, AnsweredType DEF ScheduleFlush, Shape, CallerWaits
<1>4. flushDue' \in BOOLEAN /\ timer' \in BOOLEAN
  BY DEF ScheduleFlush, TypeOK
<1> QED
  BY <1>1, <1>2, <1>3, <1>4 DEF TypeOK, Shape, ScheduleFlush, diskVars, procVars, pageVars, ghostVars

LEMMA StartSaveType ==
  ASSUME TypeOK, Shape, NEW s \in Sender, StartSave(s)
  PROVE  TypeOK' /\ Shape'
<1>1. req[s].st \in State /\ jsOwner \in Account
  BY DEF StartSave, MayWrite, TypeOK, Shape, CallsShape, Call
<1>2. job' \in Job
  BY <1>1, JobForms, StageNames, Names DEF StartSave
<1>3. /\ job'.op = "save" /\ job'.at = "key" /\ job'.to = jsOwner
      /\ job'.st = req[s].st /\ job'.from = s
  BY DEF StartSave, NoJob
<1>4. JobShape(job') /\ CallerWaits(job', req')
  BY <1>1, <1>3, Apart, StageNames DEF StartSave, JobShape, CallerWaits, pageVars
<1> QED
  BY <1>1, <1>2, <1>3, <1>4 DEF TypeOK, Shape, StartSave, diskVars, procVars, pageVars, ghostVars

-----------------------------------------------------------------------------
(* Work that begins with a flush, exits and crashes.                        *)

LEMMA TimerFiresType ==
  ASSUME TypeOK, Shape, TimerFires
  PROVE  TypeOK' /\ Shape'
<1> DEFINE next == [NoJob EXCEPT !.op = "flush", !.at = "done"]
<1>1. next \in Job /\ next.op = "flush" /\ next.at = "done"
  BY JobForms, StageNames DEF NoJob
<1>2. FlushThen(next)
  BY DEF TimerFires
<1> HIDE DEF next
<1>3. /\ job' \in Job /\ pending' \in Deferred \cup {Nothing}
      /\ JobShape(job') /\ CallerWaits(job', req')
  BY <1>1, <1>2, FlushThenType, StageNames
<1> QED
  BY <1>1, <1>2, <1>3 DEF TypeOK, Shape, TimerFires, diskVars, procVars, pageVars, ghostVars

LEMMA StartHandOffType ==
  ASSUME TypeOK, Shape, StartHandOff
  PROVE  TypeOK' /\ Shape'
<1> DEFINE next == [NoJob EXCEPT !.op = "handoff", !.at = "done"]
<1>1. next \in Job /\ next.op = "handoff" /\ next.at = "done"
  BY JobForms, StageNames DEF NoJob
<1>2. FlushThen(next)
  BY DEF StartHandOff
<1> HIDE DEF next
<1>3. /\ job' \in Job /\ pending' \in Deferred \cup {Nothing}
      /\ JobShape(job') /\ CallerWaits(job', req')
  BY <1>1, <1>2, FlushThenType, StageNames
<1> QED
  BY <1>1, <1>2, <1>3 DEF TypeOK, Shape, StartHandOff, diskVars, procVars, pageVars, ghostVars

LEMMA StartExitType ==
  ASSUME TypeOK, Shape, StartExit
  PROVE  TypeOK' /\ Shape'
<1> DEFINE next == [NoJob EXCEPT !.op = "exit", !.at = "done"]
<1>1. next \in Job /\ next.op = "exit" /\ next.at = "done"
  BY JobForms, StageNames DEF NoJob
<1>2. FlushThen(next)
  BY DEF StartExit
<1> HIDE DEF next
<1>3. /\ job' \in Job /\ pending' \in Deferred \cup {Nothing}
      /\ JobShape(job') /\ CallerWaits(job', req')
  BY <1>1, <1>2, FlushThenType, StageNames
<1> QED
  BY <1>1, <1>2, <1>3 DEF TypeOK, Shape, StartExit, diskVars, procVars, pageVars, ghostVars

\* A new process.
LEMMA RestartedType ==
  ASSUME TypeOK, Shape, Restarted
  PROVE  /\ job' \in Job /\ js' \in Page /\ req' \in [Sender -> Call]
         /\ JobShape(job') /\ PageShape(js') /\ CallsShape(req') /\ CallerWaits(job', req')
<1>1. job' = NoJob /\ js' = NoPage /\ req' = [s \in Sender |-> NoReq]
  BY DEF Restarted
<1>2. job' \in Job /\ js' \in Page /\ req' \in [Sender -> Call]
  BY <1>1, JobForms, PageForms, CallForms, Names DEF TypeOK
<1>3. CallsShape(req')
  BY <1>1 DEF CallsShape, NoReq
<1> QED
  BY <1>1, <1>2, <1>3, StageNames DEF JobShape, PageShape, CallerWaits, NoJob, NoPage

LEMMA FinishType ==
  ASSUME TypeOK, Shape, Finish
  PROVE  TypeOK' /\ Shape'
<1>1. CASE job.op = "exit"
  <2>1. Restarted
    BY <1>1 DEF Finish
  <2> QED
    BY <2>1, RestartedType DEF Finish, Restarted, TypeOK, Shape, diskVars, ghostVars
<1>2. CASE job.op = "handoff"
  <2>1. PageLeaves /\ job' = NoJob
    BY <1>2 DEF Finish
  <2>2. job' \in Job /\ JobShape(job') /\ CallerWaits(job', req')
    BY <2>1, JobForms, StageNames DEF NoJob, JobShape, CallerWaits
  <2>3. js' \in Page /\ req' \in [Sender -> Call] /\ PageShape(js') /\ CallsShape(req')
    BY <2>1, PageLeavesType
  <2> QED
    BY <1>2, <2>2, <2>3 DEF Finish, TypeOK, Shape, diskVars, ghostVars
<1>3. CASE job.op \notin {"exit", "handoff"}
  <2>1. job' = NoJob
    BY <1>3 DEF Finish
  <2>2. job' \in Job /\ JobShape(job') /\ CallerWaits(job', req')
    BY <2>1, JobForms, StageNames DEF NoJob, JobShape, CallerWaits
  <2> QED
    BY <1>3, <2>2 DEF Finish, TypeOK, Shape, diskVars, procVars, pageVars, ghostVars
<1> QED
  BY <1>1, <1>2, <1>3 DEF TypeOK, Shape, Finish, diskVars, procVars, pageVars, ghostVars

LEMMA CrashType ==
  ASSUME TypeOK, Shape, Crash
  PROVE  TypeOK' /\ Shape'
<1>4. /\ session' = session /\ made' = made /\ files' = files /\ entry' = entry
      /\ keys' = keys /\ marker' = marker
      /\ acked' = acked /\ relied' = relied /\ accepted' = acked
  BY DEF Crash, Restarted, diskVars
<1>5. /\ cached' \in Nat /\ pending' = Nothing /\ flushDue' = FALSE /\ timer' = FALSE
      /\ jsOwner' = Nobody /\ migrated' = FALSE /\ blocked' = Nobody
  BY DEF Crash, Restarted
<1>1. Restarted
  BY DEF Crash
<1>2. /\ job' \in Job /\ js' \in Page /\ req' \in [Sender -> Call]
      /\ JobShape(job') /\ PageShape(js') /\ CallsShape(req') /\ CallerWaits(job', req')
  BY <1>1, RestartedType
<1>3. faults' \in Nat
  BY DEF Crash, Fault, TypeOK
<1> QED
  BY <1>4, <1>5, <1>1, <1>2, <1>3 DEF TypeOK, Shape, Crash

-----------------------------------------------------------------------------
(* The steps of a write.                                                    *)

\* A step of a write, or of a migration, that only moves the job on.
LEMMA JobMoves ==
  ASSUME TypeOK, Shape, NEW at \in JobStage, job' = [job EXCEPT !.at = at], req' = req,
         at \in WriteStage => job.at \in WriteStage,
         at \in {"marker", "move", "read"} => job.at \in {"marker", "move", "read"},
         at \notin WriteStage => job.op # "save"
  PROVE  job' \in Job /\ JobShape(job') /\ CallerWaits(job', req')
<1>1. job \in Job
  BY DEF TypeOK
<1>2. job' \in Job
  BY <1>1, JobForms
<1>3. /\ job'.at = at /\ job'.op = job.op /\ job'.dir = job.dir /\ job'.to = job.to
      /\ job'.st = job.st /\ job'.from = job.from
  BY <1>1 DEF Job
<1> QED
  BY <1>2, <1>3 DEF Shape, JobShape, CallerWaits

LEMMA ObtainKeyType ==
  ASSUME TypeOK, Shape, ObtainKey
  PROVE  TypeOK' /\ Shape'
<1>1. job' = [job EXCEPT !.at = "create"] /\ req' = req /\ js' = js /\ pending' = pending
  BY DEF ObtainKey
<1>2. job' \in Job /\ JobShape(job') /\ CallerWaits(job', req')
  BY <1>1, JobMoves, StageNames DEF ObtainKey
<1>3. cached' \in Nat /\ entry' \in Nat /\ keys' \in Nat
  BY DEF ObtainKey, KeyAtHand, TypeOK
<1> QED
  BY <1>1, <1>2, <1>3 DEF TypeOK, Shape, ObtainKey, ghostVars, NoFault

\* A write that fails: its state returns to PENDING, its caller is refused.
LEMMA WriteFailedType ==
  ASSUME TypeOK, Shape, job.at \in WriteStage, WriteFailed,
         cached' = cached, UNCHANGED diskVars, faults' \in Nat
  PROVE  TypeOK' /\ Shape'
<1>1. /\ job' \in Job /\ pending' \in Deferred \cup {Nothing}
      /\ JobShape(job') /\ CallerWaits(job', req')
  <2>1. WriteEnds(FALSE)
    BY DEF WriteFailed
  <2> QED
    BY <2>1, WriteEndsType
<1>2. js' \in Page /\ req' \in [Sender -> Call] /\ PageShape(js') /\ CallsShape(req')
  <2>1. CASE job.op = "save"
    <3>1. Refused(job.from, "io") /\ job.from \in Sender
      BY <2>1 DEF WriteFailed, TypeOK, Job
    <3> QED
      BY <3>1, RefusedType
  <2>2. CASE job.op # "save"
    BY <2>2 DEF WriteFailed, TypeOK, Shape
  <2> QED
    BY <2>1, <2>2
<1>3. accepted' \in [Account -> SUBSET Update]
  BY DEF WriteFailed, TypeOK
<1> QED
  BY <1>1, <1>2, <1>3 DEF TypeOK, Shape, WriteFailed, diskVars

LEMMA KeyRefusedType ==
  ASSUME TypeOK, Shape, KeyRefused
  PROVE  TypeOK' /\ Shape'
<1>1. job.at \in WriteStage
  BY StageNames DEF KeyRefused
<1>2. faults' \in Nat
  BY DEF KeyRefused, Fault, NoFault, TypeOK
<1> QED
  BY <1>1, <1>2, WriteFailedType DEF KeyRefused

LEMMA WriteErrorType ==
  ASSUME TypeOK, Shape, WriteError
  PROVE  TypeOK' /\ Shape'
<1>1. job.at \in WriteStage
  BY StageNames DEF WriteError
<1>2. faults' \in Nat
  BY DEF WriteError, Fault, NoFault, TypeOK
<1> QED
  BY <1>1, <1>2, WriteFailedType DEF WriteError

\* The steps that fill the tmp file and the backup.
LEMMA FileStepType ==
  ASSUME TypeOK, Shape, NEW from \in WriteStage, NEW to \in WriteStage,
         NEW name \in FileName, NEW content \in File,
         WriteStep(from, to), SetFile(name, content)
  PROVE  TypeOK' /\ Shape'
<1>1. job' \in Job /\ JobShape(job') /\ CallerWaits(job', req')
  BY JobMoves, StageNames DEF WriteStep, pageVars
<1>2. job.to \in Dir
  BY DEF TypeOK, Job
<1>3. files' \in [Dir -> [FileName -> File]]
  BY <1>2, FileForms DEF SetFile, TypeOK
<1> QED
  BY <1>1, <1>3 DEF TypeOK, Shape, WriteStep, procVars, pageVars, ghostVars

\* What a write puts into the tmp file is a blob.
LEMMA NewBlobType ==
  ASSUME TypeOK, Shape, job.at \in WriteStage
  PROVE  NewBlob \in Blob /\ NewBlob \in File /\ job.st \in State /\ job.to \in Account
<1>1. job.st \in State /\ job.to \in Account
  BY DEF TypeOK, Shape, JobShape, Job
<1> QED
  BY <1>1 DEF NewBlob, Blob, State, TypeOK, File

LEMMA FileStepsType ==
  ASSUME TypeOK, Shape, CreateTmp \/ SyncTmp \/ CopyToBak \/ SyncBak
  PROVE  TypeOK' /\ Shape'
<1>1. Unreadable \in File
  BY DEF File
<1>2. CASE CreateTmp
  BY <1>1, <1>2, FileStepType, StageNames, Names DEF CreateTmp
<1>3. CASE SyncTmp
  <2>1. job.at \in WriteStage
    BY <1>3, StageNames DEF SyncTmp, WriteStep
  <2>2. PICK to \in {"rename", "copy"} : WriteStep("sync", to) /\ SetFile("tmp", NewBlob)
    BY <1>3 DEF SyncTmp
  <2> QED
    BY <2>1, <2>2, NewBlobType, FileStepType, StageNames, Names
<1>4. CASE CopyToBak
  BY <1>1, <1>4, FileStepType, StageNames, Names DEF CopyToBak
<1>5. CASE SyncBak
  <2>1. files[job.to]["main"] \in File
    BY Names DEF TypeOK, Job
  <2> QED
    BY <1>5, <2>1, FileStepType, StageNames, Names DEF SyncBak
<1> QED
  BY <1>2, <1>3, <1>4, <1>5

LEMMA RenameTmpType ==
  ASSUME TypeOK, Shape, RenameTmp
  PROVE  TypeOK' /\ Shape'
<1>1. job.at \in WriteStage
  BY StageNames DEF RenameTmp
<1>2. job.to \in Dir
  BY DEF TypeOK, Job
<1>3. files' \in [Dir -> [FileName -> File]]
  <2>1. files[job.to]["tmp"] \in File /\ Nothing \in File
    BY <1>2, Names DEF TypeOK, File
  <2>2. files' = [files EXCEPT ![job.to] =
                   [@ EXCEPT !["main"] = files[job.to]["tmp"], !["tmp"] = Nothing]]
    BY DEF RenameTmp
  <2>3. files[job.to] \in [FileName -> File] /\ files \in [Dir -> [FileName -> File]]
    BY <1>2 DEF TypeOK
  <2>4. [files[job.to] EXCEPT !["main"] = files[job.to]["tmp"], !["tmp"] = Nothing]
          \in [FileName -> File]
    BY <2>1, <2>3, Names
  <2> QED
    BY <1>2, <2>2, <2>3, <2>4
<1>4. /\ job' \in Job /\ pending' \in Deferred \cup {Nothing}
      /\ JobShape(job') /\ CallerWaits(job', req')
  BY <1>1, WriteEndsType DEF RenameTmp
<1>5. /\ js' \in Page /\ req' \in [Sender -> Call]
      /\ PageShape(js') /\ CallsShape(req')
      /\ acked' \in [Account -> SUBSET Update] /\ relied' \in [Account -> SUBSET Update]
      /\ accepted' \in [Account -> SUBSET Update]
  <2>1. CASE job.op = "save"
    <3>1. job.from \in Sender /\ req[job.from].at # "none" /\ Confirm(job.from)
      BY <2>1 DEF RenameTmp, Shape, CallerWaits, TypeOK, Job
    <3> QED
      BY <3>1, ConfirmType
  <2>2. CASE job.op # "save"
    BY <2>2 DEF RenameTmp, TypeOK, Shape, ghostVars
  <2> QED
    BY <2>1, <2>2
<1> QED
  BY <1>1, <1>2, <1>3, <1>4, <1>5 DEF TypeOK, Shape, RenameTmp, diskVars, procVars, pageVars, ghostVars

-----------------------------------------------------------------------------
(* Loads and the migration.                                                 *)

LEMMA StartLoadType ==
  ASSUME TypeOK, Shape, StartLoad
  PROVE  TypeOK' /\ Shape'
<1>1. js.acct \in Account /\ js \in Page
  BY DEF StartLoad, TypeOK, Page
<1>2. js' \in Page
  BY <1>1, PageForms, StageNames DEF StartLoad
<1>3. PageShape(js')
  BY <1>1 DEF StartLoad, PageShape, Page
<1>4. PICK at \in {"account", "migrate"} : job' = [NoJob EXCEPT !.op = "load", !.at = at]
  BY DEF StartLoad
<1>5. job' \in Job
  BY <1>4, JobForms, StageNames
<1>6. job'.op = "load" /\ job'.at = at
  BY <1>4 DEF NoJob
<1>7. JobShape(job') /\ CallerWaits(job', req')
  BY <1>4, <1>6, StageNames DEF JobShape, CallerWaits
<1>8. faults' \in Nat
  BY DEF StartLoad, Fault, NoFault, TypeOK
<1> QED
  BY <1>1, <1>2, <1>3, <1>4, <1>5, <1>6, <1>7, <1>8 DEF TypeOK, Shape, StartLoad, diskVars, procVars, pageVars, ghostVars

LEMMA StartMigrationType ==
  ASSUME TypeOK, Shape, StartMigration
  PROVE  TypeOK' /\ Shape'
<1>1. job' \in Job
  BY JobForms, StageNames DEF StartMigration
<1>2. JobShape(job') /\ CallerWaits(job', req')
  BY StageNames DEF StartMigration, NoJob, JobShape, CallerWaits
<1> QED
  BY <1>1, <1>2 DEF TypeOK, Shape, StartMigration, diskVars, procVars, pageVars, ghostVars

\* The steps of a migration: on to the next one, or to what comes after it.
LEMMA MigrationMoves ==
  ASSUME TypeOK, Shape, job.at \in {"migrate", "marker", "move"}, req' = req,
         job' = [job EXCEPT !.at = AfterMigration]
  PROVE  job' \in Job /\ JobShape(job') /\ CallerWaits(job', req')
<1>1. AfterMigration \in {"account", "done"}
  BY DEF AfterMigration
<1>2. job.op # "save"
  BY StageNames DEF Shape, CallerWaits
<1> QED
  BY <1>1, <1>2, JobMoves, StageNames

LEMMA MigrateType ==
  ASSUME TypeOK, Shape, Migrate
  PROVE  TypeOK' /\ Shape'
<1> DEFINE legacy == LoadState(files[Root], KeyAtHand)
<1>1. cached' \in Nat /\ faults' \in Nat
  BY DEF Migrate, Fault, NoFault, KeyAtHand, TypeOK
<1>2. job' \in Job /\ JobShape(job') /\ CallerWaits(job', req')
  <2>1. CASE job' = [job EXCEPT !.at = AfterMigration]
    BY <2>1, MigrationMoves DEF Migrate, pageVars
  <2>2. CASE /\ job' = [job EXCEPT !.at = "marker", !.dir = legacy.of]
             /\ legacy \notin {Nothing, Unreadable}
    <3>1. files[Root] \in [FileName -> File]
      BY Names DEF TypeOK
    <3>2. legacy \in State
      BY <2>2, <3>1, LoadStateType
    <3>3. legacy.of \in Account
      BY <3>2 DEF State
    <3> HIDE DEF legacy
    <3>4. job' \in Job
      BY <2>2, <3>3, JobForms, StageNames, Names DEF TypeOK
    <3>5. job'.at = "marker" /\ job'.dir = legacy.of /\ job'.op = job.op
      BY <2>2 DEF TypeOK, Job
    <3>6. job.op # "save"
      BY StageNames DEF Migrate, Shape, CallerWaits
    <3> QED
      BY <3>3, <3>4, <3>5, <3>6, StageNames DEF JobShape, CallerWaits
  <2> QED
    BY <2>1, <2>2 DEF Migrate
<1>3. migrated' \in BOOLEAN
  BY DEF Migrate
<1> QED
  BY <1>1, <1>2, <1>3 DEF TypeOK, Shape, Migrate, diskVars, procVars, pageVars, ghostVars

LEMMA WriteMarkerType ==
  ASSUME TypeOK, Shape, WriteMarker
  PROVE  TypeOK' /\ Shape'
<1>1. job.dir \in Account /\ job.op # "save"
  BY StageNames DEF WriteMarker, Shape, JobShape, CallerWaits
<1>2. marker' \in Account \cup {Nobody} /\ faults' \in Nat
  BY <1>1 DEF WriteMarker, Fault, NoFault, TypeOK
<1>3. job' \in Job /\ JobShape(job') /\ CallerWaits(job', req')
  <2>1. CASE job' = [job EXCEPT !.at = "move"]
    BY <1>1, <2>1, JobMoves, StageNames DEF WriteMarker, pageVars
  <2>2. CASE job' = [job EXCEPT !.at = AfterMigration]
    BY <2>2, MigrationMoves DEF WriteMarker, pageVars
  <2> QED
    BY <2>1, <2>2 DEF WriteMarker
<1> QED
  BY <1>1, <1>2, <1>3 DEF TypeOK, Shape, WriteMarker, procVars, pageVars, ghostVars

\* As long as a file is left in the root directory there is a next one to move.
LEMMA NextToMoveType ==
  ASSUME PresentIn(files[Root])
  PROVE  /\ NextToMove \in FileName /\ files[Root][NextToMove] # Nothing
         /\ NextToMove = "main" => files[Root]["tmp"] = Nothing /\ files[Root]["bak"] = Nothing
<1> DEFINE IsNext(n) == /\ files[Root][n] # Nothing
                        /\ n = "bak" => files[Root]["tmp"] = Nothing
                        /\ n = "main" => /\ files[Root]["tmp"] = Nothing
                                         /\ files[Root]["bak"] = Nothing
<1>1. CASE files[Root]["tmp"] # Nothing
  BY <1>1, IsNext("tmp"), Names DEF NextToMove
<1>2. CASE files[Root]["tmp"] = Nothing /\ files[Root]["bak"] # Nothing
  BY <1>2, IsNext("bak"), Names DEF NextToMove
<1>3. CASE /\ files[Root]["tmp"] = Nothing /\ files[Root]["bak"] = Nothing
           /\ files[Root]["main"] # Nothing
  BY <1>3, IsNext("main"), Names DEF NextToMove
<1> QED
  BY <1>1, <1>2, <1>3 DEF PresentIn, CommittedIn

LEMMA MoveType ==
  ASSUME TypeOK, Shape, Move
  PROVE  TypeOK' /\ Shape'
<1>1. NextToMove \in FileName
  BY NextToMoveType DEF Move
<1>2. job.dir \in Account /\ job.dir \in Dir /\ Root \in Dir
  BY Names DEF Move, Shape, JobShape
<1>3. files[Root][NextToMove] \in File /\ Nothing \in File
  BY <1>1, <1>2 DEF TypeOK, File
<1> DEFINE rest == [files EXCEPT ![Root][NextToMove] = Nothing]
<1>4. rest \in [Dir -> [FileName -> File]]
  BY <1>1, <1>2, <1>3, FileForms DEF TypeOK
<1>5. files' = [rest EXCEPT ![job.dir][NextToMove] = files[Root][NextToMove]]
  BY DEF Move
<1> HIDE DEF rest
<1>6. files' \in [Dir -> [FileName -> File]]
  BY <1>1, <1>2, <1>3, <1>4, <1>5, FileForms
<1> QED
  BY <1>1, <1>2, <1>3, <1>4, <1>5, <1>6 DEF TypeOK, Shape, Move, procVars, pageVars, ghostVars

LEMMA MoveFailsType ==
  ASSUME TypeOK, Shape, MoveFails
  PROVE  TypeOK' /\ Shape'
<1>1. job' \in Job /\ JobShape(job') /\ CallerWaits(job', req')
  BY MigrationMoves DEF MoveFails, pageVars
<1>2. blocked' \in Account \cup {Nobody} /\ faults' \in Nat
  BY DEF MoveFails, Fault, Shape, JobShape, TypeOK
<1> QED
  BY <1>1, <1>2 DEF TypeOK, Shape, MoveFails, diskVars, procVars, pageVars, ghostVars

LEMMA MovesDoneType ==
  ASSUME TypeOK, Shape, MovesDone
  PROVE  TypeOK' /\ Shape'
<1>1. job' \in Job /\ JobShape(job') /\ CallerWaits(job', req')
  BY MigrationMoves DEF MovesDone, pageVars
<1> QED
  BY <1>1 DEF TypeOK, Shape, MovesDone, diskVars, procVars, pageVars, ghostVars

LEMMA FindAccountType ==
  ASSUME TypeOK, Shape, FindAccount
  PROVE  TypeOK' /\ Shape'
<1> DEFINE next == [job EXCEPT !.at = "read", !.dir = session]
<1>1. session \in Account /\ session \in Dir /\ job \in Job
  BY Names DEF FindAccount, AccountAvailable, TypeOK
<1>2. next \in Job
  BY <1>1, JobForms, StageNames
<1>3. next.at = "read" /\ next.dir = session /\ next.op = job.op
  BY <1>1 DEF Job
<1>4. job.op # "save"
  BY StageNames DEF FindAccount, Shape, CallerWaits
<1>5. FlushThen(next)
  BY DEF FindAccount
<1> HIDE DEF next
<1>6. /\ job' \in Job /\ pending' \in Deferred \cup {Nothing}
      /\ JobShape(job') /\ CallerWaits(job', req')
  BY <1>1, <1>2, <1>3, <1>4, <1>5, FlushThenType, StageNames
<1> QED
  BY <1>1, <1>2, <1>3, <1>4, <1>5, <1>6 DEF TypeOK, Shape, FindAccount, diskVars, procVars, pageVars, ghostVars

\* Nobody holds the critical section any more.
LEMMA NoJobType ==
  ASSUME job' = NoJob
  PROVE  job' \in Job /\ JobShape(job') /\ CallerWaits(job', req')
BY JobForms, StageNames DEF NoJob, JobShape, CallerWaits

LEMMA NoAccountType ==
  ASSUME TypeOK, Shape, NoAccount
  PROVE  TypeOK' /\ Shape'
<1>1. job' \in Job /\ JobShape(job') /\ CallerWaits(job', req')
  BY NoJobType DEF NoAccount
<1>2. js' \in Page /\ PageShape(js')
  BY LoadAnsweredType DEF NoAccount
<1>3. faults' \in Nat
  BY DEF NoAccount, Fault, NoFault, TypeOK
<1> QED
  BY <1>1, <1>2, <1>3 DEF TypeOK, Shape, NoAccount, diskVars, procVars, pageVars, ghostVars

LEMMA LoadFailsType ==
  ASSUME TypeOK, Shape, LoadFails
  PROVE  TypeOK' /\ Shape'
<1>1. job' \in Job /\ JobShape(job') /\ CallerWaits(job', req')
  BY NoJobType DEF LoadFails
<1>2. js' \in Page /\ PageShape(js')
  BY LoadAnsweredType DEF LoadFails
<1>3. faults' \in Nat
  BY DEF LoadFails, Fault, NoFault, TypeOK
<1> QED
  BY <1>1, <1>2, <1>3 DEF TypeOK, Shape, LoadFails, diskVars, procVars, pageVars, ghostVars

LEMMA LoadType ==
  ASSUME TypeOK, Shape, Load
  PROVE  TypeOK' /\ Shape'
<1> DEFINE st == LoadState(files[job.dir], KeyAtHand)
<1>1. job.dir \in Account /\ job.dir \in Dir
  BY Names DEF Load, Shape, JobShape
<1>2. files[job.dir] \in [FileName -> File]
  BY <1>1 DEF TypeOK
<1>3. st \in State \cup {Nothing} /\ st # Unreadable
  BY <1>2, LoadStateType DEF Load
<1>4. \/ st = Nothing /\ LoadAnswered("fresh", Nothing)
      \/ st # Nothing /\ (LoadAnswered("ready", st) \/ LoadAnswered("out", Nothing))
  BY DEF Load
<1>5. /\ relied' = relied \/ (st # Nothing /\ relied' = [relied EXCEPT ![job.dir] = @ \cup st.has])
      /\ cached' = IF PresentIn(files[job.dir]) THEN KeyAtHand ELSE cached
  BY DEF Load
<1> HIDE DEF st
<1>6. js' \in Page /\ PageShape(js')
  BY <1>3, <1>4, LoadAnsweredType
<1>7. relied' \in [Account -> SUBSET Update]
  <2>1. st # Nothing => st.has \in SUBSET Update
    BY <1>3 DEF State
  <2> QED
    BY <1>1, <1>5, <2>1 DEF TypeOK
<1>8. cached' \in Nat
  BY <1>5 DEF KeyAtHand, TypeOK
<1>9. job' \in Job /\ JobShape(job') /\ CallerWaits(job', req')
  BY NoJobType DEF Load
<1> QED
  BY <1>1, <1>2, <1>3, <1>4, <1>5, <1>6, <1>7, <1>8, <1>9 DEF TypeOK, Shape, Load, diskVars, procVars, pageVars, ghostVars

LEMMA ForgetKeyType ==
  ASSUME TypeOK, Shape, ForgetKey
  PROVE  TypeOK' /\ Shape'
<1>1. entry' \in Nat /\ faults' \in Nat
  BY DEF ForgetKey, Fault, TypeOK
<1> QED
  BY <1>1 DEF TypeOK, Shape, ForgetKey, procVars, pageVars, ghostVars

-----------------------------------------------------------------------------
\* Initially everything is typed, with or without a legacy state.
LEMMA InitType == Init => TypeOK /\ Shape
<1> SUFFICES ASSUME Init
             PROVE  TypeOK /\ Shape
  OBVIOUS
<1>1. \A b \in LegacyFiles : LegacyOwner # Nobody => b \in [FileName -> File]
  <2> SUFFICES ASSUME NEW b \in LegacyFiles, LegacyOwner # Nobody
               PROVE  b \in [FileName -> File]
    OBVIOUS
  <2>1. LegacyOwner \in Account /\ 1 \in Update /\ 2 \in Update
    BY AccountAssumption, BoundAssumption DEF Update
  <2>2. /\ [key |-> 1, of |-> LegacyOwner, has |-> {1, 2}] \in Blob
        /\ [key |-> 1, of |-> LegacyOwner, has |-> {1}] \in Blob
    BY <2>1 DEF Blob
  <2>3. PICK f \in File, g \in File, h \in File : b = [main |-> f, bak |-> g, tmp |-> h]
    BY <2>2 DEF LegacyFiles, File
  <2> QED
    BY <2>3 DEF FileName
<1>2. files \in [Dir -> [FileName -> File]]
  <2>1. NoFiles \in [FileName -> File]
    BY DEF NoFiles, File
  <2> QED
    BY <1>1, <2>1 DEF Init
<1>3. entry \in Nat /\ keys \in Nat /\ made \in Nat
  BY DEF Init
<1>4. acked \in [Account -> SUBSET Update]
  <2>1. CASE LegacyOwner = Nobody
    BY <2>1 DEF Init
  <2>2. CASE LegacyOwner # Nobody
    <3>1. {1, 2} \subseteq Update
      BY <2>2, BoundAssumption DEF Update
    <3> QED
      BY <2>2, <3>1 DEF Init
  <2> QED
    BY <2>1, <2>2
<1>5. job \in Job /\ js \in Page /\ req \in [Sender -> Call]
  <2>1. [s \in Sender |-> NoReq] \in [Sender -> Call]
    BY StageNames DEF NoReq, Call
  <2> QED
    BY <2>1, JobForms, PageForms DEF Init
<1>6. relied = acked /\ accepted = acked
  BY DEF Init
<1>7. TypeOK
  BY <1>2, <1>3, <1>4, <1>5, <1>6 DEF Init, TypeOK
<1>8. Shape
  BY StageNames DEF Init, Shape, JobShape, PageShape, CallsShape, CallerWaits, NoJob, NoPage, NoReq
<1> QED
  BY <1>7, <1>8

\* Every step keeps types and shape.
LEMMA NextType ==
  ASSUME TypeOK, Shape, [Next]_vars
  PROVE  TypeOK' /\ Shape'
<1>1. CASE UNCHANGED vars
  BY <1>1 DEF vars, TypeOK, Shape
<1>2. CASE JobStep
  BY <1>2, ObtainKeyType, KeyRefusedType, FileStepsType, RenameTmpType, MigrateType,
     WriteMarkerType, MoveType, MovesDoneType, FindAccountType, NoAccountType,
     LoadFailsType, LoadType, FinishType DEF JobStep
<1>3. CASE WriteError \/ MoveFails \/ Crash \/ ForgetKey \/ Reload
  BY <1>3, WriteErrorType, MoveFailsType, CrashType, ForgetKeyType, ReloadType
<1>4. CASE \E a \in Account \cup {Nobody} : SignIn(a)
  BY <1>4, SignInType
<1>5. CASE \E durable \in BOOLEAN : ChangeState(durable)
  BY <1>5, ChangeStateType
<1>6. CASE \E s \in Sender : RefuseSave(s) \/ DeferSave(s) \/ ScheduleFlush(s) \/ StartSave(s)
  BY <1>6, RefuseSaveType, DeferSaveType, ScheduleFlushType, StartSaveType
<1>7. CASE BindAccount \/ CreateIdentity \/ SaveAgain
  BY <1>7, BindAccountType, CreateIdentityType, SaveAgainType
<1>8. CASE TimerFires \/ StartHandOff \/ StartExit \/ StartLoad \/ StartMigration
  BY <1>8, TimerFiresType, StartHandOffType, StartExitType, StartLoadType, StartMigrationType
<1> QED
  BY <1>1, <1>2, <1>3, <1>4, <1>5, <1>6, <1>7, <1>8 DEF Next

\* Every reachable state is well typed and every job, call and page in use has
\* what it needs, whatever faults occur.
THEOREM StoreTypeCorrect == Spec => []TypeOK /\ []Shape
<1>1. Init => TypeOK /\ Shape
  BY InitType
<1>2. TypeOK /\ Shape /\ [Next]_vars => TypeOK' /\ Shape'
  BY NextType
<1> QED
  BY <1>1, <1>2, PTL DEF Spec

-----------------------------------------------------------------------------
(* What the steps do to the job and to PENDING.                             *)

\* A job that moves on is otherwise the same.
LEMMA JobFields ==
  ASSUME TypeOK
  PROVE  \A at : /\ [job EXCEPT !.at = at].at = at
                 /\ [job EXCEPT !.at = at].op = job.op
                 /\ [job EXCEPT !.at = at].dir = job.dir
                 /\ [job EXCEPT !.at = at].to = job.to
                 /\ [job EXCEPT !.at = at].st = job.st
                 /\ [job EXCEPT !.at = at].from = job.from
BY DEF TypeOK, Job

\* A flush takes PENDING, whole, as the state to write.
LEMMA FlushThenResult ==
  ASSUME TypeOK, NEW next \in Job, FlushThen(next)
  PROVE  \/ /\ pending = Nothing /\ pending' = Nothing /\ job' = next
         \/ /\ pending # Nothing /\ pending' = Nothing
            /\ job'.at = "key" /\ job'.op = next.op /\ job'.dir = next.dir
            /\ job'.to = pending.dir /\ job'.st = pending.st
BY DEF FlushThen, Job

\* The end of a write leaves PENDING as it is, or empty, or with the state that
\* could not be written.
LEMMA WriteEndsResult ==
  ASSUME TypeOK, Shape, job.at \in WriteStage, NEW ok \in BOOLEAN, WriteEnds(ok)
  PROVE  /\ \/ job.op = "save" /\ job' = NoJob
            \/ job.op = "load" /\ job' = [job EXCEPT !.at = "read"]
            \/ job.op \notin {"save", "load"} /\ job' = [job EXCEPT !.at = "done"]
         /\ job'.at \in {"idle", "read", "done"}
         /\ \/ pending' = Nothing
            \/ ok /\ job.op # "save" /\ pending' = pending
            \/ ~ok /\ pending' = [dir |-> job.to, st |-> job.st]
<1>1. \/ job.op = "save" /\ job' = NoJob
      \/ job.op = "load" /\ job' = [job EXCEPT !.at = "read"]
      \/ job.op \notin {"save", "load"} /\ job' = [job EXCEPT !.at = "done"]
  BY DEF WriteEnds
<1>2. job'.at \in {"idle", "read", "done"}
  BY <1>1 DEF NoJob, TypeOK, Job
<1> QED
  BY <1>1, <1>2 DEF WriteEnds

\* A write step moves on and fills one file of the directory it writes to.
LEMMA FileStepResult ==
  ASSUME TypeOK, NEW from, NEW to, NEW name \in FileName, NEW content \in File,
         WriteStep(from, to), SetFile(name, content)
  PROVE  /\ job.at = from /\ job'.at = to
         /\ job'.op = job.op /\ job'.dir = job.dir /\ job'.to = job.to
         /\ job'.st = job.st /\ job'.from = job.from
         /\ files'[job.to][name] = content
         /\ \A d \in Dir, n \in FileName :
              (d # job.to \/ n # name) => files'[d][n] = files[d][n]
<1>1. job.to \in Dir
  BY DEF TypeOK, Job
<1>2. /\ files'[job.to][name] = content
      /\ \A d \in Dir, n \in FileName :
           (d # job.to \/ n # name) => files'[d][n] = files[d][n]
  BY <1>1 DEF SetFile, TypeOK
<1> QED
  BY <1>2, JobFields DEF WriteStep

\* The steps that fill the tmp file and the backup.
LEMMA FileSteps ==
  ASSUME TypeOK, Shape, CreateTmp \/ SyncTmp \/ CopyToBak \/ SyncBak
  PROVE  /\ job'.op = job.op /\ job'.dir = job.dir /\ job'.to = job.to
         /\ job'.st = job.st /\ job'.from = job.from
         /\ \A d \in Dir, n \in FileName : d # job.to => files'[d][n] = files[d][n]
         /\ files'[job.to]["main"] = files[job.to]["main"]
         /\ \/ /\ job.at = "create" /\ job'.at = "sync"
               /\ files'[job.to]["tmp"] = Unreadable
               /\ files'[job.to]["bak"] = files[job.to]["bak"]
            \/ /\ job.at = "sync"
               /\ job'.at = IF files[job.to]["main"] = Nothing THEN "rename" ELSE "copy"
               /\ files'[job.to]["tmp"] = NewBlob
               /\ files'[job.to]["bak"] = files[job.to]["bak"]
            \/ /\ job.at = "copy" /\ job'.at = "copied"
               /\ files'[job.to]["tmp"] = files[job.to]["tmp"]
               /\ files'[job.to]["bak"] = Unreadable
            \/ /\ job.at = "copied" /\ job'.at = "rename"
               /\ files'[job.to]["tmp"] = files[job.to]["tmp"]
               /\ files'[job.to]["bak"] = files[job.to]["main"]
<1>1. job.to \in Dir /\ Unreadable \in File /\ files[job.to]["main"] \in File
  BY Names DEF TypeOK, Job, File
<1>2. CASE CreateTmp
  BY <1>1, <1>2, FileStepResult, Names DEF CreateTmp
<1>3. CASE SyncTmp
  <2>1. job.at \in WriteStage
    BY <1>3, StageNames DEF SyncTmp, WriteStep
  <2>2. NewBlob \in File
    BY <2>1, NewBlobType
  <2> QED
    BY <1>1, <1>3, <2>2, FileStepResult, Names DEF SyncTmp
<1>4. CASE CopyToBak
  BY <1>1, <1>4, FileStepResult, Names DEF CopyToBak
<1>5. CASE SyncBak
  BY <1>1, <1>5, FileStepResult, Names DEF SyncBak
<1> QED
  BY <1>2, <1>3, <1>4, <1>5

\* The rename replaces the main file by the tmp file.
LEMMA RenameResult ==
  ASSUME TypeOK, RenameTmp
  PROVE  /\ files'[job.to]["main"] = files[job.to]["tmp"]
         /\ files'[job.to]["tmp"] = Nothing
         /\ files'[job.to]["bak"] = files[job.to]["bak"]
         /\ \A d \in Dir : d # job.to => files'[d] = files[d]
<1>1. job.to \in Dir
  BY DEF TypeOK, Job
<1>2. files' = [files EXCEPT ![job.to] =
                 [@ EXCEPT !["main"] = files[job.to]["tmp"], !["tmp"] = Nothing]]
  BY DEF RenameTmp
<1> QED
  BY <1>1, <1>2, Names DEF TypeOK

-----------------------------------------------------------------------------
(* Every step, by what it does to the files, the keys, PENDING and the job. *)

\* Nothing at all.
StaysPut == UNCHANGED <<files, entry, cached, marker, blocked, pending, job, acked>>

\* No file changes, and nothing is being written, moved or read afterwards.
LeavesFiles ==
    /\ files' = files /\ entry' = entry /\ acked' = acked /\ marker' = marker
    /\ blocked' \in {blocked, Nobody} \/ job.at = "move"
    /\ pending' \in {pending, Nothing}
    /\ cached' \in {0, cached, KeyAtHand}
    /\ job'.at \notin WriteStage \cup {"marker", "move", "read"}

\* PENDING, if there is one, is taken to be written; a load has found its account.
Flushes ==
    /\ UNCHANGED <<files, entry, cached, marker, blocked, acked>>
    /\ pending' = Nothing
    /\ \/ job'.at \notin WriteStage \cup {"marker", "move"}
       \/ /\ pending # Nothing /\ job'.at = "key"
          /\ job'.to = pending.dir /\ job'.st = pending.st
    /\ job'.op # "save"
    /\ job'.at = "read" \/ job'.op = "load" =>
          job.at = "account" /\ AccountAvailable /\ job'.dir = session

\* A migration has found a state to move, or written the marker for it.
Migrates ==
    LET legacy == LoadState(files[Root], KeyAtHand)
    IN  /\ UNCHANGED <<files, entry, marker, pending, acked>>
        /\ cached' \in {cached, KeyAtHand}
        /\ legacy \notin {Nothing, Unreadable}
        /\ job'.at = "marker" /\ job'.dir = legacy.of
Marks ==
    /\ UNCHANGED <<files, entry, cached, pending, acked>>
    /\ job.at = "marker" /\ job'.at = "move" /\ job'.dir = job.dir /\ marker' = job.dir

Writes == CreateTmp \/ SyncTmp \/ CopyToBak \/ SyncBak
Fails == KeyRefused \/ WriteError

\* The steps of the page, of the session and of refused calls.
LEMMA PageSteps ==
  ASSUME NEW a, NEW durable, NEW s,
         \/ SignIn(a) \/ BindAccount \/ CreateIdentity \/ ChangeState(durable)
         \/ SaveAgain \/ Reload \/ RefuseSave(s) \/ ScheduleFlush(s)
  PROVE  StaysPut
BY DEF SignIn, BindAccount, CreateIdentity, ChangeState, SaveAgain, Reload, RefuseSave,
       ScheduleFlush, StaysPut, diskVars, procVars, ghostVars

\* Starts, ends and answers.
LEMMA QuietSteps ==
  ASSUME TypeOK, Shape,
         \/ StartLoad \/ StartMigration \/ Finish \/ Crash
         \/ NoAccount \/ LoadFails \/ Load \/ MoveFails \/ MovesDone
  PROVE  LeavesFiles
<1>1. NoJob.at \notin WriteStage \cup {"marker", "move", "read"}
  BY DEF NoJob, WriteStage
<1>2. CASE StartLoad \/ StartMigration
  <2>1. job'.at \in {"account", "migrate"}
    BY <1>2 DEF StartLoad, StartMigration, NoJob
  <2>2. job'.at \notin WriteStage \cup {"marker", "move", "read"}
    BY <2>1, StageNames
  <2> QED
    BY <1>2, <2>2
       DEF StartLoad, StartMigration, LeavesFiles, diskVars, procVars, ghostVars
<1>3. CASE Finish
  BY <1>1, <1>3 DEF Finish, Restarted, LeavesFiles, diskVars, procVars, ghostVars
<1>4. CASE Crash
  BY <1>1, <1>4 DEF Crash, Restarted, LeavesFiles, diskVars
<1>5. CASE NoAccount \/ LoadFails
  BY <1>1, <1>5 DEF NoAccount, LoadFails, LeavesFiles, diskVars, procVars, ghostVars
<1>6. CASE Load
  <2>1. /\ job' = NoJob /\ cached' \in {cached, KeyAtHand} /\ files' = files /\ entry' = entry
        /\ acked' = acked /\ pending' = pending /\ marker' = marker /\ blocked' = blocked
    BY <1>6 DEF Load, diskVars
  <2> QED
    BY <1>1, <2>1 DEF LeavesFiles
<1>7. CASE MoveFails \/ MovesDone
  <2>1. AfterMigration \in {"account", "done"} /\ job' = [job EXCEPT !.at = AfterMigration]
    BY <1>7 DEF MoveFails, MovesDone, AfterMigration
  <2>2. job'.at \in {"account", "done"}
    BY <2>1 DEF TypeOK, Job
  <2> QED
    BY <1>7, <2>2, StageNames DEF MoveFails, MovesDone, LeavesFiles, diskVars, procVars, ghostVars
<1> QED
  BY <1>2, <1>3, <1>4, <1>5, <1>6, <1>7

\* Whatever begins with a flush.
LEMMA FlushSteps ==
  ASSUME TypeOK, Shape, TimerFires \/ StartHandOff \/ StartExit \/ FindAccount
  PROVE  Flushes
<1> DEFINE Found(j) == j.at = "read" \/ j.op = "load" =>
                          job.at = "account" /\ AccountAvailable /\ j.dir = session
<1>1. UNCHANGED <<files, entry, cached, marker, blocked, acked>>
  BY DEF TimerFires, StartHandOff, StartExit, FindAccount, diskVars, ghostVars
<1>2. \E next \in Job : /\ FlushThen(next) /\ Found(next)
                        /\ next.at \in {"done", "read"} /\ next.op # "save"
  <2>1. CASE FindAccount
    <3> DEFINE next == [job EXCEPT !.at = "read", !.dir = session]
    <3>1. session \in Dir /\ job \in Job
      BY <2>1, Names DEF FindAccount, AccountAvailable, TypeOK
    <3>2. next \in Job
      BY <3>1, JobForms, StageNames
    <3>3. job.op # "save"
      BY <2>1, StageNames DEF FindAccount, Shape, CallerWaits
    <3>4. next.at = "read" /\ next.op # "save" /\ next.dir = session
      BY <3>1, <3>3 DEF Job
    <3>5. FlushThen(next) /\ Found(next)
      BY <2>1, <3>4 DEF FindAccount
    <3> QED
      BY <3>2, <3>4, <3>5
  <2>2. CASE TimerFires \/ StartHandOff \/ StartExit
    <3>1. PICK op \in {"flush", "handoff", "exit"} :
             FlushThen([NoJob EXCEPT !.op = op, !.at = "done"])
      BY <2>2 DEF TimerFires, StartHandOff, StartExit
    <3>2. [NoJob EXCEPT !.op = op, !.at = "done"] \in Job
      BY JobForms, StageNames
    <3>3. /\ [NoJob EXCEPT !.op = op, !.at = "done"].at = "done"
          /\ [NoJob EXCEPT !.op = op, !.at = "done"].op = op
      BY DEF NoJob
    <3> QED
      BY <3>1, <3>2, <3>3
  <2> QED
    BY <2>1, <2>2
<1>3. PICK next \in Job : /\ FlushThen(next) /\ Found(next)
                          /\ next.at \in {"done", "read"} /\ next.op # "save"
  BY <1>2
<1>4. Found(job')
  BY <1>3, FlushThenResult
<1> QED
  BY <1>1, <1>3, <1>4, FlushThenResult, StageNames DEF Flushes

\* The decision of a migration and its marker.
LEMMA MigrationSteps ==
  ASSUME TypeOK, Shape, Migrate \/ WriteMarker
  PROVE  Migrates \/ Marks \/ LeavesFiles
<1>1. [job EXCEPT !.at = AfterMigration].at \in {"account", "done"}
  BY DEF AfterMigration, TypeOK, Job
<1>2. CASE Migrate
  <2> DEFINE legacy == LoadState(files[Root], KeyAtHand)
  <2>1. /\ UNCHANGED <<files, entry, marker, pending, acked>>
        /\ cached' \in {cached, KeyAtHand}
    BY <1>2 DEF Migrate, diskVars, ghostVars
  <2>2. CASE job' = [job EXCEPT !.at = AfterMigration]
    BY <1>1, <1>2, <2>1, <2>2, StageNames DEF LeavesFiles, Migrate, diskVars
  <2>3. CASE /\ job' = [job EXCEPT !.at = "marker", !.dir = legacy.of]
             /\ legacy \notin {Nothing, Unreadable}
    <3>1. job'.at = "marker" /\ job'.dir = legacy.of
      BY <2>3 DEF TypeOK, Job
    <3> QED
      BY <2>1, <2>3, <3>1 DEF Migrates
  <2> QED
    BY <1>2, <2>2, <2>3 DEF Migrate
<1>3. CASE WriteMarker
  <2>1. UNCHANGED <<files, entry, cached, pending, acked>> /\ job.at = "marker"
    BY <1>3 DEF WriteMarker, procVars, ghostVars
  <2>2. CASE job' = [job EXCEPT !.at = AfterMigration] /\ marker' = marker
    BY <1>1, <1>3, <2>1, <2>2, StageNames DEF LeavesFiles, WriteMarker, procVars
  <2>3. CASE job' = [job EXCEPT !.at = "move"] /\ marker' = job.dir
    BY <2>1, <2>3, JobFields DEF Marks
  <2> QED
    BY <1>3, <2>2, <2>3 DEF WriteMarker
<1> QED
  BY <1>2, <1>3

\* That is all there is.
LEMMA StepKinds ==
  ASSUME TypeOK, Shape, [Next]_vars
  PROVE  \/ StaysPut \/ LeavesFiles \/ Flushes \/ Migrates \/ Marks \/ Move
         \/ \E s \in Sender : DeferSave(s) \/ StartSave(s)
         \/ ObtainKey \/ Fails \/ Writes \/ RenameTmp \/ ForgetKey
<1>1. CASE UNCHANGED vars
  BY <1>1 DEF vars, StaysPut
<1>2. CASE JobStep
  BY <1>2, QuietSteps, FlushSteps, MigrationSteps DEF JobStep, Fails, Writes
<1>3. CASE WriteError \/ MoveFails \/ Crash \/ ForgetKey \/ Reload
  BY <1>3, QuietSteps, PageSteps DEF Fails
<1>4. CASE \E a \in Account \cup {Nobody} : SignIn(a)
  BY <1>4, PageSteps
<1>5. CASE \E durable \in BOOLEAN : ChangeState(durable)
  BY <1>5, PageSteps
<1>6. CASE \E s \in Sender : RefuseSave(s) \/ DeferSave(s) \/ ScheduleFlush(s) \/ StartSave(s)
  BY <1>6, PageSteps
<1>7. CASE BindAccount \/ CreateIdentity \/ SaveAgain
  BY <1>7, PageSteps
<1>8. CASE TimerFires \/ StartHandOff \/ StartExit \/ StartLoad \/ StartMigration
  BY <1>8, QuietSteps, FlushSteps
<1> QED
  BY <1>1, <1>2, <1>3, <1>4, <1>5, <1>6, <1>7, <1>8 DEF Next

\* A write that fails leaves the files alone; its state is in PENDING again, or
\* was sent by a caller who learns of it.
LEMMA FailsResult ==
  ASSUME TypeOK, Shape, Fails
  PROVE  /\ job.at \in WriteStage /\ job'.at \in {"idle", "read", "done"}
         /\ UNCHANGED <<files, entry, cached, marker, blocked, acked>>
         /\ \/ pending' = Nothing
            \/ pending' = [dir |-> job.to, st |-> job.st]
<1>1. job.at \in WriteStage /\ WriteFailed /\ UNCHANGED <<cached, diskVars>>
  BY StageNames DEF Fails, KeyRefused, WriteError
<1>2. WriteEnds(FALSE) /\ UNCHANGED <<blocked, acked>>
  BY <1>1 DEF WriteFailed
<1> QED
  BY <1>1, <1>2, WriteEndsResult DEF diskVars

\* One file moves from the root directory to the account's, the main one last.
LEMMA MoveResult ==
  ASSUME TypeOK, Shape, Move
  PROVE  /\ job' = job /\ job.at = "move" /\ job.dir \in Account
         /\ UNCHANGED <<entry, cached, marker, blocked, pending, acked>>
         /\ \E n \in FileName :
              /\ files[Root][n] # Nothing
              /\ n = "main" => files[Root]["tmp"] = Nothing /\ files[Root]["bak"] = Nothing
              /\ files'[Root][n] = Nothing /\ files'[job.dir][n] = files[Root][n]
              /\ \A d \in Dir, m \in FileName :
                   (m # n \/ d \notin {Root, job.dir}) => files'[d][m] = files[d][m]
              /\ \A d \in Account \ {job.dir} : files'[d][n] = files[d][n]
<1>1. /\ NextToMove \in FileName /\ files[Root][NextToMove] # Nothing
      /\ NextToMove = "main" => files[Root]["tmp"] = Nothing /\ files[Root]["bak"] = Nothing
  BY NextToMoveType DEF Move
<1>2. job.dir \in Account /\ job.dir \in Dir /\ Root \in Dir /\ job.dir # Root
  BY Names, Apart DEF Move, Shape, JobShape
<1> DEFINE rest == [files EXCEPT ![Root][NextToMove] = Nothing]
<1>3. /\ rest \in [Dir -> [FileName -> File]]
      /\ rest[Root][NextToMove] = Nothing
      /\ \A d \in Dir, m \in FileName :
           (m # NextToMove \/ d # Root) => rest[d][m] = files[d][m]
  <2>1. Nothing \in File /\ files \in [Dir -> [FileName -> File]]
    BY DEF File, TypeOK
  <2>2. rest \in [Dir -> [FileName -> File]]
    BY <1>1, <1>2, <2>1, FileForms
  <2> QED
    BY <1>1, <1>2, <2>1, <2>2
<1>4. files' = [rest EXCEPT ![job.dir][NextToMove] = files[Root][NextToMove]]
  BY DEF Move
<1> HIDE DEF rest
<1>5. /\ files'[job.dir][NextToMove] = files[Root][NextToMove]
      /\ \A d \in Dir, m \in FileName :
           (m # NextToMove \/ d # job.dir) => files'[d][m] = rest[d][m]
  BY <1>1, <1>2, <1>3, <1>4
<1>6. /\ files'[Root][NextToMove] = Nothing
      /\ \A d \in Dir, m \in FileName :
           (m # NextToMove \/ d \notin {Root, job.dir}) => files'[d][m] = files[d][m]
      /\ \A d \in Account \ {job.dir} : files'[d][NextToMove] = files[d][NextToMove]
  BY <1>1, <1>2, <1>3, <1>5, Names, Apart
<1>7. /\ job' = job /\ job.at = "move"
      /\ UNCHANGED <<entry, cached, marker, blocked, pending, acked>>
  BY DEF Move, procVars, ghostVars
<1> QED
  BY <1>1, <1>2, <1>5, <1>6, <1>7

-----------------------------------------------------------------------------
(* No directory ever holds another account's state.                         *)

\* Besides what is promised: the root directory has the state of the one legacy
\* owner, to whom it moves, and what is being written is its account's.
Content(f) == f \notin {Nothing, Unreadable}
FilesOwn(fs) ==
    /\ \A a \in Account, n \in FileName : Content(fs[a][n]) => fs[a][n].of = a
    /\ \A n \in FileName : Content(fs[Root][n]) => fs[Root][n].of = LegacyOwner
PendingOwn(p) == p # Nothing => p.st.of = p.dir
JobOwn(j) ==
    /\ j.at \in WriteStage => j.st.of = j.to
    /\ j.at \in {"marker", "move"} => j.dir = LegacyOwner
OwnInv == FilesOwn(files) /\ PendingOwn(pending) /\ JobOwn(job)

LEMMA OwnInit == Init => OwnInv
<1> SUFFICES ASSUME Init PROVE OwnInv
  OBVIOUS
<1>1. pending = Nothing /\ job = NoJob
  BY DEF Init
<1>2. PendingOwn(pending) /\ JobOwn(job)
  BY <1>1, StageNames DEF PendingOwn, JobOwn, NoJob
<1>3. CASE LegacyOwner = Nobody
  <2>1. \A d \in Dir, n \in FileName : files[d][n] = Nothing
    BY <1>3 DEF Init, NoFiles
  <2> QED
    BY <1>2, <2>1, Names DEF OwnInv, FilesOwn, Content
<1>4. CASE LegacyOwner # Nobody
  <2>1. PICK fs \in LegacyFiles : files = [d \in Dir |-> IF d = Root THEN fs ELSE NoFiles]
    BY <1>4 DEF Init
  <2>2. PICK b \in {Nothing, Unreadable, [key |-> 1, of |-> LegacyOwner, has |-> {1}]},
             t \in {Nothing, Unreadable} :
          fs = [main |-> [key |-> 1, of |-> LegacyOwner, has |-> {1, 2}], bak |-> b, tmp |-> t]
    BY <2>1 DEF LegacyFiles
  <2>3. \A n \in FileName : Content(fs[n]) => fs[n].of = LegacyOwner
    <3>1. /\ fs["main"] = [key |-> 1, of |-> LegacyOwner, has |-> {1, 2}]
          /\ fs["bak"] = b /\ fs["tmp"] = t
      BY <2>2
    <3> QED
      BY <3>1, <2>2 DEF Content, FileName
  <2>4. /\ files[Root] = fs
        /\ \A a \in Account, n \in FileName : files[a][n] = Nothing
    BY <2>1, Names, Apart DEF NoFiles
  <2> QED
    BY <1>2, <2>3, <2>4 DEF OwnInv, FilesOwn, Content
<1> QED
  BY <1>3, <1>4

\* The state a load returns belongs to the owner of the file it comes from.
LEMMA LoadedFrom ==
  ASSUME NEW fs \in [FileName -> File], NEW k,
         LoadState(fs, k) \notin {Nothing, Unreadable}
  PROVE  \E n \in FileName : /\ Content(fs[n]) /\ fs[n].key = k
                             /\ LoadState(fs, k) = [of |-> fs[n].of, has |-> fs[n].has]
<1>1. BestFile(fs, k) \in FileName
  BY DEF BestFile, FileName
<1> QED
  BY <1>1 DEF LoadState, Opens, StateIn, Content

LEMMA OwnStep ==
  ASSUME TypeOK, Shape, OwnInv, [Next]_vars
  PROVE  OwnInv'
<1>1. CASE StaysPut
  BY <1>1 DEF StaysPut, OwnInv
<1>2. CASE LeavesFiles
  BY <1>2 DEF LeavesFiles, OwnInv, PendingOwn, JobOwn
<1>3. CASE Flushes
  BY <1>3, StageNames DEF Flushes, OwnInv, PendingOwn, JobOwn
<1>4. CASE Migrates
  <2>1. files[Root] \in [FileName -> File]
    BY Names DEF TypeOK
  <2>2. job'.at = "marker" /\ job'.dir = LegacyOwner
    BY <1>4, <2>1, LoadedFrom DEF Migrates, OwnInv, FilesOwn
  <2> QED
    BY <1>4, <2>2, StageNames DEF Migrates, OwnInv, JobOwn
<1>5. CASE Marks
  BY <1>5, StageNames DEF Marks, OwnInv, JobOwn
<1>6. CASE Move
  BY <1>6, MoveResult, Names, Apart DEF OwnInv, FilesOwn, JobOwn, Content
<1>7. ASSUME NEW s \in Sender, DeferSave(s) PROVE OwnInv'
  <2>1. /\ files' = files /\ job' = job
        /\ pending' = [dir |-> jsOwner, st |-> req[s].st] /\ req[s].st.of = jsOwner
    BY <1>7 DEF DeferSave, MayWrite, diskVars
  <2> QED
    BY <2>1 DEF OwnInv, PendingOwn
<1>8. ASSUME NEW s \in Sender, StartSave(s) PROVE OwnInv'
  <2>1. /\ files' = files /\ pending' = pending
        /\ job'.at = "key" /\ job'.to = jsOwner /\ job'.st = req[s].st
        /\ req[s].st.of = jsOwner
    BY <1>8 DEF StartSave, MayWrite, diskVars, procVars, NoJob
  <2> QED
    BY <2>1, StageNames DEF OwnInv, JobOwn
<1>9. CASE ObtainKey
  <2>1. /\ files' = files /\ pending' = pending /\ job.at = "key"
        /\ job' = [job EXCEPT !.at = "create"]
    BY <1>9 DEF ObtainKey
  <2> QED
    BY <2>1, JobFields, StageNames DEF OwnInv, JobOwn
<1>10. CASE Fails
  BY <1>10, FailsResult, StageNames DEF OwnInv, PendingOwn, JobOwn
<1>11. CASE Writes
  <2>1. job.at \in WriteStage /\ job.to \in Account /\ job.st.of = job.to
    BY <1>11, FileSteps, NewBlobType, StageNames DEF Writes, OwnInv, JobOwn
  <2>2. pending' = pending
    BY <1>11 DEF Writes, CreateTmp, SyncTmp, CopyToBak, SyncBak, WriteStep, procVars
  <2>3. JobOwn(job')
    BY <1>11, <2>1, FileSteps, StageNames DEF Writes, JobOwn
  <2>4. NewBlob.of = job.to
    BY <2>1 DEF NewBlob
  <2>5. \A n \in FileName : Content(files'[job.to][n]) => files'[job.to][n].of = job.to
    BY <1>11, <2>1, <2>4, FileSteps DEF Writes, OwnInv, FilesOwn, Content, FileName
  <2>6. \A d \in Dir, n \in FileName : d # job.to => files'[d][n] = files[d][n]
    BY <1>11, FileSteps DEF Writes
  <2>7. FilesOwn(files')
    BY <2>1, <2>5, <2>6, Names, Apart DEF OwnInv, FilesOwn
  <2> QED
    BY <2>2, <2>3, <2>7 DEF OwnInv
<1>12. CASE RenameTmp
  <2>1. job.at \in WriteStage /\ job.to \in Account /\ job.st.of = job.to
    BY <1>12, NewBlobType, StageNames DEF RenameTmp, OwnInv, JobOwn
  <2>2. PendingOwn(pending') /\ JobOwn(job')
    BY <1>12, <2>1, WriteEndsResult, StageNames DEF RenameTmp, OwnInv, PendingOwn, JobOwn
  <2>3. \A n \in FileName : Content(files'[job.to][n]) => files'[job.to][n].of = job.to
    BY <1>12, <2>1, RenameResult, Names DEF OwnInv, FilesOwn, Content, FileName
  <2>4. FilesOwn(files')
    BY <1>12, <2>1, <2>3, RenameResult, Names, Apart DEF OwnInv, FilesOwn
  <2> QED
    BY <2>2, <2>4 DEF OwnInv
<1>13. CASE ForgetKey
  BY <1>13 DEF ForgetKey, procVars, OwnInv
<1> QED
  BY <1>1, <1>2, <1>3, <1>4, <1>5, <1>6, <1>7, <1>8, <1>9, <1>10, <1>11, <1>12, <1>13,
     StepKinds

\* Whatever account signs in while saves are still out, whatever is interrupted
\* and whoever owned the legacy state, the directory of an account (and a write
\* deferred to it) holds that account's state or none.
THEOREM DirHoldsOwnAlways == Spec => []DirHoldsOwn
<1>1. Init => OwnInv
  BY OwnInit
<1>2. TypeOK /\ Shape /\ OwnInv /\ [Next]_vars => OwnInv'
  BY OwnStep
<1>3. OwnInv => DirHoldsOwn
  BY DEF OwnInv, FilesOwn, PendingOwn, Content, DirHoldsOwn
<1> QED
  BY <1>1, <1>2, <1>3, StoreTypeCorrect, PTL DEF Spec

-----------------------------------------------------------------------------
(* There is one key.                                                        *)

\* The state being written is whole in the tmp file once that is synced, and it
\* has the key in use; a backup is made of a main file that is there.
TmpIsNew == job.at \in {"copy", "copied", "rename"} => files[job.to]["tmp"] = NewBlob
CopiesMain == job.at \in {"copy", "copied"} => files[job.to]["main"] # Nothing
KeyInv == OneKey /\ KeysAgree /\ TmpIsNew /\ CopiesMain

LEMMA KeyInit == Init => KeyInv
<1> SUFFICES ASSUME Init PROVE KeyInv
  OBVIOUS
<1>1. KeysAgree /\ TmpIsNew /\ CopiesMain
  BY DEF Init, KeysAgree, TmpIsNew, CopiesMain, NoJob, WriteStage
<1>2. CASE LegacyOwner = Nobody
  BY <1>1, <1>2 DEF Init, KeyInv, OneKey
<1>3. CASE LegacyOwner # Nobody
  <2>1. PICK fs \in LegacyFiles : files = [d \in Dir |-> IF d = Root THEN fs ELSE NoFiles]
    BY <1>3 DEF Init
  <2>2. PICK b \in {Nothing, Unreadable, [key |-> 1, of |-> LegacyOwner, has |-> {1}]},
             t \in {Nothing, Unreadable} :
          fs = [main |-> [key |-> 1, of |-> LegacyOwner, has |-> {1, 2}], bak |-> b, tmp |-> t]
    BY <2>1 DEF LegacyFiles
  <2>3. fs["main"].key = 1 /\ (fs["bak"] \notin {Nothing, Unreadable} => fs["bak"].key = 1)
    BY <2>2
  <2>4. /\ files[Root] = fs
        /\ \A d \in Dir \ {Root}, n \in FileName : files[d][n] = Nothing
    BY <2>1, Names, Apart DEF NoFiles
  <2>5. entry = 1
    BY <1>3 DEF Init
  <2> QED
    BY <1>1, <2>3, <2>4, <2>5, Names DEF KeyInv, OneKey
<1> QED
  BY <1>2, <1>3

\* Steps that leave the keyring and the committed files alone.
LEMMA SameKeys ==
  ASSUME KeyInv, files' = files, entry' = entry, cached' \in {0, cached, KeyAtHand},
         job'.at \notin WriteStage \ {"key"}
  PROVE  KeyInv'
<1>1. OneKey'
  BY DEF KeyInv, OneKey
<1>2. KeysAgree'
  BY DEF KeyInv, KeysAgree, KeyAtHand
<1>3. TmpIsNew' /\ CopiesMain'
  BY StageNames DEF TmpIsNew, CopiesMain
<1> QED
  BY <1>1, <1>2, <1>3 DEF KeyInv

LEMMA KeyStep ==
  ASSUME TypeOK, Shape, KeyInv, [Next]_vars
  PROVE  KeyInv'
<1>1. CASE StaysPut
  BY <1>1 DEF StaysPut, KeyInv, OneKey, KeysAgree, TmpIsNew, CopiesMain, NewBlob
<1>2. CASE LeavesFiles
  BY <1>2, SameKeys DEF LeavesFiles
<1>3. CASE Flushes
  <2>1. job'.at \notin WriteStage \ {"key"}
    BY <1>3, StageNames DEF Flushes
  <2> QED
    BY <1>3, <2>1, SameKeys DEF Flushes
<1>4. CASE Migrates
  BY <1>4, SameKeys, StageNames DEF Migrates
<1>5. CASE Marks
  BY <1>5, SameKeys, StageNames DEF Marks
<1>6. CASE Move
  <2>1. \A d \in Dir, n \in FileName :
          files'[d][n] = Nothing \/ \E e \in Dir : files'[d][n] = files[e][n]
    BY <1>6, MoveResult, Names
  <2>2. OneKey'
    BY <1>6, <2>1, MoveResult, Names DEF KeyInv, OneKey
  <2> QED
    BY <1>6, <2>2, MoveResult, StageNames DEF KeyInv, KeysAgree, TmpIsNew, CopiesMain
<1>7. ASSUME NEW s \in Sender, DeferSave(s) \/ StartSave(s) PROVE KeyInv'
  <2>1. files' = files /\ entry' = entry /\ cached' = cached
    BY <1>7 DEF DeferSave, StartSave, diskVars, procVars
  <2>2. DeferSave(s) => job'.at = "idle"
    BY DEF DeferSave, NoJob
  <2>3. StartSave(s) => job'.at = "key"
    BY DEF StartSave, NoJob
  <2> QED
    BY <1>7, <2>1, <2>2, <2>3, SameKeys, StageNames
<1>9. CASE ObtainKey
  <2>1. job' = [job EXCEPT !.at = "create"] /\ files' = files
    BY <1>9 DEF ObtainKey
  <2>2. job'.at = "create"
    BY <2>1, JobFields
  <2>3. CASE KeyAtHand # 0 /\ cached' = KeyAtHand /\ entry' = entry
    BY <2>1, <2>2, <2>3, StageNames DEF KeyInv, OneKey, KeysAgree, TmpIsNew, CopiesMain, KeyAtHand
  <2>4. CASE KeyAtHand = 0 /\ MayCreateKey /\ entry' = keys + 1 /\ cached' = keys + 1
    <3>1. \A d \in Dir : files[d]["main"] = Nothing /\ files[d]["bak"] = Nothing
      BY <2>4 DEF MayCreateKey, AnyCommitted, CommittedIn
    <3>2. keys + 1 # 0
      BY DEF TypeOK
    <3> QED
      BY <2>1, <2>2, <2>4, <3>1, <3>2, StageNames DEF KeyInv, OneKey, KeysAgree, TmpIsNew, CopiesMain
  <2> QED
    BY <1>9, <2>3, <2>4 DEF ObtainKey
<1>10. CASE Fails
  BY <1>10, FailsResult, SameKeys, StageNames
<1>11. CASE Writes
  <2>1. job.at \in WriteStage \ {"key"} /\ job.to \in Account /\ job.to \in Dir
    BY <1>11, FileSteps, NewBlobType, StageNames, Names DEF Writes
  <2>2. entry' = entry /\ cached' = cached
    BY <1>11 DEF Writes, CreateTmp, SyncTmp, CopyToBak, SyncBak, WriteStep, procVars
  <2>3. cached # 0 /\ KeysAgree'
    BY <2>1, <2>2 DEF KeyInv, KeysAgree
  <2>4. NewBlob' = NewBlob
    BY <1>11, <2>2, FileSteps DEF Writes, NewBlob
  <2>5. \A d \in Dir, n \in {"main", "bak"} :
          files'[d][n] \in {files[d][n], files[d]["main"], Unreadable}
    BY <1>11, <2>1, FileSteps, Names DEF Writes
  <2>6. OneKey'
    BY <2>2, <2>5 DEF KeyInv, OneKey
  <2>7. TmpIsNew' /\ CopiesMain'
    BY <1>11, <2>1, <2>4, FileSteps DEF Writes, KeyInv, TmpIsNew, CopiesMain
  <2> QED
    BY <2>3, <2>6, <2>7 DEF KeyInv
<1>12. CASE RenameTmp
  <2>1. job.at \in WriteStage \ {"key"} /\ job.to \in Account /\ job.to \in Dir
    BY <1>12, NewBlobType, StageNames, Names DEF RenameTmp
  <2>2. entry' = entry /\ cached' = cached /\ cached # 0
    BY <1>12, <2>1 DEF RenameTmp, KeyInv, KeysAgree
  <2>3. job'.at \in {"idle", "read", "done"}
    BY <1>12, <2>1, WriteEndsResult DEF RenameTmp
  <2>4. files[job.to]["tmp"] = NewBlob /\ NewBlob.key = cached
    BY <1>12 DEF RenameTmp, KeyInv, TmpIsNew, CopiesMain, NewBlob
  <2>5. entry # 0 => entry = cached
    BY <2>2 DEF KeyInv, KeysAgree
  <2>6. OneKey'
    BY <1>12, <2>1, <2>2, <2>4, <2>5, RenameResult, Names DEF KeyInv, OneKey
  <2>7. KeysAgree' /\ TmpIsNew' /\ CopiesMain'
    BY <2>2, <2>3, StageNames DEF KeyInv, KeysAgree, TmpIsNew, CopiesMain
  <2> QED
    BY <2>6, <2>7 DEF KeyInv
<1>13. CASE ForgetKey
  BY <1>13 DEF ForgetKey, procVars, KeyInv, OneKey, KeysAgree, TmpIsNew, CopiesMain, NewBlob
<1> QED
  BY <1>1, <1>2, <1>3, <1>4, <1>5, <1>6, <1>7, <1>9, <1>10, <1>11, <1>12, <1>13, StepKinds

\* Whatever fails or is restarted while a key is created, used or looked for: the
\* key in the keyring opens every committed file of every account, the legacy one
\* included.
THEOREM OneKeyAlways == Spec => []OneKey
<1>1. Init => KeyInv
  BY KeyInit
<1>2. TypeOK /\ Shape /\ KeyInv /\ [Next]_vars => KeyInv'
  BY KeyStep
<1>3. KeyInv => OneKey
  BY DEF KeyInv
<1> QED
  BY <1>1, <1>2, <1>3, StoreTypeCorrect, PTL DEF Spec

-----------------------------------------------------------------------------
(* The legacy state waits untouched until a migration moves it.              *)

\* No fault makes a migration pass over a legacy state.
MigrationFinds == LegacyOwner # Nobody => Faults \cap {"keyring", "marker"} = {}

\* The key is gone although states were committed; nothing is written or read
\* any more, and no migration finds anything.
Lost == entry = 0 /\ AnyCommitted

LEMMA ApartInit == Init => LegacyApart
<1> SUFFICES ASSUME Init PROVE LegacyApart
  OBVIOUS
<1>1. CASE LegacyOwner = Nobody
  BY <1>1, Names DEF Init, LegacyApart, Waits, NoJob, NoFiles
<1>2. CASE LegacyOwner # Nobody
  <2>1. PICK fs \in LegacyFiles : files = [d \in Dir |-> IF d = Root THEN fs ELSE NoFiles]
    BY <1>2 DEF Init
  <2>2. PICK b \in {Nothing, Unreadable, [key |-> 1, of |-> LegacyOwner, has |-> {1}]},
             t \in {Nothing, Unreadable} :
          fs = [main |-> [key |-> 1, of |-> LegacyOwner, has |-> {1, 2}], bak |-> b, tmp |-> t]
    BY <2>1 DEF LegacyFiles
  <2>3. LegacyOwner \in Account /\ LegacyOwner # Root /\ LegacyOwner \in Dir
    BY <1>2, AccountAssumption, Names, Apart
  <2>4. [key |-> 1, of |-> LegacyOwner, has |-> {1, 2}] \in Blob
    BY <1>2, <2>3, BoundAssumption DEF Blob, Update
  <2>5. /\ files[Root]["main"] \in Blob /\ files[Root]["tmp"] \in {Nothing, Unreadable}
        /\ files[LegacyOwner] = NoFiles
    BY <2>1, <2>2, <2>3, <2>4, Names
  <2>6. files[Root]["main"] \notin {Nothing, Unreadable}
    BY <2>5, Apart
  <2>7. \A n \in FileName : files[LegacyOwner][n] = Nothing
    BY <2>5 DEF NoFiles
  <2>8. /\ job = NoJob /\ pending = Nothing /\ jsOwner = Nobody /\ migrated = FALSE
        /\ marker = Nobody
    BY DEF Init
  <2>9. ~InUse(LegacyOwner)
    BY <2>3, <2>8, Apart, StageNames DEF InUse, NoJob
  <2> QED
    BY <2>3, <2>5, <2>6, <2>7, <2>8, <2>9, Names DEF LegacyApart, Waits, CommittedIn, NoJob
<1> QED
  BY <1>1, <1>2

\* The webview owns an account's state from a load of that account on.
LEMMA OwnerSteps ==
  ASSUME TypeOK, Shape, [Next]_vars
  PROVE  jsOwner' \in {jsOwner, Nobody} \/ (job.at = "read" /\ jsOwner' = job.dir)
<1>1. CASE UNCHANGED vars
  BY <1>1 DEF vars
<1>2. CASE JobStep
  <2>1. Load => job.at = "read" /\ jsOwner' = job.dir
    BY DEF Load
  <2>2. Finish => jsOwner' \in {jsOwner, Nobody}
    BY DEF Finish, Restarted, procVars
  <2>3. /\ ObtainKey \/ KeyRefused \/ CreateTmp \/ SyncTmp => jsOwner' = jsOwner
        /\ CopyToBak \/ SyncBak \/ RenameTmp => jsOwner' = jsOwner
    BY DEF ObtainKey, KeyRefused, CreateTmp, SyncTmp, CopyToBak, SyncBak, RenameTmp, WriteStep,
           WriteFailed, procVars
  <2>4. Migrate \/ WriteMarker \/ Move \/ MovesDone \/ FindAccount \/ NoAccount \/ LoadFails
          => jsOwner' = jsOwner
    BY DEF Migrate, WriteMarker, Move, MovesDone, FindAccount, NoAccount, LoadFails, procVars
  <2> QED
    BY <1>2, <2>1, <2>2, <2>3, <2>4 DEF JobStep
<1>3. CASE WriteError \/ MoveFails \/ Crash \/ ForgetKey \/ Reload
  BY <1>3 DEF WriteError, WriteFailed, MoveFails, Crash, Restarted, ForgetKey, Reload, procVars
<1>4. CASE \E a \in Account \cup {Nobody} : SignIn(a)
  BY <1>4 DEF SignIn, procVars
<1>5. CASE \E durable \in BOOLEAN : ChangeState(durable)
  BY <1>5 DEF ChangeState, procVars
<1>6. CASE \E s \in Sender : RefuseSave(s) \/ DeferSave(s) \/ ScheduleFlush(s) \/ StartSave(s)
  BY <1>6 DEF RefuseSave, DeferSave, ScheduleFlush, StartSave, procVars
<1>7. CASE BindAccount \/ CreateIdentity \/ SaveAgain
  BY <1>7 DEF BindAccount, CreateIdentity, SaveAgain, procVars
<1>8. CASE TimerFires \/ StartHandOff \/ StartExit \/ StartLoad \/ StartMigration
  BY <1>8 DEF TimerFires, StartHandOff, StartExit, StartLoad, StartMigration, procVars
<1> QED
  BY <1>1, <1>2, <1>3, <1>4, <1>5, <1>6, <1>7, <1>8 DEF Next

\* An account's directory is used only once a load has found that the account is
\* signed in and not blocked.
LEMMA InUseStep ==
  ASSUME TypeOK, Shape, [Next]_vars, NEW a \in Account, ~InUse(a),
         ~(job.at = "account" /\ AccountAvailable /\ session = a)
  PROVE  ~InUse(a)'
<1>0. /\ jsOwner # a /\ (pending # Nothing => pending.dir # a)
      /\ job.at \in WriteStage => job.to # a
      /\ job.at = "read" \/ (job.op = "load" /\ job.at \in WriteStage) => job.dir # a
  BY DEF InUse
<1>1. jsOwner' # a
  BY <1>0, OwnerSteps, Apart
<1> SUFFICES /\ pending' # Nothing => pending'.dir # a
             /\ job'.at \in WriteStage => job'.to # a
             /\ job'.at = "read" \/ (job'.op = "load" /\ job'.at \in WriteStage) => job'.dir # a
  BY <1>1 DEF InUse
<1>2. CASE StaysPut \/ ForgetKey
  BY <1>0, <1>2 DEF StaysPut, ForgetKey, procVars
<1>3. CASE LeavesFiles
  BY <1>0, <1>3 DEF LeavesFiles
<1>4. CASE Flushes
  BY <1>0, <1>4, StageNames DEF Flushes
<1>5. CASE Migrates \/ Marks
  BY <1>0, <1>5, StageNames DEF Migrates, Marks
<1>6. CASE Move
  BY <1>0, <1>6, MoveResult, StageNames
<1>7. ASSUME NEW s \in Sender, DeferSave(s) \/ StartSave(s)
      PROVE  /\ pending' # Nothing => pending'.dir # a
             /\ job'.at \in WriteStage => job'.to # a
             /\ job'.at = "read" \/ (job'.op = "load" /\ job'.at \in WriteStage) => job'.dir # a
  <2>1. CASE DeferSave(s)
    <3>1. job'.at = "idle" /\ pending'.dir = jsOwner
      BY <2>1 DEF DeferSave, NoJob
    <3> QED
      BY <1>0, <3>1, StageNames
  <2>2. CASE StartSave(s)
    <3>1. job'.at = "key" /\ job'.op = "save" /\ job'.to = jsOwner /\ pending' = pending
      BY <2>2 DEF StartSave, NoJob, procVars
    <3> QED
      BY <1>0, <3>1, StageNames
  <2> QED
    BY <1>7, <2>1, <2>2
<1>8. CASE ObtainKey
  <2>1. job' = [job EXCEPT !.at = "create"] /\ pending' = pending /\ job.at = "key"
    BY <1>8 DEF ObtainKey
  <2>2. job'.at = "create" /\ job'.op = job.op /\ job'.to = job.to /\ job'.dir = job.dir
    BY <2>1, JobFields
  <2> QED
    BY <1>0, <2>1, <2>2, StageNames
<1>9. CASE Writes
  <2>1. job.at \in WriteStage /\ job'.op = job.op /\ job'.to = job.to /\ job'.dir = job.dir
    BY <1>9, FileSteps, StageNames DEF Writes
  <2>2. pending' = pending /\ job'.at # "read"
    BY <1>9, FileSteps DEF Writes, CreateTmp, SyncTmp, CopyToBak, SyncBak, WriteStep, procVars
  <2> QED
    BY <1>0, <2>1, <2>2
<1>10. CASE Fails \/ RenameTmp
  <2>1. PICK ok \in BOOLEAN : WriteEnds(ok)
    BY <1>10 DEF Fails, KeyRefused, WriteError, WriteFailed, RenameTmp
  <2>2. job.at \in WriteStage
    BY <1>10, FailsResult, StageNames DEF RenameTmp
  <2>3. /\ \/ job' = NoJob
           \/ job.op = "load" /\ job' = [job EXCEPT !.at = "read"]
           \/ job.op # "load" /\ job' = [job EXCEPT !.at = "done"]
        /\ pending' \in {Nothing, pending, [dir |-> job.to, st |-> job.st]}
    BY <2>1, <2>2, WriteEndsResult
  <2>4. pending' # Nothing => pending'.dir # a
    BY <1>0, <2>2, <2>3
  <2>5. job'.at \notin WriteStage
    BY <2>1, <2>2, WriteEndsResult, StageNames
  <2>6. job'.at = "read" => job.op = "load" /\ job'.dir = job.dir
    <3>1. CASE job' = NoJob
      <4>1. job'.at = "idle"
        BY <3>1 DEF NoJob
      <4> QED
        BY <4>1
    <3>2. CASE job.op = "load" /\ job' = [job EXCEPT !.at = "read"]
      BY <3>2, JobFields
    <3>3. CASE job.op # "load" /\ job' = [job EXCEPT !.at = "done"]
      <4>1. job'.at = "done"
        BY <3>3, JobFields
      <4> QED
        BY <4>1
    <3> QED
      BY <2>3, <3>1, <3>2, <3>3
  <2> QED
    BY <1>0, <2>2, <2>4, <2>5, <2>6
<1> QED
  BY <1>2, <1>3, <1>4, <1>5, <1>6, <1>7, <1>8, <1>9, <1>10, StepKinds

\* A migration finds a legacy state that waits, and may move it to its owner.
LEMMA FindsLegacy ==
  ASSUME TypeOK, OwnInv, KeyInv, LegacyApart, Waits, entry # 0, NEW k, k = entry
  PROVE  /\ LoadState(files[Root], k) = StateIn(files[Root]["main"])
         /\ LoadState(files[Root], k) \in State
         /\ LoadState(files[Root], k).of = LegacyOwner
         /\ MayMigrateTo(LegacyOwner)
<1>1. files[Root]["main"] \in Blob /\ files[Root]["main"].of = LegacyOwner
  <2>1. files[Root]["main"] \in File /\ files[Root]["main"] \notin {Nothing, Unreadable}
    BY Names DEF TypeOK, LegacyApart, Waits
  <2> QED
    BY <2>1, Names DEF File, OwnInv, FilesOwn, Content
<1>2. Opens(k, files[Root]["main"]) /\ ~Opens(k, files[Root]["tmp"])
  BY <1>1, Names, Apart DEF KeyInv, OneKey, Opens, LegacyApart
<1>3. BestFile(files[Root], k) = "main"
  BY <1>2 DEF BestFile
<1>4. LoadState(files[Root], k) = StateIn(files[Root]["main"])
  BY <1>2, <1>3 DEF LoadState
<1>5. StateIn(files[Root]["main"]) \in State /\ StateIn(files[Root]["main"]).of = LegacyOwner
  BY <1>1 DEF StateIn, State, Blob
<1>6. MayMigrateTo(LegacyOwner)
  BY DEF LegacyApart, MayMigrateTo
<1> QED
  BY <1>4, <1>5, <1>6

\* While it waits, an account is looked for only after a migration was tried, and
\* a migration that ends without moving it blocks its owner.
Guarded(j, tried, block) ==
    /\ j.at \in {"account", "marker", "move"} => tried
    /\ (tried /\ j.at \notin {"marker", "move"}) => block = LegacyOwner

LEMMA GuardedMigration ==
  ASSUME TypeOK, Shape, OwnInv, KeyInv, LegacyApart, Waits, entry # 0, MigrationFinds,
         Migrate \/ WriteMarker \/ Move \/ MoveFails \/ MovesDone
  PROVE  Guarded(job', migrated', blocked')
<1>0. Guarded(job, migrated, blocked) /\ LegacyOwner \in Account
  BY DEF LegacyApart, Guarded
<1>1. CASE Migrate
  <2> DEFINE legacy == LoadState(files[Root], KeyAtHand)
  <2>1. ~Fault("keyring")
    BY <1>0, Apart DEF MigrationFinds, Fault
  <2>2. KeyAtHand = entry
    BY DEF KeyInv, KeysAgree, KeyAtHand
  <2>3. legacy \in State /\ legacy.of = LegacyOwner /\ MayMigrateTo(LegacyOwner)
    BY <2>2, FindsLegacy
  <2>4. legacy \notin {Nothing, Unreadable} /\ MayMigrateTo(legacy.of)
    BY <2>3, Apart
  <2>5. job' = [job EXCEPT !.at = "marker", !.dir = legacy.of] /\ migrated' = TRUE
    BY <1>1, <2>1, <2>4 DEF Migrate
  <2>6. job'.at = "marker"
    BY <2>5 DEF TypeOK, Job
  <2> QED
    BY <2>5, <2>6 DEF Guarded
<1>2. CASE WriteMarker
  <2>1. ~Fault("marker")
    BY <1>0, Apart DEF MigrationFinds, Fault
  <2>2. job' = [job EXCEPT !.at = "move"] /\ migrated' = migrated /\ job.at = "marker"
    BY <1>2, <2>1 DEF WriteMarker, procVars
  <2>3. job'.at = "move"
    BY <2>2, JobFields
  <2> QED
    BY <1>0, <2>2, <2>3 DEF Guarded
<1>3. CASE Move
  BY <1>0, <1>3 DEF Move, procVars
<1>4. CASE MoveFails
  <2>1. blocked' = LegacyOwner /\ migrated' = migrated /\ migrated
    BY <1>0, <1>4 DEF MoveFails, Guarded, OwnInv, JobOwn
  <2> QED
    BY <2>1 DEF Guarded
<1>5. CASE MovesDone
  BY <1>5 DEF MovesDone, Waits, PresentIn, CommittedIn
<1> QED
  BY <1>1, <1>2, <1>3, <1>4, <1>5

\* Steps that have nothing to do with migrations.
LEMMA GuardedElsewhere ==
  ASSUME Guarded(job, migrated, blocked), UNCHANGED <<migrated, blocked>>,
         job.at \notin {"marker", "move"}, job'.at \notin {"account", "marker", "move"}
  PROVE  Guarded(job', migrated', blocked')
BY DEF Guarded

LEMMA GuardedStep ==
  ASSUME TypeOK, Shape, OwnInv, KeyInv, LegacyApart, Waits, entry # 0, MigrationFinds,
         [Next]_vars
  PROVE  Guarded(job', migrated', blocked')
<1>0. Guarded(job, migrated, blocked)
  BY DEF LegacyApart, Guarded
<1> DEFINE free(j) == j.at \notin {"account", "marker", "move"}
<1>1. CASE UNCHANGED <<job, migrated, blocked>>
  BY <1>0, <1>1
<1>2. free(NoJob)
  BY DEF NoJob
<1>3. ASSUME Restarted PROVE Guarded(job', migrated', blocked')
  BY <1>2, <1>3 DEF Restarted, Guarded
<1>4. CASE StartLoad
  <2>1. job'.at = IF migrated THEN "account" ELSE "migrate"
    BY <1>4 DEF StartLoad, NoJob
  <2>2. UNCHANGED <<migrated, blocked>> /\ job = NoJob
    BY <1>4 DEF StartLoad, procVars
  <2> QED
    BY <1>0, <1>2, <2>1, <2>2 DEF Guarded
<1>5. CASE StartMigration \/ \E s \in Sender : StartSave(s)
  <2>1. job'.at \in {"migrate", "key"} /\ job = NoJob /\ UNCHANGED <<migrated, blocked>>
    BY <1>5 DEF StartMigration, StartSave, NoJob, procVars
  <2> QED
    BY <1>0, <1>2, <2>1, GuardedElsewhere
<1>6. CASE TimerFires \/ StartHandOff \/ StartExit \/ FindAccount
  <2>1. UNCHANGED <<migrated, blocked>> /\ (job = NoJob \/ job.at = "account")
    BY <1>6 DEF TimerFires, StartHandOff, StartExit, FindAccount
  <2>2. free(job')
    <3>1. Flushes
      BY <1>6, FlushSteps
    <3>2. PICK next \in Job : FlushThen(next) /\ next.at \in {"done", "read"}
      <4>1. CASE FindAccount
        <5>1. session \in Dir /\ job \in Job
          BY <4>1, Names DEF FindAccount, AccountAvailable, TypeOK
        <5>2. /\ [job EXCEPT !.at = "read", !.dir = session] \in Job
              /\ [job EXCEPT !.at = "read", !.dir = session].at = "read"
          BY <5>1, JobForms, StageNames DEF Job
        <5> QED
          BY <4>1, <5>2 DEF FindAccount
      <4>2. CASE TimerFires \/ StartHandOff \/ StartExit
        <5>1. PICK op \in {"flush", "handoff", "exit"} :
                 FlushThen([NoJob EXCEPT !.op = op, !.at = "done"])
          BY <4>2 DEF TimerFires, StartHandOff, StartExit
        <5>2. /\ [NoJob EXCEPT !.op = op, !.at = "done"] \in Job
              /\ [NoJob EXCEPT !.op = op, !.at = "done"].at = "done"
          BY JobForms, StageNames DEF NoJob
        <5> QED
          BY <5>1, <5>2
      <4> QED
        BY <1>6, <4>1, <4>2
    <3> QED
      BY <3>2, FlushThenResult
  <2> QED
    BY <1>0, <1>2, <2>1, <2>2, GuardedElsewhere
<1>7. CASE NoAccount \/ LoadFails \/ Load
  <2>1. UNCHANGED <<migrated, blocked>> /\ job' = NoJob /\ job.at \in {"account", "read"}
    BY <1>7 DEF NoAccount, LoadFails, Load, procVars
  <2> QED
    BY <1>0, <1>2, <2>1, GuardedElsewhere
<1>8. CASE Finish
  <2>1. CASE job.op = "exit"
    BY <1>3, <1>8, <2>1 DEF Finish
  <2>2. CASE job.op # "exit"
    <3>1. UNCHANGED <<migrated, blocked>> /\ job' = NoJob /\ job.at = "done"
      BY <1>8, <2>2 DEF Finish, procVars
    <3> QED
      BY <1>0, <1>2, <3>1, GuardedElsewhere
  <2> QED
    BY <2>1, <2>2
<1>9. CASE Crash
  BY <1>3, <1>9 DEF Crash
<1>10. CASE ObtainKey \/ Writes
  <2>1. UNCHANGED <<migrated, blocked>> /\ job.at \in WriteStage
    BY <1>10, StageNames DEF ObtainKey, Writes, CreateTmp, SyncTmp, CopyToBak, SyncBak, WriteStep,
                             procVars
  <2>2. job'.at \in WriteStage
    <3>1. CASE ObtainKey
      <4>1. job' = [job EXCEPT !.at = "create"]
        BY <3>1 DEF ObtainKey
      <4>2. job'.at = "create"
        BY <4>1, JobFields
      <4> QED
        BY <4>2, StageNames
    <3>2. CASE Writes
      BY <3>2, FileSteps, StageNames DEF Writes
    <3> QED
      BY <1>10, <3>1, <3>2
  <2>3. job.at \notin {"marker", "move"} /\ free(job')
    BY <2>1, <2>2, StageNames
  <2> QED
    BY <1>0, <2>1, <2>3, GuardedElsewhere
<1>11. CASE Fails \/ RenameTmp
  <2>1. PICK ok \in BOOLEAN : WriteEnds(ok)
    BY <1>11 DEF Fails, KeyRefused, WriteError, WriteFailed, RenameTmp
  <2>2. job.at \in WriteStage /\ UNCHANGED <<migrated, blocked>>
    BY <1>11, StageNames DEF Fails, KeyRefused, WriteError, WriteFailed, RenameTmp
  <2>3. job.at \notin {"marker", "move"} /\ free(job')
    BY <2>1, <2>2, WriteEndsResult, StageNames
  <2> QED
    BY <1>0, <2>2, <2>3, GuardedElsewhere
<1>12. CASE ForgetKey \/ Reload \/ \E a \in Account \cup {Nobody} : SignIn(a)
  BY <1>1, <1>12 DEF ForgetKey, Reload, SignIn, procVars
<1>13. CASE BindAccount \/ CreateIdentity \/ SaveAgain \/ \E durable \in BOOLEAN : ChangeState(durable)
  BY <1>1, <1>13 DEF BindAccount, CreateIdentity, SaveAgain, ChangeState, procVars
<1>14. CASE \E s \in Sender : RefuseSave(s) \/ DeferSave(s) \/ ScheduleFlush(s)
  BY <1>1, <1>14 DEF RefuseSave, DeferSave, ScheduleFlush, procVars
<1>15. CASE UNCHANGED vars
  BY <1>1, <1>15 DEF vars
<1> QED
  BY <1>4, <1>5, <1>6, <1>7, <1>8, <1>9, <1>10, <1>11, <1>12, <1>13, <1>14, <1>15,
     GuardedMigration DEF Next, JobStep, Fails, Writes

\* Apart from a move, files change only where something is written, and the marker
\* only at the step that writes it.
LEMMA ElsewhereSteps ==
  ASSUME TypeOK, Shape, [Next]_vars, ~Move
  PROVE  /\ \A d \in Dir, n \in FileName :
              files'[d][n] = files[d][n] \/ (job.at \in WriteStage /\ d = job.to)
         /\ marker' = marker \/ (job.at = "marker" /\ marker' = job.dir)
         /\ job'.at = "move" => job' = job \/ (job.at = "marker" /\ marker' = job.dir)
         /\ job'.at = "marker" => job' = job \/ Migrates
<1>1. CASE StaysPut \/ ForgetKey
  BY <1>1 DEF StaysPut, ForgetKey, procVars
<1>2. CASE LeavesFiles \/ Flushes \/ Migrates \/ Marks
  BY <1>2, StageNames DEF LeavesFiles, Flushes, Migrates, Marks
<1>3. CASE \E s \in Sender : DeferSave(s) \/ StartSave(s)
  <2>1. PICK s \in Sender : DeferSave(s) \/ StartSave(s)
    BY <1>3
  <2>2. UNCHANGED <<files, marker>>
    BY <2>1 DEF DeferSave, StartSave, diskVars
  <2>3. job'.at \in {"idle", "key"}
    <3>1. DeferSave(s) => job'.at = "idle"
      BY DEF DeferSave, NoJob
    <3>2. StartSave(s) => job'.at = "key"
      BY DEF StartSave, NoJob
    <3> QED
      BY <2>1, <3>1, <3>2
  <2> QED
    BY <2>2, <2>3
<1>4. CASE ObtainKey
  <2>1. UNCHANGED <<files, marker>> /\ job'.at = "create"
    BY <1>4, JobFields DEF ObtainKey
  <2> QED
    BY <2>1
<1>5. CASE Fails
  BY <1>5, FailsResult
<1>6. CASE Writes
  <2>1. marker' = marker /\ job.at \in WriteStage /\ job'.at \notin {"marker", "move"}
    BY <1>6, FileSteps, StageNames DEF Writes, CreateTmp, SyncTmp, CopyToBak, SyncBak, WriteStep
  <2> QED
    BY <1>6, <2>1, FileSteps DEF Writes
<1>7. CASE RenameTmp
  <2>1. marker' = marker /\ job.at \in WriteStage
    BY <1>7, StageNames DEF RenameTmp
  <2>2. job'.at \in {"idle", "read", "done"}
    BY <1>7, <2>1, WriteEndsResult DEF RenameTmp
  <2> QED
    BY <1>7, <2>1, <2>2, RenameResult
<1> QED
  BY <1>1, <1>2, <1>3, <1>4, <1>5, <1>6, <1>7, StepKinds

LEMMA ApartStep ==
  ASSUME TypeOK, Shape, OwnInv, KeyInv, LegacyApart, MigrationFinds,
         LegacyOwner # Nobody => ~Lost, [Next]_vars
  PROVE  LegacyApart'
<1>1. CASE ~Waits
  <2>1. files[Root] = NoFiles /\ job.at # "marker"
    BY <1>1 DEF LegacyApart
  <2>2. \A n \in FileName : files[Root][n] = Nothing
    BY <2>1 DEF NoFiles
  <2>3. ~Move
    BY <2>2, Names DEF Move, PresentIn, CommittedIn
  <2>4. \A n \in FileName : files'[Root][n] = Nothing
    BY <2>2, <2>3, ElsewhereSteps, Names, Apart DEF Shape, JobShape
  <2>5. files' \in [Dir -> [FileName -> File]]
    BY NextType DEF TypeOK
  <2>6. files'[Root] = NoFiles
    BY <2>4, <2>5, Names DEF NoFiles
  <2>7. LoadState(files[Root], KeyAtHand) = Nothing
    <3>1. BestFile(files[Root], KeyAtHand) = "main"
      BY <2>2, Names DEF BestFile, Opens
    <3> QED
      BY <2>2, <3>1, Names DEF LoadState, Opens, CommittedIn
  <2>8. job'.at # "marker"
    BY <2>1, <2>3, <2>7, ElsewhereSteps DEF Migrates
  <2> QED
    BY <2>4, <2>6, <2>8, Names DEF LegacyApart, Waits
<1>2. CASE Waits
  <2>1. /\ LegacyOwner \in Account /\ ~InUse(LegacyOwner)
        /\ files[Root]["main"] # Unreadable
        /\ files[Root]["tmp"] \in {Nothing, Unreadable}
        /\ files[LegacyOwner]["main"] = Nothing
        /\ files[LegacyOwner]["tmp"] \in {Nothing, Unreadable}
        /\ marker \in {Nobody, LegacyOwner}
        /\ (CommittedIn(files[LegacyOwner]) \/ job.at = "move") => marker = LegacyOwner
        /\ job.at \in {"account", "marker", "move"} => migrated
        /\ (migrated /\ job.at \notin {"marker", "move"}) => blocked = LegacyOwner
    BY <1>2 DEF LegacyApart
  <2>2. LegacyOwner # Nobody /\ LegacyOwner \in Dir /\ LegacyOwner # Root /\ Root \in Dir
    BY <2>1, Names, Apart
  <2>3. entry # 0
    BY <1>2, <2>2 DEF Waits, Lost, AnyCommitted, CommittedIn
  <2>4. ~InUse(LegacyOwner)'
    <3>1. ~(job.at = "account" /\ AccountAvailable /\ session = LegacyOwner)
      BY <2>1 DEF AccountAvailable
    <3> QED
      BY <2>1, <3>1, InUseStep
  <2>5. Guarded(job', migrated', blocked')
    BY <1>2, <2>3, GuardedStep
  <2>6. CASE ~Move
    <3>1. \A n \in FileName : /\ files'[Root][n] = files[Root][n]
                              /\ files'[LegacyOwner][n] = files[LegacyOwner][n]
      <4>1. job.at \in WriteStage => job.to \notin {Root, LegacyOwner}
        BY <2>1, Apart DEF InUse, Shape, JobShape
      <4> QED
        BY <2>2, <2>6, <4>1, ElsewhereSteps
    <3>2. job.at \in {"marker", "move"} => job.dir = LegacyOwner
      BY DEF OwnInv, JobOwn
    <3>3. /\ marker' \in {marker, LegacyOwner}
          /\ job'.at = "move" => marker' = LegacyOwner
      BY <2>1, <2>6, <3>2, ElsewhereSteps
    <3>4. CommittedIn(files'[LegacyOwner]) => CommittedIn(files[LegacyOwner])
      BY <3>1, Names DEF CommittedIn
    <3>5. (CommittedIn(files'[LegacyOwner]) \/ job'.at = "move") => marker' = LegacyOwner
      BY <2>1, <3>3, <3>4
    <3>6. Waits'
      BY <1>2, <3>1, Names DEF Waits
    <3>7. /\ files'[Root]["main"] # Unreadable
          /\ files'[Root]["tmp"] \in {Nothing, Unreadable}
          /\ files'[LegacyOwner]["main"] = Nothing
          /\ files'[LegacyOwner]["tmp"] \in {Nothing, Unreadable}
      BY <2>1, <3>1, Names
    <3> QED
      BY <2>1, <2>4, <2>5, <3>3, <3>5, <3>6, <3>7 DEF LegacyApart, Guarded
  <2>7. CASE Move
    <3>1. /\ job' = job /\ job.at = "move" /\ job.dir = LegacyOwner /\ marker' = marker
          /\ marker = LegacyOwner
      BY <2>1, <2>7, MoveResult DEF OwnInv, JobOwn
    <3>2. PICK n \in FileName :
            /\ files[Root][n] # Nothing
            /\ n = "main" => files[Root]["tmp"] = Nothing /\ files[Root]["bak"] = Nothing
            /\ files'[Root][n] = Nothing /\ files'[LegacyOwner][n] = files[Root][n]
            /\ \A d \in Dir, m \in FileName :
                 (m # n \/ d \notin {Root, LegacyOwner}) => files'[d][m] = files[d][m]
      BY <2>7, <3>1, MoveResult
    <3>3. CASE n = "main"
      <4>1. \A m \in FileName : files'[Root][m] = Nothing
        BY <2>2, <3>2, <3>3 DEF FileName
      <4>2. files' \in [Dir -> [FileName -> File]]
        BY NextType DEF TypeOK
      <4>3. files'[Root] = NoFiles
        BY <2>2, <4>1, <4>2 DEF NoFiles
      <4> QED
        BY <3>1, <4>1, <4>3, Names DEF LegacyApart, Waits
    <3>4. CASE n # "main"
      <4>1. /\ files'[Root]["main"] = files[Root]["main"]
            /\ files'[Root]["tmp"] \in {Nothing, Unreadable}
            /\ files'[LegacyOwner]["main"] = Nothing
            /\ files'[LegacyOwner]["tmp"] \in {Nothing, Unreadable}
        BY <2>1, <2>2, <3>2, <3>4, Names
      <4> QED
        BY <1>2, <2>1, <2>4, <2>5, <3>1, <4>1 DEF LegacyApart, Guarded, Waits
    <3> QED
      BY <3>3, <3>4
  <2> QED
    BY <2>6, <2>7
<1> QED
  BY <1>1, <1>2

\* The key that is gone stays gone, for no committed file is taken away.
LEMMA LostStays ==
  ASSUME TypeOK, Shape, KeyInv, [Next]_vars, Lost
  PROVE  Lost'
<1>0. PICK d \in Dir : CommittedIn(files[d])
  BY DEF Lost, AnyCommitted
<1>1. CASE files' = files /\ entry' \in {0, entry}
  BY <1>1 DEF Lost, AnyCommitted
<1>2. CASE StaysPut \/ LeavesFiles \/ Flushes \/ Migrates \/ Marks \/ Fails
  BY <1>1, <1>2, FailsResult DEF StaysPut, LeavesFiles, Flushes, Migrates, Marks
<1>3. CASE Move
  <2>1. PICK n \in FileName : 
          /\ files[Root][n] # Nothing /\ files'[job.dir][n] = files[Root][n]
          /\ \A e \in Dir, m \in FileName :
               (m # n \/ e \notin {Root, job.dir}) => files'[e][m] = files[e][m]
    BY <1>3, MoveResult
  <2>2. job.dir \in Dir /\ entry' = entry
    BY <1>3, MoveResult, Names
  <2>3. PICK m \in {"main", "bak"} : files[d][m] # Nothing
    BY <1>0 DEF CommittedIn
  <2>4. files'[d][m] # Nothing \/ files'[job.dir][m] # Nothing
    BY <2>1, <2>3, Names
  <2>5. CommittedIn(files'[d]) \/ CommittedIn(files'[job.dir])
    BY <2>3, <2>4 DEF CommittedIn
  <2> QED
    BY <2>2, <2>5 DEF Lost, AnyCommitted
<1>4. CASE \E s \in Sender : DeferSave(s) \/ StartSave(s)
  BY <1>1, <1>4 DEF DeferSave, StartSave, diskVars
<1>5. CASE ForgetKey
  BY <1>1, <1>5 DEF ForgetKey
<1>6. CASE ObtainKey
  BY <1>1, <1>6 DEF ObtainKey, MayCreateKey, Lost
<1>7. CASE Writes
  <2>1. entry' = entry
    BY <1>7 DEF Writes, CreateTmp, SyncTmp, CopyToBak, SyncBak, WriteStep
  <2>2. CommittedIn(files'[d])
    <3>1. job.at \in {"copy", "copied"} => files[job.to]["main"] # Nothing
      BY DEF KeyInv, CopiesMain
    <3>2. CASE d # job.to
      BY <1>0, <1>7, <3>2, FileSteps, Names DEF Writes, CommittedIn
    <3>3. CASE d = job.to
      BY <1>0, <1>7, <3>1, <3>3, FileSteps DEF Writes, CommittedIn
    <3> QED
      BY <3>2, <3>3
  <2> QED
    BY <2>1, <2>2 DEF Lost, AnyCommitted
<1>8. CASE RenameTmp
  <2>1. entry' = entry /\ job.at \in WriteStage
    BY <1>8, StageNames DEF RenameTmp
  <2>2. NewBlob # Nothing
    BY <2>1, NewBlobType, Apart
  <2>3. files'[job.to]["main"] # Nothing
    BY <1>8, <2>2, RenameResult DEF RenameTmp, KeyInv, TmpIsNew
  <2>4. CommittedIn(files'[d])
    BY <1>0, <1>8, <2>3, RenameResult DEF CommittedIn
  <2> QED
    BY <2>1, <2>4 DEF Lost, AnyCommitted
<1> QED
  BY <1>2, <1>3, <1>4, <1>5, <1>6, <1>7, <1>8, StepKinds

-----------------------------------------------------------------------------
(* What was confirmed stays on disk.                                        *)

SafeInv ==
    /\ OwnInv /\ KeyInv /\ LegacyApart /\ FilesHoldAcked /\ WritesFit
    /\ JobsInOrder /\ CallsInOrder /\ PageFits

\* A finished write confirms nothing, or the state it wrote.
LEMMA RenameConfirms ==
  ASSUME TypeOK, Shape, SafeInv, RenameTmp
  PROVE  /\ job.at \in WriteStage /\ job.to \in Account /\ job.st \in State
         /\ job.st.of = job.to /\ acked[job.to] \subseteq job.st.has
         /\ \A a \in Account \ {job.to} : acked'[a] = acked[a]
         /\ acked'[job.to] \subseteq job.st.has
         /\ job.op # "save" => acked' = acked
<1>1. job.at \in WriteStage
  BY StageNames DEF RenameTmp
<1>2. /\ job.to \in Account /\ job.st \in State /\ job.st.of = job.to
      /\ acked[job.to] \subseteq job.st.has
  BY <1>1, NewBlobType DEF SafeInv, WritesFit, Fits
<1>3. CASE job.op # "save"
  BY <1>1, <1>2, <1>3 DEF RenameTmp, ghostVars
<1>4. CASE job.op = "save"
  <2>1. Confirm(job.from) /\ job.from \in Sender /\ req[job.from].st = job.st
    BY <1>4 DEF RenameTmp, SafeInv, JobsInOrder, TypeOK, Job
  <2>2. acked' = acked \/ acked' = [acked EXCEPT ![job.to] = @ \cup job.st.has]
    BY <1>2, <2>1 DEF Confirm
  <2> QED
    BY <1>1, <1>2, <1>4, <2>2 DEF TypeOK
<1> QED
  BY <1>3, <1>4

\* Steps that leave files and confirmed states alone.
LEMMA SameFilesHold ==
  ASSUME FilesHoldAcked, files' = files, acked' = acked, entry' \in {0, entry},
         cached' \in {0, cached, KeyAtHand}
  PROVE  FilesHoldAcked'
BY DEF FilesHoldAcked, MainOf, KeyAtHand

\* Whatever is written goes to a directory that no legacy main file waits for ...
LEMMA InUseSettled ==
  ASSUME TypeOK, LegacyApart, NEW a \in Account, InUse(a)
  PROVE  MainOf(files, a) = files[a]["main"] /\ ~(a = LegacyOwner /\ Waits)
BY DEF LegacyApart, Waits, MainOf

\* ... and a move leaves every account with the main file it had.
LEMMA MoveKeepsMain ==
  ASSUME TypeOK, Shape, OwnInv, LegacyApart, Move
  PROVE  /\ \A a \in Account : /\ MainOf(files', a) = MainOf(files, a)
                              /\ files'[a]["tmp"] \in {files[a]["tmp"], Nothing, Unreadable}
         /\ UNCHANGED <<entry, cached, pending, acked, job>> /\ job.at = "move"
<1>1. /\ job.dir = LegacyOwner /\ LegacyOwner \in Account /\ LegacyOwner \in Dir
      /\ LegacyOwner # Root /\ Root \in Dir
      /\ UNCHANGED <<entry, cached, pending, acked, job>> /\ job.at = "move"
  BY MoveResult, Names, Apart DEF OwnInv, JobOwn
<1>2. PICK n \in FileName :
        /\ files[Root][n] # Nothing
        /\ n = "main" => files[Root]["tmp"] = Nothing /\ files[Root]["bak"] = Nothing
        /\ files'[Root][n] = Nothing /\ files'[LegacyOwner][n] = files[Root][n]
        /\ \A d \in Dir, m \in FileName :
             (m # n \/ d \notin {Root, LegacyOwner}) => files'[d][m] = files[d][m]
  BY <1>1, MoveResult
<1>3. Waits
  BY <1>2 DEF LegacyApart, NoFiles
<1>4. files[Root]["tmp"] \in {Nothing, Unreadable} /\ files[Root]["main"] # Nothing
  BY <1>3 DEF LegacyApart, Waits
<1>5. SUFFICES ASSUME NEW a \in Account
               PROVE  /\ MainOf(files', a) = MainOf(files, a)
                      /\ files'[a]["tmp"] \in {files[a]["tmp"], Nothing, Unreadable}
  BY <1>1
<1>6. CASE a # LegacyOwner
  BY <1>1, <1>2, <1>6, Names, Apart DEF MainOf
<1>7. CASE a = LegacyOwner
  <2>1. files'[a]["tmp"] \in {files[a]["tmp"], Nothing, Unreadable}
    BY <1>1, <1>2, <1>4, <1>7, Names
  <2>2. MainOf(files', a) = files[Root]["main"]
    BY <1>1, <1>2, <1>4, <1>7, Names DEF MainOf
  <2> QED
    BY <1>4, <1>7, <2>1, <2>2 DEF MainOf
<1> QED
  BY <1>6, <1>7

LEMMA FilesHoldStep ==
  ASSUME TypeOK, Shape, SafeInv, [Next]_vars
  PROVE  FilesHoldAcked'
<1>0. FilesHoldAcked
  BY DEF SafeInv
<1>1. CASE StaysPut \/ LeavesFiles \/ Flushes \/ Migrates \/ Marks
  BY <1>0, <1>1, SameFilesHold DEF StaysPut, LeavesFiles, Flushes, Migrates, Marks
<1>2. CASE Move
  BY <1>0, <1>2, MoveKeepsMain DEF SafeInv, FilesHoldAcked
<1>3. CASE \E s \in Sender : DeferSave(s) \/ StartSave(s)
  BY <1>0, <1>3, SameFilesHold DEF DeferSave, StartSave, diskVars, procVars, ghostVars
<1>4. CASE ForgetKey \/ Fails
  BY <1>0, <1>4, SameFilesHold, FailsResult DEF ForgetKey, procVars, ghostVars
<1>5. CASE ObtainKey
  <2>1. files' = files /\ acked' = acked
    BY <1>5 DEF ObtainKey, ghostVars
  <2>2. CASE cached' = KeyAtHand /\ entry' = entry
    BY <1>0, <2>1, <2>2, SameFilesHold
  <2>3. CASE KeyAtHand = 0 /\ MayCreateKey
    <3>1. \A a \in Account : MainOf(files, a) = Nothing
      BY <2>3, Names DEF MayCreateKey, AnyCommitted, CommittedIn, MainOf
    <3>2. \A a \in Account : MainOf(files', a) = Nothing
      BY <2>1, <3>1
    <3> QED
      BY <1>0, <2>1, <3>1, <3>2 DEF FilesHoldAcked
  <2> QED
    BY <1>5, <2>2, <2>3 DEF ObtainKey
<1>6. CASE Writes
  <2>1. job.at \in WriteStage
    BY <1>6, FileSteps, StageNames DEF Writes
  <2>2. job.to \in Account /\ acked[job.to] \subseteq NewBlob.has
    BY <2>1, NewBlobType DEF SafeInv, WritesFit, Fits, NewBlob
  <2>3. UNCHANGED <<entry, cached, acked>>
    BY <1>6 DEF Writes, CreateTmp, SyncTmp, CopyToBak, SyncBak, WriteStep, procVars, ghostVars
  <2>4. \A a \in Account :
          /\ MainOf(files', a) = MainOf(files, a)
          /\ \/ files'[a]["tmp"] \in {files[a]["tmp"], Unreadable}
             \/ a = job.to /\ files'[a]["tmp"] = NewBlob
    <3>1. \A a \in Account : /\ files'[a]["main"] = files[a]["main"]
                             /\ \/ files'[a]["tmp"] \in {files[a]["tmp"], Unreadable}
                                \/ a = job.to /\ files'[a]["tmp"] = NewBlob
      BY <1>6, <2>2, FileSteps, Names DEF Writes
    <3>2. files'[Root]["main"] = files[Root]["main"]
      BY <1>6, <2>2, FileSteps, Names, Apart DEF Writes
    <3> QED
      BY <3>1, <3>2 DEF MainOf
  <2> QED
    BY <1>0, <2>2, <2>3, <2>4 DEF FilesHoldAcked
<1>7. CASE RenameTmp
  <2>1. /\ job.at \in WriteStage /\ job.to \in Account
        /\ \A a \in Account \ {job.to} : acked'[a] = acked[a]
        /\ acked'[job.to] \subseteq NewBlob.has
    BY <1>7, RenameConfirms DEF NewBlob
  <2>2. /\ files'[job.to]["main"] = NewBlob /\ files'[job.to]["tmp"] = Nothing
        /\ \A a \in Account \ {job.to} : files'[a] = files[a]
    BY <1>7, RenameResult, Names DEF RenameTmp, SafeInv, KeyInv, TmpIsNew
  <2>5. /\ MainOf(files', job.to) = NewBlob
        /\ \A a \in Account \ {job.to} : MainOf(files', a) = MainOf(files, a)
    <3>1. InUse(job.to)
      BY <2>1 DEF InUse
    <3>2. ~(job.to = LegacyOwner /\ Waits)
      BY <2>1, <3>1, InUseSettled DEF SafeInv
    <3>3. files'[Root] = files[Root]
      BY <1>7, <2>1, RenameResult, Names, Apart
    <3> QED
      BY <2>1, <2>2, <3>2, <3>3 DEF MainOf, Waits
  <2>3. NewBlob # Nothing /\ NewBlob # Unreadable /\ NewBlob.key = cached
    BY <2>1, NewBlobType, Apart DEF NewBlob
  <2>4. entry' = entry /\ cached' = cached /\ (entry # 0 => entry = cached)
    BY <1>7, StageNames DEF RenameTmp, SafeInv, KeyInv, KeysAgree
  <2> QED
    BY <1>0, <2>1, <2>2, <2>3, <2>4, <2>5 DEF FilesHoldAcked
<1> QED
  BY <1>1, <1>2, <1>3, <1>4, <1>5, <1>6, <1>7, StepKinds

\* What is still to be written includes what was confirmed, save for what the
\* types and the other invariants say of it.
PendingFits == pending # Nothing => Fits(pending.st)
WriteFits ==
    job.at \in WriteStage =>
        /\ Fits(job.st)
        /\ job.at \in {"copy", "copied"} => files[job.to]["main"] # Nothing

LEMMA WritesFitParts ==
  ASSUME TypeOK, Shape, OwnInv, KeyInv, PendingFits, WriteFits
  PROVE  WritesFit
BY DEF WritesFit, PendingFits, WriteFits, OwnInv, JobOwn, KeyInv, TmpIsNew, Shape, JobShape

LEMMA FitsStep ==
  ASSUME TypeOK, Shape, SafeInv, [Next]_vars
  PROVE  PendingFits' /\ WriteFits'
<1>0. /\ pending # Nothing => acked[pending.st.of] \subseteq pending.st.has
      /\ job.at \in WriteStage => acked[job.st.of] \subseteq job.st.has
      /\ job.at \in {"copy", "copied"} => files[job.to]["main"] # Nothing
  BY StageNames DEF SafeInv, WritesFit, Fits
<1>1. CASE StaysPut
  BY <1>0, <1>1 DEF StaysPut, PendingFits, WriteFits, Fits
<1>2. CASE LeavesFiles \/ Flushes \/ Migrates
  BY <1>0, <1>2, StageNames DEF LeavesFiles, Flushes, Migrates, PendingFits, WriteFits, Fits
<1>3. CASE Marks \/ Move
  <2>1. pending' = pending /\ acked' = acked /\ job'.at = "move"
    BY <1>3, MoveResult DEF Marks
  <2> QED
    BY <1>0, <2>1, StageNames DEF PendingFits, WriteFits, Fits
<1>4. ASSUME NEW s \in Sender, DeferSave(s) PROVE PendingFits' /\ WriteFits'
  <2>1. /\ UNCHANGED <<files, job, acked>>
        /\ pending' = [dir |-> jsOwner, st |-> req[s].st]
        /\ req[s].at = "sent" /\ req[s].st.of = jsOwner
    BY <1>4 DEF DeferSave, MayWrite, diskVars
  <2>2. acked[req[s].st.of] \subseteq req[s].st.has
    BY <2>1 DEF SafeInv, CallsInOrder, Fits
  <2> QED
    BY <1>0, <2>1, <2>2 DEF PendingFits, WriteFits, Fits
<1>5. ASSUME NEW s \in Sender, StartSave(s) PROVE PendingFits' /\ WriteFits'
  <2>1. /\ UNCHANGED <<files, pending, acked>>
        /\ job'.at = "key" /\ job'.st = req[s].st
        /\ req[s].at = "sent" /\ req[s].st.of = jsOwner
    BY <1>5 DEF StartSave, MayWrite, diskVars, procVars, ghostVars, NoJob
  <2>2. acked[req[s].st.of] \subseteq req[s].st.has
    BY <2>1 DEF SafeInv, CallsInOrder, Fits
  <2> QED
    BY <1>0, <2>1, <2>2 DEF PendingFits, WriteFits, Fits
<1>6. CASE ObtainKey
  <2>1. UNCHANGED <<files, pending, acked>> /\ job' = [job EXCEPT !.at = "create"]
    BY <1>6 DEF ObtainKey, ghostVars
  <2>2. job'.at = "create" /\ job'.st = job.st
    BY <2>1, JobFields
  <2> QED
    BY <1>0, <1>6, <2>1, <2>2, StageNames DEF ObtainKey, PendingFits, WriteFits, Fits
<1>7. CASE Fails
  BY <1>0, <1>7, FailsResult, StageNames DEF PendingFits, WriteFits, Fits
<1>8. CASE Writes
  <2>1. job.at \in WriteStage /\ job'.st = job.st /\ job'.to = job.to
    BY <1>8, FileSteps, StageNames DEF Writes
  <2>2. UNCHANGED <<pending, acked>>
    BY <1>8 DEF Writes, CreateTmp, SyncTmp, CopyToBak, SyncBak, WriteStep, procVars, ghostVars
  <2>3. job'.at \in {"copy", "copied"} => files'[job.to]["main"] # Nothing
    BY <1>0, <1>8, FileSteps DEF Writes
  <2> QED
    BY <1>0, <2>1, <2>2, <2>3 DEF PendingFits, WriteFits, Fits
<1>9. CASE RenameTmp
  <2>1. job.at \in WriteStage /\ (job.op # "save" => acked' = acked)
    BY <1>9, RenameConfirms
  <2>2. /\ job'.at \in {"idle", "read", "done"}
        /\ pending' = Nothing \/ (job.op # "save" /\ pending' = pending)
    BY <1>9, <2>1, WriteEndsResult DEF RenameTmp
  <2> QED
    BY <1>0, <2>1, <2>2, StageNames DEF PendingFits, WriteFits, Fits
<1>10. CASE ForgetKey
  BY <1>0, <1>10 DEF ForgetKey, procVars, ghostVars, PendingFits, WriteFits, Fits
<1> QED
  BY <1>1, <1>2, <1>3, <1>4, <1>5, <1>6, <1>7, <1>8, <1>9, <1>10, StepKinds

-----------------------------------------------------------------------------
(* The page, its calls and the job.                                         *)

CallInv == JobsInOrder /\ CallsInOrder /\ PageFits

\* At most one call is out. A live one was sent from the state the page still
\* has; with any other the page waits.
LEMMA OneCall ==
  ASSUME SafeInv
  PROVE  /\ \A s, t \in Sender : (req[s].at # "none" /\ req[t].at # "none") => s = t
         /\ \A s \in Sender : req[s].at # "none" => js.at \in {"out", "creating", "ready"}
         /\ (js.at \in {"creating", "ready"}) => req["gone"].at = "none"
         /\ js.at = "fresh" => \A s \in Sender : req[s].at = "none"
         /\ req["gone"].at # "none" => js.at = "out" /\ ~req["gone"].live
BY DEF SafeInv, CallsInOrder, Sender

\* A job that saves has the state its caller sent, and a load has nobody to race.
OrderParts(j, p, r) ==
    /\ j.at = "idle" => j = NoJob
    /\ j.at \in {"account", "read"} => j.op = "load"
    /\ j.op = "load" => p.at \in {"out", "loading"} /\ \A s \in Sender : r[s].at = "none"
    /\ j.op = "save" => j.st = r[j.from].st

LEMMA JobsInOrderParts ==
  ASSUME Shape
  PROVE  JobsInOrder <=> OrderParts(job, js, req)
BY DEF JobsInOrder, OrderParts, Shape, JobShape, CallerWaits

\* When no call is out.
LEMMA NoCall ==
  ASSUME Shape', \A s \in Sender : req'[s].at = "none", js'.at # "creating",
         OrderParts(job', js', req'), PageFits'
  PROVE  CallInv'
<1>1. JobsInOrder'
  BY DEF JobsInOrder, OrderParts, Shape, JobShape, CallerWaits
<1> QED
  BY <1>1, Names DEF CallInv, CallsInOrder

\* The session and the keyring change, and nothing here does.
LEMMA CallsStay ==
  ASSUME SafeInv, UNCHANGED <<job, js, req, acked, jsOwner>>
  PROVE  CallInv'
BY DEF SafeInv, CallInv, JobsInOrder, CallsInOrder, PageFits, Fits, NewBlob

\* Only the job changes.
LEMMA JobAlone ==
  ASSUME SafeInv, Shape', UNCHANGED <<js, req, acked, jsOwner>>, OrderParts(job', js, req)
  PROVE  CallInv'
<1>1. JobsInOrder'
  <2>1. OrderParts(job, js, req)'
    BY DEF OrderParts
  <2> QED
    BY <2>1 DEF JobsInOrder, OrderParts, Shape, JobShape, CallerWaits
<1> QED
  BY <1>1 DEF SafeInv, CallInv, CallsInOrder, PageFits, Fits

LEMMA FlushJobs ==
  ASSUME TypeOK, Shape, SafeInv
  PROVE  /\ TimerFires \/ StartHandOff \/ StartExit => OrderParts(job', js, req)
         /\ FindAccount => OrderParts(job', js, req)
<1>1. ASSUME TimerFires \/ StartHandOff \/ StartExit
      PROVE  OrderParts(job', js, req)
  <2>1. PICK op \in {"flush", "handoff", "exit"} :
           FlushThen([NoJob EXCEPT !.op = op, !.at = "done"])
    BY <1>1 DEF TimerFires, StartHandOff, StartExit
  <2>2. [NoJob EXCEPT !.op = op, !.at = "done"] \in Job
    BY JobForms, StageNames
  <2>3. /\ [NoJob EXCEPT !.op = op, !.at = "done"].at = "done"
        /\ [NoJob EXCEPT !.op = op, !.at = "done"].op = op
    BY DEF NoJob
  <2> QED
    BY <2>1, <2>2, <2>3, FlushThenResult DEF OrderParts
<1>2. ASSUME FindAccount
      PROVE  OrderParts(job', js, req)
  <2> DEFINE next == [job EXCEPT !.at = "read", !.dir = session]
  <2>1. session \in Dir /\ job \in Job
    BY <1>2, Names DEF FindAccount, AccountAvailable, TypeOK
  <2>2. next \in Job
    BY <2>1, JobForms, StageNames
  <2>3. next.at = "read" /\ next.op = job.op
    BY <2>1 DEF Job
  <2>4. job.op = "load" /\ OrderParts(job, js, req)
    BY <1>2, JobsInOrderParts DEF FindAccount, SafeInv, JobsInOrder
  <2>5. FlushThen(next)
    BY <1>2 DEF FindAccount
  <2>6. job'.at \in {"read", "key"} /\ job'.op = "load"
    BY <2>2, <2>3, <2>4, <2>5, FlushThenResult
  <2> QED
    BY <2>4, <2>6 DEF OrderParts
<1> QED
  BY <1>1, <1>2

\* The steps that only move the job on.
LEMMA JobCalls ==
  ASSUME TypeOK, Shape, SafeInv, [Next]_vars,
         \/ TimerFires \/ StartHandOff \/ StartExit \/ FindAccount \/ StartMigration
         \/ ObtainKey \/ Writes \/ Migrate \/ WriteMarker \/ Move \/ MoveFails \/ MovesDone
         \/ \E s \in Sender : StartSave(s)
  PROVE  CallInv'
<1>1. Shape'
  BY NextType
<1>2. OrderParts(job, js, req)
  BY JobsInOrderParts DEF SafeInv
<1>3. CASE TimerFires \/ StartHandOff \/ StartExit \/ FindAccount
  BY <1>1, <1>3, FlushJobs, JobAlone
     DEF TimerFires, StartHandOff, StartExit, FindAccount, pageVars, ghostVars
<1>4. CASE StartMigration
  <2>1. job'.op = "owner" /\ job'.at = "migrate"
    BY <1>4 DEF StartMigration, NoJob
  <2>2. OrderParts(job', js, req)
    BY <2>1 DEF OrderParts
  <2> QED
    BY <1>1, <1>4, <2>2, JobAlone DEF StartMigration, pageVars, procVars, ghostVars
<1>5. CASE ObtainKey \/ Writes
  <2>1. job.at \in WriteStage /\ job'.at \in WriteStage
    <3>1. CASE ObtainKey
      <4>1. job.at = "key" /\ job' = [job EXCEPT !.at = "create"]
        BY <3>1 DEF ObtainKey
      <4>2. job'.at = "create"
        BY <4>1, JobFields
      <4> QED
        BY <4>1, <4>2, StageNames
    <3>2. CASE Writes
      BY <3>2, FileSteps, StageNames DEF Writes
    <3> QED
      BY <1>5, <3>1, <3>2
  <2>2. job'.op = job.op /\ job'.st = job.st /\ job'.from = job.from
    <3>1. CASE ObtainKey
      <4>1. job' = [job EXCEPT !.at = "create"]
        BY <3>1 DEF ObtainKey
      <4> QED
        BY <4>1, JobFields
    <3>2. CASE Writes
      BY <3>2, FileSteps DEF Writes
    <3> QED
      BY <1>5, <3>1, <3>2
  <2>3. UNCHANGED <<js, req, acked, jsOwner>>
    BY <1>5 DEF ObtainKey, Writes, CreateTmp, SyncTmp, CopyToBak, SyncBak, WriteStep,
                pageVars, procVars, ghostVars
  <2>4. OrderParts(job', js, req)
    BY <1>2, <2>1, <2>2, StageNames DEF OrderParts
  <2> QED
    BY <1>1, <2>3, <2>4, JobAlone
<1>6. CASE Migrate \/ WriteMarker \/ Move \/ MoveFails \/ MovesDone
  <2>1. /\ job'.op = job.op /\ job'.st = job.st /\ job'.from = job.from
        /\ job'.at \in {"marker", "move", AfterMigration}
    <3>1. \/ job' = [job EXCEPT !.at = AfterMigration]
          \/ job' = [job EXCEPT !.at = "move"]
          \/ job' = job /\ job.at = "move"
          \/ job' = [job EXCEPT !.at = "marker", !.dir = LoadState(files[Root], KeyAtHand).of]
      BY <1>6 DEF Migrate, WriteMarker, Move, MoveFails, MovesDone
    <3>2. CASE job' = [job EXCEPT !.at = "marker", !.dir = LoadState(files[Root], KeyAtHand).of]
      <4>1. PICK dir : dir = LoadState(files[Root], KeyAtHand).of
        OBVIOUS
      <4> QED
        BY <3>2, <4>1 DEF TypeOK, Job
    <3>3. CASE job' = [job EXCEPT !.at = AfterMigration]
      <4>1. PICK at : at = AfterMigration
        OBVIOUS
      <4> QED
        BY <3>3, <4>1, JobFields
    <3>4. CASE job' = [job EXCEPT !.at = "move"]
      BY <3>4, JobFields
    <3>5. CASE job' = job /\ job.at = "move"
      BY <3>5
    <3> QED
      BY <3>1, <3>2, <3>3, <3>4, <3>5
  <2>2. OrderParts(job', js, req)
    BY <1>2, <2>1 DEF OrderParts, AfterMigration
  <2> QED
    BY <1>1, <1>6, <2>2, JobAlone
       DEF Migrate, WriteMarker, Move, MoveFails, MovesDone, pageVars, procVars, ghostVars
<1>8. ASSUME NEW s \in Sender, StartSave(s) PROVE CallInv'
  <2>1. job'.op = "save" /\ job'.at = "key" /\ job'.st = req[s].st /\ job'.from = s
    BY <1>8 DEF StartSave, NoJob
  <2>2. OrderParts(job', js, req)
    BY <2>1 DEF OrderParts
  <2> QED
    BY <1>1, <1>8, <2>2, JobAlone DEF StartSave, pageVars, procVars, ghostVars
<1> QED
  BY <1>3, <1>4, <1>5, <1>6, <1>8

\* A page sends a state that it goes on with.
Sends(st, durable) ==
    /\ Send(st, durable) /\ js'.mem = st
    /\ \/ js'.at = "ready" /\ js.at = "ready"
       \/ js'.at = "creating" /\ js.at = "fresh" /\ durable
    /\ js'.at = "ready" => Fits(st)
    /\ st.of = jsOwner => Fits(st)

\* A change of state is sent by a page with no other call out; it includes all
\* that was confirmed, as the page's own state does.
LEMMA SendCalls ==
  ASSUME TypeOK, Shape, SafeInv, NEW durable \in BOOLEAN,
         CreateIdentity \/ ChangeState(durable) \/ SaveAgain
  PROVE  CallInv'
<1>0. PICK st, dur : Sends(st, dur)
  <2>1. CASE CreateIdentity
    <3> DEFINE st == [of |-> js.acct, has |-> {made + 1}]
    <3>1. Send(st, TRUE) /\ js' = [js EXCEPT !.at = "creating", !.mem = st] /\ js.at = "fresh"
      BY <2>1 DEF CreateIdentity
    <3>2. js'.at = "creating" /\ js'.mem = st
      BY <3>1 DEF TypeOK, Page
    <3>3. js.acct = jsOwner => acked[js.acct] = {}
      BY <3>1 DEF SafeInv, PageFits
    <3>4. st.of = jsOwner => Fits(st)
      BY <3>3 DEF Fits
    <3>5. Sends(st, TRUE)
      BY <3>1, <3>2, <3>4 DEF Sends
    <3> QED
      BY <3>5
  <2>2. CASE ChangeState(durable)
    <3> DEFINE st == [of |-> js.mem.of, has |-> js.mem.has \cup {made + 1}]
    <3>1. Send(st, durable) /\ js' = [js EXCEPT !.mem = st] /\ js.at = "ready"
      BY <2>2 DEF ChangeState
    <3>2. js'.at = "ready" /\ js'.mem = st
      BY <3>1 DEF TypeOK, Page
    <3>3. Fits(st)
      BY <3>1 DEF SafeInv, PageFits, Fits
    <3>4. Sends(st, durable)
      BY <3>1, <3>2, <3>3 DEF Sends
    <3> QED
      BY <3>4
  <2>3. CASE SaveAgain
    <3>1. Sends(js.mem, TRUE)
      BY <2>3 DEF SaveAgain, SafeInv, PageFits, Sends
    <3> QED
      BY <3>1
  <2> QED
    BY <2>1, <2>2, <2>3
<1>1. /\ Send(st, dur) /\ js'.mem = st
      /\ \/ js'.at = "ready" /\ js.at = "ready"
         \/ js'.at = "creating" /\ js.at = "fresh" /\ dur
      /\ js'.at = "ready" => Fits(st)
      /\ st.of = jsOwner => Fits(st)
  BY <1>0 DEF Sends
<1>2. /\ UNCHANGED <<job, acked, jsOwner>>
      /\ js'.at # "out" /\ js'.at \notin {"fresh", "loading"}
  BY <1>1 DEF CreateIdentity, ChangeState, SaveAgain, procVars, ghostVars
<1>3. \A s \in Sender : req[s].at = "none"
  BY <1>1, OneCall DEF Send, Sender
<1>4. /\ req'["page"] = [at |-> "sent", st |-> st, durable |-> dur, live |-> TRUE]
      /\ req'["gone"] = req["gone"]
  BY <1>1, Names DEF Send, TypeOK
<1>5. Shape'
  BY CreateIdentityType, ChangeStateType, SaveAgainType
<1>6. job.op # "save"
  BY <1>3 DEF Shape, CallerWaits, TypeOK, Job
<1>7. job.op # "load"
  BY <1>1 DEF SafeInv, JobsInOrder
<1>8. JobsInOrder'
  <2>1. OrderParts(job, js, req)
    BY JobsInOrderParts DEF SafeInv
  <2>2. OrderParts(job, js, req)'
    BY <1>2, <1>6, <1>7, <2>1 DEF OrderParts
  <2> QED
    BY <1>5, <2>2 DEF JobsInOrder, OrderParts, Shape, JobShape, CallerWaits
<1>9. CallsInOrder'
  <2>1. st # Nothing /\ (st.of = jsOwner' => acked'[st.of] \subseteq st.has)
    BY <1>1, <1>2, <1>4, <1>5, Names DEF Fits, Shape, CallsShape
  <2> QED
    BY <1>1, <1>2, <1>3, <1>4, <2>1 DEF CallsInOrder, Fits, Sender
<1>10. PageFits'
  BY <1>1, <1>2, <1>4, <1>5 DEF PageFits, Fits, Shape, PageShape
<1> QED
  BY <1>8, <1>9, <1>10 DEF CallInv

\* A call that nobody waits for any more fits whatever else the page does.
LEMMA DeadCalls ==
  ASSUME SafeInv, Shape', UNCHANGED <<acked, jsOwner>>, js'.at = "out",
         \A s \in Sender : req'[s].at # "none" =>
            /\ ~req'[s].live
            /\ \E t \in Sender : req[t].at = req'[s].at /\ req[t].st = req'[s].st,
         req'["gone"].at # "none" => req'["page"].at = "none",
         OrderParts(job', js', req')
  PROVE  CallInv'
<1>1. JobsInOrder'
  BY DEF JobsInOrder, OrderParts, Shape, JobShape, CallerWaits
<1>2. CallsInOrder'
  BY DEF CallsInOrder, SafeInv, Fits, Shape, CallsShape
<1>3. PageFits'
  BY DEF PageFits
<1> QED
  BY <1>1, <1>2, <1>3 DEF CallInv

LEMMA BindAccountCalls ==
  ASSUME TypeOK, Shape, SafeInv, BindAccount
  PROVE  CallInv'
<1>1. js'.at = "out" /\ UNCHANGED <<job, acked, jsOwner>>
  BY DEF BindAccount, NoPage, procVars, ghostVars
<1>2. /\ \A s \in Sender : req'[s].at = req[s].at /\ req'[s].st = req[s].st
      /\ ~req'["page"].live /\ req'["gone"] = req["gone"]
  BY Names DEF BindAccount, TypeOK, Call
<1>3. req["gone"].at # "none" => ~req["gone"].live /\ req["page"].at = "none"
  BY OneCall, Names
<1>4. Shape'
  BY BindAccountType
<1>5. OrderParts(job', js', req')
  <2>1. OrderParts(job, js, req)
    BY JobsInOrderParts DEF SafeInv
  <2>2. job.op = "save" => job.from \in Sender
    BY DEF TypeOK, Job
  <2> QED
    BY <1>1, <1>2, <2>1, <2>2 DEF OrderParts
<1> QED
  BY <1>1, <1>2, <1>3, <1>4, <1>5, DeadCalls DEF Sender

\* A page that leaves waits for nothing.
LEMMA PageLeavesCalls ==
  ASSUME TypeOK, SafeInv, Shape', PageLeaves, UNCHANGED acked, jsOwner' \in {jsOwner, Nobody},
         job' = NoJob
  PROVE  CallInv'
<1>1. js'.at = "out"
  BY DEF PageLeaves, NoPage
<1>2. /\ req'["page"].at = "none"
      /\ req'["gone"].at # "none" =>
           /\ ~req'["gone"].live
           /\ \E t \in Sender : req[t].at = req'["gone"].at /\ req[t].st = req'["gone"].st
  <2>1. CASE req["page"].at = "none"
    <3>1. req' = req
      BY <2>1 DEF PageLeaves
    <3> QED
      BY <2>1, <3>1, OneCall, Names
  <2>2. CASE req["page"].at # "none"
    <3>1. req' = [page |-> NoReq, gone |-> [req["page"] EXCEPT !.live = FALSE]]
      BY <2>2 DEF PageLeaves
    <3> QED
      BY <3>1, Names DEF NoReq, TypeOK, Call
  <2> QED
    BY <2>1, <2>2
<1>3. OrderParts(job', js', req')
  BY DEF OrderParts, NoJob
<1>4. JobsInOrder'
  BY <1>3 DEF JobsInOrder, OrderParts, Shape, JobShape, CallerWaits
<1>5. CallsInOrder'
  <2>1. \A s \in Sender : req'[s].at # "none" => req'[s].st # Nothing
    BY DEF Shape, CallsShape
  <2>2. (req'["gone"].at = "sent" /\ req'["gone"].st.of = jsOwner')
           => acked'[req'["gone"].st.of] \subseteq req'["gone"].st.has
    <3>1. SUFFICES ASSUME req'["gone"].at = "sent", req'["gone"].st.of = jsOwner'
                   PROVE  acked[req'["gone"].st.of] \subseteq req'["gone"].st.has
      OBVIOUS
    <3>2. PICK t \in Sender : req[t].at = "sent" /\ req[t].st = req'["gone"].st
      BY <1>2, <3>1
    <3>3. req[t].st \in State
      BY <3>2 DEF TypeOK, Call, SafeInv, CallsInOrder
    <3>4. req[t].st.of = jsOwner
      BY <3>1, <3>2, <3>3, Apart DEF State
    <3> QED
      BY <3>2, <3>4 DEF SafeInv, CallsInOrder, Fits
  <2> QED
    BY <1>1, <1>2, <2>1, <2>2 DEF CallsInOrder, Fits, Sender
<1>6. PageFits'
  BY <1>1 DEF PageFits
<1> QED
  BY <1>4, <1>5, <1>6 DEF CallInv

\* Once the only call is answered, none is out.
LEMMA AnsweredCalls ==
  ASSUME TypeOK, SafeInv, NEW s \in Sender, req[s].at # "none", req' = Answered(s)
  PROVE  \A t \in Sender : req'[t].at = "none"
<1>1. req'[s].at = "none" /\ \A t \in Sender \ {s} : req'[t] = req[t]
  BY DEF Answered, NoReq, TypeOK
<1> QED
  BY <1>1, OneCall

LEMMA NoJobOrder == \A p, r : OrderParts(NoJob, p, r)
BY DEF OrderParts, NoJob

\* Restarts and reloads.
LEMMA LeavingCalls ==
  ASSUME TypeOK, Shape, SafeInv, [Next]_vars, Reload \/ Crash \/ Finish
  PROVE  CallInv'
<1>1. Shape'
  BY NextType
<1>2. ASSUME Restarted PROVE CallInv'
  <2>1. \A s \in Sender : req'[s].at = "none"
    BY <1>2 DEF Restarted, NoReq
  <2>2. js'.at = "out" /\ PageFits'
    BY <1>2 DEF Restarted, NoPage, PageFits
  <2> QED
    BY <1>1, <1>2, <2>1, <2>2, NoCall, NoJobOrder DEF Restarted
<1>3. CASE Reload
  BY <1>1, <1>3, PageLeavesCalls DEF Reload, procVars, ghostVars
<1>4. CASE Crash
  BY <1>2, <1>4 DEF Crash
<1>5. CASE Finish
  <2>1. acked' = acked
    BY <1>5, QuietSteps DEF LeavesFiles
  <2>2. CASE job.op = "exit"
    BY <1>2, <1>5, <2>2 DEF Finish
  <2>3. CASE job.op = "handoff"
    BY <1>1, <1>5, <2>1, <2>3, PageLeavesCalls DEF Finish
  <2>4. CASE job.op \notin {"exit", "handoff"}
    BY <1>1, <1>5, <2>1, <2>4, JobAlone, NoJobOrder DEF Finish, procVars, pageVars, NoJob
  <2> QED
    BY <2>2, <2>3, <2>4
<1> QED
  BY <1>3, <1>4, <1>5

\* A refused save leaves the page without an identity it never saved.
LEMMA RefusedCalls ==
  ASSUME TypeOK, SafeInv, Shape', NEW s \in Sender, NEW error, req[s].at # "none",
         Refused(s, error), job' = NoJob, UNCHANGED <<acked, jsOwner>>
  PROVE  CallInv'
<1>1. \A t \in Sender : req'[t].at = "none"
  BY AnsweredCalls DEF Refused
<1>2. js' = js \/ js'.at = "out"
  BY DEF Refused, NoPage, TypeOK, Page
<1>3. js'.at # "creating"
  <2>1. SUFFICES ASSUME js.at = "creating" PROVE js'.at = "out"
    BY <1>2
  <2>2. req["page"].at = "sent" /\ req["page"].live
    BY <2>1 DEF SafeInv, CallsInOrder
  <2>3. s = "page"
    BY <2>2, OneCall, Names
  <2> QED
    BY <2>1, <2>2, <2>3 DEF Refused, NoPage, TypeOK, Page
<1>4. PageFits'
  BY <1>2 DEF PageFits, SafeInv, Fits
<1> QED
  BY <1>1, <1>3, <1>4, NoCall, NoJobOrder

LEMMA SaveCalls ==
  ASSUME TypeOK, Shape, SafeInv, [Next]_vars, NEW s \in Sender,
         RefuseSave(s) \/ DeferSave(s) \/ ScheduleFlush(s)
  PROVE  CallInv'
<1>1. Shape'
  BY NextType
<1>2. CASE RefuseSave(s)
  <2>1. PICK error : Refused(s, error)
    BY <1>2 DEF RefuseSave
  <2> QED
    BY <1>1, <1>2, <2>1, RefusedCalls DEF RefuseSave, procVars, ghostVars
<1>3. CASE DeferSave(s)
  <2>1. /\ job' = NoJob /\ UNCHANGED <<js, acked, jsOwner>>
        /\ req[s].at = "sent" /\ ~req[s].durable
    BY <1>3 DEF DeferSave
  <2>2. /\ req'[s].at = "deferred" /\ req'[s].st = req[s].st /\ req'[s].live = req[s].live
        /\ \A t \in Sender \ {s} : req'[t] = req[t]
    BY <1>3 DEF DeferSave, TypeOK, Call
  <2>3. JobsInOrder'
    BY <1>1, <2>1, NoJobOrder
       DEF JobsInOrder, OrderParts, Shape, JobShape, CallerWaits
  <2>4. js.at # "creating"
    BY <2>1, OneCall, Names DEF SafeInv, CallsInOrder
  <2>5. CallsInOrder'
    BY <1>1, <2>1, <2>2, <2>4, Names DEF SafeInv, CallsInOrder, Fits
  <2>6. PageFits'
    BY <2>1 DEF SafeInv, PageFits, Fits
  <2> QED
    BY <2>3, <2>5, <2>6 DEF CallInv
<1>4. CASE ScheduleFlush(s)
  <2>1. req[s].at = "deferred" /\ req' = Answered(s) /\ UNCHANGED <<job, js, acked, jsOwner>>
    BY <1>4 DEF ScheduleFlush, ghostVars
  <2>2. \A t \in Sender : req'[t].at = "none"
    BY <2>1, AnsweredCalls
  <2>3. js.at # "creating"
    BY <2>1, OneCall, Names DEF SafeInv, CallsInOrder
  <2>4. job.op \notin {"save", "load"}
    BY <2>1, OneCall DEF SafeInv, JobsInOrder, TypeOK, Job
  <2>5. OrderParts(job', js', req')
    BY <2>1, <2>4, JobsInOrderParts DEF SafeInv, OrderParts
  <2>6. PageFits'
    BY <2>1 DEF SafeInv, PageFits, Fits
  <2> QED
    BY <1>1, <2>1, <2>2, <2>3, <2>5, <2>6, NoCall
<1> QED
  BY <1>2, <1>3, <1>4

\* A write that ends, well or not.
LEMMA WriteCalls ==
  ASSUME TypeOK, Shape, SafeInv, [Next]_vars, Fails \/ RenameTmp
  PROVE  CallInv'
<1>1. Shape' /\ jsOwner' = jsOwner
  BY NextType DEF Fails, KeyRefused, WriteError, WriteFailed, RenameTmp
<1>2. job.at \in WriteStage
  BY FailsResult, StageNames DEF RenameTmp
<1>3. PICK ok \in BOOLEAN : WriteEnds(ok)
  BY DEF Fails, KeyRefused, WriteError, WriteFailed, RenameTmp
<1>4. CASE job.op # "save"
  <2>1. UNCHANGED <<js, req, acked>>
    BY <1>4 DEF Fails, KeyRefused, WriteError, WriteFailed, RenameTmp, ghostVars
  <2>2. /\ job'.op = job.op
        /\ (job'.at = "read" /\ job.op = "load") \/ job'.at = "done"
    <3>1. \/ job' = [job EXCEPT !.at = "read"] /\ job.op = "load"
          \/ job' = [job EXCEPT !.at = "done"]
      BY <1>2, <1>3, <1>4, WriteEndsResult
    <3> QED
      BY <3>1 DEF TypeOK, Job
  <2>3. OrderParts(job', js, req)
    BY <1>4, <2>2, JobsInOrderParts DEF SafeInv, OrderParts
  <2> QED
    BY <1>1, <2>1, <2>3, JobAlone
<1>5. CASE job.op = "save"
  <2>1. /\ job' = NoJob /\ job.from \in Sender
        /\ req[job.from].at = "sent" /\ req[job.from].st = job.st
    BY <1>2, <1>3, <1>5, WriteEndsResult DEF SafeInv, JobsInOrder, TypeOK, Job
  <2>2. CASE Fails
    <3>1. Refused(job.from, "io") /\ acked' = acked
      BY <1>5, <2>2 DEF Fails, KeyRefused, WriteError, WriteFailed
    <3> QED
      BY <1>1, <2>1, <3>1, RefusedCalls
  <2>3. CASE RenameTmp
    <3>1. Confirm(job.from)
      BY <1>5, <2>3 DEF RenameTmp
    <3>2. \A t \in Sender : req'[t].at = "none"
      BY <2>1, <3>1, AnsweredCalls DEF Confirm
    <3>3. \/ ~req[job.from].live /\ js.at = "out" /\ js' = js
          \/ /\ req[job.from].live /\ job.from = "page" /\ js.at \in {"creating", "ready"}
             /\ js.mem = job.st /\ js'.at = "ready" /\ js'.mem = job.st
      BY <2>1, <3>1 DEF Confirm, SafeInv, CallsInOrder, TypeOK, Page
    <3>4. acked'[job.st.of] \subseteq job.st.has
      BY <2>3, RenameConfirms
    <3>5. PageFits'
      BY <1>1, <3>3, <3>4 DEF PageFits, Fits, Shape, PageShape
    <3> QED
      BY <1>1, <2>1, <3>2, <3>3, <3>5, NoCall, NoJobOrder
  <2> QED
    BY <2>2, <2>3
<1> QED
  BY <1>4, <1>5

\* A load has nobody to race with, since none overtakes a save.
LEMMA StartLoadCalls ==
  ASSUME TypeOK, Shape, SafeInv, [Next]_vars, StartLoad, "late" \notin Faults
  PROVE  CallInv'
<1>1. Shape'
  BY NextType
<1>2. \A s \in Sender : req'[s].at = "none"
  BY DEF StartLoad, Fault
<1>3. js'.at = "loading"
  BY DEF StartLoad, TypeOK, Page
<1>4. job'.op = "load" /\ job'.at \in {"account", "migrate"}
  BY DEF StartLoad, NoJob
<1>5. OrderParts(job', js', req')
  BY <1>2, <1>3, <1>4 DEF OrderParts
<1>6. PageFits'
  BY <1>1, <1>3 DEF PageFits, Shape, PageShape
<1> QED
  BY <1>1, <1>2, <1>3, <1>5, <1>6, NoCall

\* With files that hold what was confirmed, a load finds it: in the main file or
\* in a tmp file that is newer.
LEMMA LoadFindsAcked ==
  ASSUME TypeOK, SafeInv, NEW a \in Account, InUse(a), NEW st,
         st = LoadState(files[a], KeyAtHand), st # Unreadable
  PROVE  /\ st = Nothing => acked[a] = {}
         /\ st # Nothing => st \in State /\ st.of = a /\ acked[a] \subseteq st.has
<1> DEFINE k == KeyAtHand
           best == BestFile(files[a], k)
<1>1. a \in Dir /\ files[a] \in [FileName -> File]
  BY Names DEF TypeOK
<1>0. /\ acked[a] # {} => files[a]["main"] # Nothing
      /\ files[a]["main"] # Nothing =>
            /\ files[a]["main"] # Unreadable /\ acked[a] \subseteq files[a]["main"].has
            /\ entry # 0 => files[a]["main"].key = entry
            /\ cached # 0 => files[a]["main"].key = cached
      /\ Content(files[a]["tmp"]) => acked[a] \subseteq files[a]["tmp"].has
  <2>1. MainOf(files, a) = files[a]["main"]
    BY InUseSettled DEF SafeInv
  <2> QED
    BY <2>1 DEF SafeInv, FilesHoldAcked, Content
<1>2. st = Nothing => acked[a] = {}
  <2>1. acked[a] # {} => CommittedIn(files[a])
    BY <1>0 DEF CommittedIn
  <2>2. Opens(k, files[a][best]) => StateIn(files[a][best]) \in State
    <3>1. files[a][best] \in File
      BY <1>1, Names DEF BestFile
    <3> QED
      BY <3>1 DEF Opens, StateIn, File, Blob, State
  <2> QED
    BY <2>1, <2>2, Apart DEF LoadState
<1>3. ASSUME st # Nothing
      PROVE  st \in State /\ st.of = a /\ acked[a] \subseteq st.has
  <2>1. st = StateIn(files[a][best]) /\ Opens(k, files[a][best]) /\ k # 0
    BY <1>3 DEF LoadState
  <2>2. best \in FileName /\ Content(files[a][best])
    BY <2>1, Names DEF BestFile, Opens, Content
  <2>3. st.of = files[a][best].of /\ st.has = files[a][best].has
    BY <2>1 DEF StateIn
  <2>4. st.of = a
    BY <2>2, <2>3 DEF SafeInv, OwnInv, FilesOwn
  <2>5. files[a]["main"] # Nothing => Opens(k, files[a]["main"])
    BY <1>0, <2>1, Apart DEF Opens, KeyAtHand
  <2>6. acked[a] \subseteq files[a][best].has
    <3>1. CASE best = "tmp"
      BY <1>0, <2>2, <3>1
    <3>2. CASE best = "main"
      BY <1>0, <2>2, <3>2 DEF Content
    <3>3. CASE best = "bak"
      <4>1. files[a]["main"] = Nothing
        BY <2>5, <3>3 DEF BestFile
      <4> QED
        BY <1>0, <4>1
    <3> QED
      BY <2>2, <3>1, <3>2, <3>3 DEF FileName
  <2>7. st \in State
    BY <1>1, <1>3, LoadStateType
  <2> QED
    BY <2>3, <2>4, <2>6, <2>7
<1> QED
  BY <1>2, <1>3

LEMMA LoadCalls ==
  ASSUME TypeOK, Shape, SafeInv, [Next]_vars, NoAccount \/ LoadFails \/ Load
  PROVE  CallInv'
<1>1. Shape' /\ job' = NoJob /\ req' = req /\ acked' = acked
  BY NextType DEF NoAccount, LoadFails, Load, procVars, ghostVars
<1>2. \A s \in Sender : req'[s].at = "none"
  BY <1>1 DEF NoAccount, LoadFails, Load, SafeInv, JobsInOrder
<1>3. js.at \in {"out", "loading"}
  BY DEF NoAccount, LoadFails, Load, SafeInv, JobsInOrder
<1>4. ASSUME LoadAnswered("out", Nothing) PROVE js'.at \in {"out", "loading"}
  BY <1>3, <1>4 DEF LoadAnswered, TypeOK, Page
<1>5. CASE NoAccount \/ LoadFails
  <2>1. js'.at \in {"out", "loading"}
    BY <1>4, <1>5 DEF NoAccount, LoadFails
  <2>2. PageFits'
    BY <1>1, <2>1 DEF PageFits, Shape, PageShape
  <2> QED
    BY <1>1, <1>2, <2>1, <2>2, NoCall, NoJobOrder
<1>6. CASE Load
  <2> DEFINE st == LoadState(files[job.dir], KeyAtHand)
  <2>1. job.dir \in Account /\ InUse(job.dir) /\ jsOwner' = job.dir /\ st # Unreadable
    BY <1>6 DEF Load, Shape, JobShape, InUse
  <2>2. /\ st = Nothing => acked[job.dir] = {}
        /\ st # Nothing => st.of = job.dir /\ acked[job.dir] \subseteq st.has
    BY <2>1, LoadFindsAcked
  <2>3. \/ js'.at = "fresh" /\ st = Nothing
        \/ js'.at = "ready" /\ js'.mem = st /\ st # Nothing
        \/ js'.at \in {"out", "loading"}
    <3>1. CASE st = Nothing
      <4>1. LoadAnswered("fresh", Nothing)
        BY <1>6, <3>1 DEF Load
      <4> QED
        BY <1>3, <3>1, <4>1 DEF LoadAnswered, TypeOK, Page
    <3>2. CASE st # Nothing /\ js.at = "loading" /\ js.acct = job.dir
      <4>1. LoadAnswered("ready", st)
        BY <1>6, <3>2 DEF Load
      <4> HIDE DEF st
      <4> QED
        BY <3>2, <4>1 DEF LoadAnswered, TypeOK, Page
    <3>3. CASE st # Nothing /\ ~(js.at = "loading" /\ js.acct = job.dir)
      <4>1. LoadAnswered("out", Nothing)
        BY <1>6, <3>3 DEF Load
      <4> QED
        BY <1>4, <4>1
    <3> QED
      BY <3>1, <3>2, <3>3
  <2> HIDE DEF st
  <2>4. PageFits'
    BY <1>1, <2>1, <2>2, <2>3 DEF PageFits, Fits, Shape, PageShape
  <2> QED
    BY <1>1, <1>2, <2>3, <2>4, NoCall, NoJobOrder
<1> QED
  BY <1>5, <1>6

\* Every step.
LEMMA CallStep ==
  ASSUME TypeOK, Shape, SafeInv, [Next]_vars, "late" \notin Faults
  PROVE  CallInv'
<1>1. CASE UNCHANGED vars
  BY <1>1, CallsStay DEF vars
<1>2. CASE JobStep
  BY <1>2, JobCalls, WriteCalls, LoadCalls, LeavingCalls DEF JobStep, Writes, Fails
<1>3. CASE WriteError \/ MoveFails \/ Crash \/ Reload
  BY <1>3, JobCalls, WriteCalls, LeavingCalls DEF Fails
<1>4. CASE ForgetKey \/ \E a \in Account \cup {Nobody} : SignIn(a)
  BY <1>4, CallsStay DEF ForgetKey, SignIn, procVars, pageVars, ghostVars
<1>5. CASE BindAccount \/ CreateIdentity \/ SaveAgain
  BY <1>5, BindAccountCalls, SendCalls
<1>6. CASE \E durable \in BOOLEAN : ChangeState(durable)
  BY <1>6, SendCalls
<1>7. CASE \E s \in Sender : RefuseSave(s) \/ DeferSave(s) \/ ScheduleFlush(s) \/ StartSave(s)
  BY <1>7, SaveCalls, JobCalls
<1>8. CASE TimerFires \/ StartHandOff \/ StartExit \/ StartLoad \/ StartMigration
  BY <1>8, JobCalls, StartLoadCalls
<1> QED
  BY <1>1, <1>2, <1>3, <1>4, <1>5, <1>6, <1>7, <1>8 DEF Next

-----------------------------------------------------------------------------
(* The theorems about what was confirmed.                                   *)

\* At first every account has what was confirmed for it: nothing, or the legacy
\* state that waits.
LEMMA HoldInit ==
  ASSUME Init, NEW a \in Account
  PROVE  /\ accepted[a] = acked[a]
         /\ acked[a] # {} => MainOf(files, a) # Nothing
         /\ MainOf(files, a) # Nothing =>
               /\ MainOf(files, a) # Unreadable /\ MainOf(files, a).key = entry
               /\ acked[a] \subseteq MainOf(files, a).has
         /\ files[a]["tmp"] = Nothing
<1>1. accepted = acked /\ a # Root
  BY Apart DEF Init
<1>2. CASE LegacyOwner = Nobody
  <2>1. /\ \A d \in Dir, n \in FileName : files[d][n] = Nothing
        /\ acked[a] = {}
    BY <1>2 DEF Init, NoFiles
  <2> QED
    BY <1>1, <2>1, Names DEF MainOf
<1>3. CASE LegacyOwner # Nobody
  <2>1. PICK fs \in LegacyFiles : files = [d \in Dir |-> IF d = Root THEN fs ELSE NoFiles]
    BY <1>3 DEF Init
  <2>2. fs["main"] = [key |-> 1, of |-> LegacyOwner, has |-> {1, 2}]
    BY <2>1 DEF LegacyFiles
  <2>3. files[Root]["main"] = [key |-> 1, of |-> LegacyOwner, has |-> {1, 2}]
    BY <2>1, <2>2, Names
  <2>4. \A n \in FileName : files[a][n] = Nothing
    BY <1>1, <2>1, Names DEF NoFiles
  <2>5. entry = 1 /\ acked[a] = IF a = LegacyOwner THEN {1, 2} ELSE {}
    BY <1>3 DEF Init
  <2>6. [key |-> 1, of |-> LegacyOwner, has |-> {1, 2}] \in Blob
    BY <1>3, AccountAssumption, BoundAssumption DEF Blob, Update
  <2>7. files[Root]["main"] # Unreadable /\ files[Root]["main"] # Nothing
    BY <2>3, <2>6, Apart
  <2>8. CASE a = LegacyOwner
    <3>1. MainOf(files, a) = files[Root]["main"]
      BY <2>7, <2>8 DEF MainOf
    <3> QED
      BY <1>1, <2>3, <2>4, <2>5, <2>7, <2>8, <3>1, Names
  <2>9. CASE a # LegacyOwner
    BY <1>1, <2>4, <2>5, <2>9, Names DEF MainOf
  <2> QED
    BY <2>8, <2>9
<1> QED
  BY <1>2, <1>3

LEMMA SafeInit == Init => SafeInv
<1> SUFFICES ASSUME Init PROVE SafeInv
  OBVIOUS
<1>1. OwnInv /\ KeyInv /\ LegacyApart
  BY OwnInit, KeyInit, ApartInit
<1>2. /\ pending = Nothing /\ job = NoJob /\ js = NoPage /\ req = [s \in Sender |-> NoReq]
      /\ cached = 0
  BY DEF Init
<1>3. FilesHoldAcked
  BY <1>2, HoldInit DEF FilesHoldAcked
<1>4. WritesFit /\ JobsInOrder /\ CallsInOrder /\ PageFits
  BY <1>2, Names, StageNames
     DEF WritesFit, JobsInOrder, CallsInOrder, PageFits, NoJob, NoPage, NoReq
<1> QED
  BY <1>1, <1>3, <1>4 DEF SafeInv

LEMMA SafeStep ==
  ASSUME TypeOK, Shape, SafeInv, [Next]_vars, "late" \notin Faults, MigrationFinds,
         LegacyOwner # Nobody => ~Lost
  PROVE  SafeInv'
<1>1. OwnInv' /\ KeyInv' /\ LegacyApart' /\ FilesHoldAcked'
  BY OwnStep, KeyStep, ApartStep, FilesHoldStep DEF SafeInv
<1>2. WritesFit'
  <2>1. PendingFits' /\ WriteFits' /\ TypeOK' /\ Shape'
    BY FitsStep, NextType
  <2> QED
    BY <1>1, <2>1 DEF WritesFit, PendingFits, WriteFits, OwnInv, JobOwn, KeyInv, TmpIsNew,
                      Shape, JobShape
<1>3. CallInv'
  BY CallStep
<1> QED
  BY <1>1, <1>2, <1>3 DEF SafeInv, CallInv

\* Whoever takes the key away takes a legacy state that still waits out of reach
\* of every migration; until then the invariant holds.
SafeOrLost == OwnInv /\ KeyInv /\ (SafeInv \/ (LegacyOwner # Nobody /\ Lost))

LEMMA SafeOrLostAlways ==
  ASSUME "late" \notin Faults, MigrationFinds
  PROVE  Spec => []SafeOrLost
<1>1. Init => SafeOrLost
  BY SafeInit DEF SafeOrLost, SafeInv
<1>2. TypeOK /\ Shape /\ SafeOrLost /\ [Next]_vars => SafeOrLost'
  <2>1. SUFFICES ASSUME TypeOK, Shape, SafeOrLost, [Next]_vars PROVE SafeOrLost'
    OBVIOUS
  <2>2. OwnInv' /\ KeyInv'
    BY <2>1, OwnStep, KeyStep DEF SafeOrLost
  <2>3. CASE LegacyOwner # Nobody /\ Lost
    BY <2>1, <2>2, <2>3, LostStays DEF SafeOrLost
  <2>4. CASE ~(LegacyOwner # Nobody /\ Lost)
    BY <2>1, <2>2, <2>4, SafeStep DEF SafeOrLost
  <2> QED
    BY <2>3, <2>4
<1> QED
  BY <1>1, <1>2, StoreTypeCorrect, PTL DEF Spec

\* Unless somebody takes it away, a legacy state keeps its key.
KeyKept == LegacyOwner # Nobody => entry # 0

LEMMA KeyKeptStep ==
  ASSUME TypeOK, Shape, LegacyOwner # Nobody => "forget" \notin Faults, KeyKept, [Next]_vars
  PROVE  KeyKept'
<1>1. CASE LegacyOwner = Nobody
  BY <1>1 DEF KeyKept
<1>2. CASE LegacyOwner # Nobody
  <2>1. CASE entry' = entry
    BY <2>1 DEF KeyKept
  <2>2. CASE ObtainKey
    <3>1. \/ entry' = entry
          \/ KeyAtHand = 0
      BY <2>2 DEF ObtainKey
    <3> QED
      BY <1>2, <2>1, <3>1 DEF KeyKept, KeyAtHand
  <2>3. CASE ForgetKey
    BY <1>2, <2>3 DEF ForgetKey, Fault
  <2>4. CASE Writes \/ RenameTmp
    BY <2>1, <2>4 DEF Writes, CreateTmp, SyncTmp, CopyToBak, SyncBak, WriteStep, RenameTmp
  <2>5. CASE StaysPut \/ LeavesFiles \/ Flushes \/ Migrates \/ Marks \/ Move \/ Fails
    BY <2>1, <2>5, FailsResult, MoveResult
       DEF StaysPut, LeavesFiles, Flushes, Migrates, Marks
  <2>6. CASE \E s \in Sender : DeferSave(s) \/ StartSave(s)
    BY <2>1, <2>6 DEF DeferSave, StartSave, diskVars
  <2> QED
    BY <2>2, <2>3, <2>4, <2>5, <2>6, StepKinds
<1> QED
  BY <1>1, <1>2

\* The whole invariant, with the key.
LEMMA SafeAlways ==
  ASSUME "late" \notin Faults, MigrationFinds, LegacyOwner # Nobody => "forget" \notin Faults
  PROVE  Spec => [](SafeInv /\ KeyKept)
<1>1. Init => SafeInv /\ KeyKept
  BY SafeInit DEF KeyKept, Init
<1>2. TypeOK /\ Shape /\ SafeInv /\ KeyKept /\ [Next]_vars => SafeInv' /\ KeyKept'
  BY SafeStep, KeyKeptStep DEF KeyKept, Lost
<1> QED
  BY <1>1, <1>2, StoreTypeCorrect, PTL DEF Spec

\* Where loads wait for the saves sent before them and nothing makes a migration
\* pass over a legacy state, the whole invariant is inductive.
THEOREM StoreInvAlways ==
  ASSUME "late" \notin Faults, MigrationFinds, LegacyOwner # Nobody => "forget" \notin Faults
  PROVE  Spec => []StoreInv
<1>1. SafeInv => StoreInv
  BY DEF SafeInv, StoreInv, KeyInv, OwnInv, FilesOwn, PendingOwn, Content, DirHoldsOwn
<1> QED
  BY <1>1, SafeAlways, PTL

\* These updates are in every file that a launch may load for the account, be it
\* after a migration.
OnDisk(fs, a, updates) ==
    /\ updates # {} => MainOf(fs, a) # Nothing
    /\ Content(MainOf(fs, a)) => updates \subseteq MainOf(fs, a).has
    /\ Content(fs[a]["tmp"]) => updates \subseteq fs[a]["tmp"].has

\* A load finds what the main file, and a tmp file that is newer, hold.
LEMMA LoadHolds ==
  ASSUME NEW fs \in [FileName -> File], NEW updates, entry # 0,
         Opens(entry, fs["main"]), updates \subseteq fs["main"].has,
         Content(fs["tmp"]) => updates \subseteq fs["tmp"].has
  PROVE  Holds(LoadState(fs, entry), updates)
<1>1. \/ BestFile(fs, entry) = "tmp" /\ Opens(entry, fs["tmp"])
      \/ BestFile(fs, entry) = "main"
  BY DEF BestFile
<1>2. /\ Opens(entry, fs[BestFile(fs, entry)])
      /\ updates \subseteq fs[BestFile(fs, entry)].has
  BY <1>1 DEF Opens, Content
<1>3. LoadState(fs, entry) = StateIn(fs[BestFile(fs, entry)])
  BY <1>2 DEF LoadState
<1>4. fs[BestFile(fs, entry)] \in File
  BY <1>1, Names
<1>5. StateIn(fs[BestFile(fs, entry)]) \in State
  BY <1>2, <1>4 DEF Opens, StateIn, File, Blob, State
<1> QED
  BY <1>2, <1>3, <1>5, Apart DEF Holds, StateIn

\* The files that the next launch loads, which may have to migrate first.
LEMMA LaunchFiles ==
  ASSUME TypeOK, SafeInv, entry # 0, NEW a \in Account
  PROVE  \E fs \in [FileName -> File] :
            /\ Recoverable(a) = LoadState(fs, entry) /\ fs["main"] = MainOf(files, a)
            /\ \/ fs["tmp"] = files[a]["tmp"]
               \/ {fs["tmp"], files[a]["tmp"]} \subseteq {Nothing, Unreadable}
            /\ MainOf(files, a) = Nothing => fs = files[a]
<1> DEFINE legacy == LoadState(files[Root], entry)
           moves == legacy \notin {Nothing, Unreadable} /\ legacy.of = a /\ MayMigrateTo(a)
           moved == [n \in FileName |-> IF files[Root][n] # Nothing
                                          THEN files[Root][n] ELSE files[a][n]]
<1>1. a \in Dir /\ files[a] \in [FileName -> File] /\ files[Root] \in [FileName -> File]
  BY Names DEF TypeOK
<1>2. Recoverable(a) = IF moves THEN LoadState(moved, entry) ELSE LoadState(files[a], entry)
  BY DEF Recoverable
<1>3. moved \in [FileName -> File]
  BY <1>1
<1>4. CASE ~Waits
  <2>1. \A n \in FileName : files[Root][n] = Nothing
    BY <1>4 DEF SafeInv, LegacyApart, NoFiles
  <2>2. moved = files[a]
    BY <1>1, <2>1
  <2>3. files[a]["main"] = MainOf(files, a)
    BY <2>1, Names DEF MainOf
  <2>4. Recoverable(a) = LoadState(files[a], entry)
    BY <1>2, <2>2
  <2> QED
    BY <1>1, <2>3, <2>4
<1>5. CASE Waits
  <2>1. /\ legacy \in State /\ legacy.of = LegacyOwner /\ MayMigrateTo(LegacyOwner)
        /\ files[Root]["tmp"] \in {Nothing, Unreadable}
        /\ files[LegacyOwner]["tmp"] \in {Nothing, Unreadable}
    BY <1>5, FindsLegacy DEF SafeInv, LegacyApart
  <2>2. moves <=> a = LegacyOwner
    BY <2>1, Apart
  <2> HIDE DEF moves
  <2>3. CASE a = LegacyOwner
    <3>1. moved["main"] = MainOf(files, a) /\ MainOf(files, a) # Nothing
      BY <1>5, <2>3, Names DEF MainOf, Waits
    <3>2. {moved["tmp"], files[a]["tmp"]} \subseteq {Nothing, Unreadable}
      BY <2>1, <2>3, Names
    <3>3. Recoverable(a) = LoadState(moved, entry)
      BY <1>2, <2>2, <2>3
    <3> QED
      BY <1>3, <3>1, <3>2, <3>3
  <2>4. CASE a # LegacyOwner
    <3>1. Recoverable(a) = LoadState(files[a], entry) /\ files[a]["main"] = MainOf(files, a)
      BY <1>2, <2>2, <2>4 DEF MainOf
    <3> QED
      BY <1>1, <3>1
  <2> QED
    BY <2>3, <2>4
<1> QED
  BY <1>4, <1>5

\* What is on disk is what the next launch finds.
LEMMA NextLaunch ==
  ASSUME TypeOK, SafeInv, entry # 0, NEW a \in Account, NEW updates, updates # {},
         OnDisk(files, a, updates)
  PROVE  Holds(Recoverable(a), updates)
<1>1. PICK fs \in [FileName -> File] :
        /\ Recoverable(a) = LoadState(fs, entry) /\ fs["main"] = MainOf(files, a)
        /\ \/ fs["tmp"] = files[a]["tmp"]
           \/ {fs["tmp"], files[a]["tmp"]} \subseteq {Nothing, Unreadable}
  BY LaunchFiles
<1>2. /\ MainOf(files, a) # Nothing /\ MainOf(files, a) # Unreadable
      /\ MainOf(files, a).key = entry /\ updates \subseteq MainOf(files, a).has
  BY DEF SafeInv, FilesHoldAcked, OnDisk, Content
<1>3. Opens(entry, fs["main"]) /\ updates \subseteq fs["main"].has
  BY <1>1, <1>2 DEF Opens
<1>4. Content(fs["tmp"]) => updates \subseteq fs["tmp"].has
  BY <1>1 DEF OnDisk, Content
<1> QED
  BY <1>1, <1>3, <1>4, LoadHolds

\* The promise of the file header: a confirmed state is neither lost nor rolled
\* back by whatever crash, error or change of account comes next, nor by the
\* migration of a legacy state or by its interruption.
THEOREM AckedSurvivesAlways ==
  ASSUME "late" \notin Faults, MigrationFinds
  PROVE  Spec => []AckedSurvives
<1>1. TypeOK /\ SafeOrLost => AckedSurvives
  <2>1. SUFFICES ASSUME TypeOK, SafeOrLost, NEW a \in Account, acked[a] # {}, entry # 0
                 PROVE  Holds(Recoverable(a), acked[a])
    BY DEF AckedSurvives
  <2>2. SafeInv
    BY <2>1 DEF SafeOrLost, Lost
  <2>3. OnDisk(files, a, acked[a])
    BY <2>2 DEF SafeInv, FilesHoldAcked, OnDisk, Content
  <2> QED
    BY <2>1, <2>2, <2>3, NextLaunch
<1> QED
  BY <1>1, SafeOrLostAlways, StoreTypeCorrect, PTL

\* No load tells the page that an account with a confirmed state is fresh, key
\* gone or not; a fresh device would replace the account's only state. (A legacy
\* state has to keep its key: without it no migration brings it to the account.)
THEOREM NeverFreshOverAlways ==
  ASSUME "late" \notin Faults, MigrationFinds, LegacyOwner # Nobody => "forget" \notin Faults
  PROVE  Spec => NeverFreshOver
<1>1. TypeOK /\ Shape /\ SafeInv /\ [Next]_vars
        => [(job.at = "read" /\ Load /\ js'.at = "fresh") => acked[job.dir] = {}]_vars
  <2>1. SUFFICES ASSUME TypeOK, Shape, SafeInv, Load, job.at = "read", js'.at = "fresh"
                 PROVE  acked[job.dir] = {}
    OBVIOUS
  <2> DEFINE st == LoadState(files[job.dir], KeyAtHand)
  <2>2. job.dir \in Account /\ InUse(job.dir) /\ st # Unreadable
    BY <2>1 DEF Load, Shape, JobShape, InUse
  <2>3. js.at \in {"out", "loading"}
    BY <2>1 DEF SafeInv, JobsInOrder
  <2>4. st # Nothing => LoadAnswered("ready", st) \/ LoadAnswered("out", Nothing)
    BY <2>1 DEF Load
  <2> HIDE DEF st
  <2>5. st = Nothing
    BY <2>1, <2>3, <2>4 DEF LoadAnswered, TypeOK, Page
  <2> USE DEF st
  <2> QED
    BY <2>1, <2>2, <2>5, LoadFindsAcked
<1> QED
  BY <1>1, SafeAlways, StoreTypeCorrect, PTL DEF Spec, NeverFreshOver

-----------------------------------------------------------------------------
(* What was accepted is kept, where every write succeeds: it is on disk, in  *)
(* PENDING or being written, and whatever replaces it includes it.           *)

\* PENDING and the state being written are those of the account whose state the
\* page loaded, and include what was accepted for it; after a flush PENDING is
\* empty; every other account has its updates on disk.
PendingKept(p, owner, acc) ==
    p # Nothing => p.dir = owner /\ acc[owner] \subseteq p.st.has
WriteKept(j, owner, acc) ==
    j.at \in WriteStage => j.to = owner /\ acc[owner] \subseteq j.st.has
Flushed(j, p) ==
    (\/ j.op \in {"flush", "handoff", "exit"}
     \/ j.op = "load" /\ j.at \in WriteStage \cup {"read"}) => p = Nothing
FilesKept(fs, j, p, owner, acc) ==
    \A a \in Account : \/ a = owner /\ (p # Nothing \/ j.at \in WriteStage)
                       \/ OnDisk(fs, a, acc[a])
DiskKept(fs, j, p, owner, acc) ==
    /\ PendingKept(p, owner, acc) /\ WriteKept(j, owner, acc)
    /\ Flushed(j, p) /\ FilesKept(fs, j, p, owner, acc)

\* So does a state that was sent, and the one the page works on.
SentKept(r, owner, acc) ==
    \A s \in Sender : (r[s].at = "sent" /\ r[s].st.of = owner) => acc[owner] \subseteq r[s].st.has
PageKept(p, owner, acc) ==
    /\ p.at = "ready" => acc[p.mem.of] \subseteq p.mem.has
    /\ (p.at = "fresh" /\ owner = p.acct) => acc[p.acct] = {}
CallsKept(p, r, owner, acc) == SentKept(r, owner, acc) /\ PageKept(p, owner, acc)

KeptParts ==
    DiskKept(files, job, pending, jsOwner, accepted) /\ CallsKept(js, req, jsOwner, accepted)
KeptInv == Lost \/ KeptParts

\* No write fails as long as the key is there.
LEMMA FailsLost ==
  ASSUME Faults \cap {"write", "keyring"} = {}, TypeOK, Fails
  PROVE  Lost
BY DEF Fails, KeyRefused, WriteError, Fault, KeyAtHand, MayCreateKey, Lost

\* What a save adds, when it is accepted, it holds.
LEMMA AcceptGrows ==
  ASSUME TypeOK, Shape, NEW s \in Sender, req[s].at = "sent", req[s].st.of = jsOwner,
         SentKept(req, jsOwner, accepted), Accept(s)
  PROVE  /\ jsOwner \in Account
         /\ accepted'[jsOwner] \subseteq req[s].st.has
         /\ \A a \in Account \ {jsOwner} : accepted'[a] = accepted[a]
         /\ ~req[s].live => accepted' = accepted
<1>1. req[s].st \in State /\ jsOwner \in Account
  BY DEF TypeOK, Call, Shape, CallsShape, State
<1>2. accepted[jsOwner] \subseteq req[s].st.has
  BY DEF SentKept
<1>3. \/ accepted' = accepted
      \/ accepted' = [accepted EXCEPT ![jsOwner] = @ \cup req[s].st.has]
  BY DEF Accept
<1> QED
  BY <1>1, <1>2, <1>3 DEF TypeOK, Accept

-----------------------------------------------------------------------------
(* The disk, PENDING and the state being written.                           *)

\* The job moves on, and no write begins or ends.
LEMMA DiskJob ==
  ASSUME DiskKept(files, job, pending, jsOwner, accepted),
         UNCHANGED <<files, pending, jsOwner, accepted>>,
         job'.at \in WriteStage <=> job.at \in WriteStage,
         job.at \in WriteStage => job'.to = job.to /\ job'.st = job.st,
         Flushed(job', pending)
  PROVE  DiskKept(files, job, pending, jsOwner, accepted)'
BY DEF DiskKept, PendingKept, WriteKept, FilesKept, Flushed

\* Nothing is pending or being written: all of it is on disk, and stays there.
LEMMA DiskAtRest ==
  ASSUME DiskKept(files, job, pending, jsOwner, accepted),
         job.at \notin WriteStage, pending = Nothing,
         UNCHANGED <<files, accepted>>, pending' = Nothing, job'.at \notin WriteStage
  PROVE  DiskKept(files, job, pending, jsOwner, accepted)'
BY DEF DiskKept, PendingKept, WriteKept, FilesKept, Flushed

\* PENDING is taken to be written, or there is none.
LEMMA DiskFlush ==
  ASSUME TypeOK, Shape, DiskKept(files, job, pending, jsOwner, accepted),
         job.at \notin WriteStage,
         TimerFires \/ StartHandOff \/ StartExit \/ FindAccount
  PROVE  DiskKept(files, job, pending, jsOwner, accepted)'
<1>1. UNCHANGED <<files, jsOwner, accepted>> /\ Flushes
  BY FlushSteps DEF TimerFires, StartHandOff, StartExit, FindAccount, diskVars, ghostVars
<1>2. /\ pending' = Nothing
      /\ \/ pending = Nothing /\ job'.at \notin WriteStage
         \/ /\ pending # Nothing /\ job'.at = "key"
            /\ job'.to = pending.dir /\ job'.st = pending.st
  <2>1. PICK next \in Job : FlushThen(next) /\ next.at \notin WriteStage
    <3>1. CASE FindAccount
      <4> DEFINE next == [job EXCEPT !.at = "read", !.dir = session]
      <4>1. session \in Dir /\ job \in Job
        BY <3>1, Names DEF FindAccount, AccountAvailable, TypeOK
      <4>2. next \in Job
        BY <4>1, JobForms, StageNames
      <4>3. next.at = "read"
        BY <4>1 DEF Job
      <4>4. FlushThen(next)
        BY <3>1 DEF FindAccount
      <4> QED
        BY <4>2, <4>3, <4>4, StageNames
    <3>2. CASE TimerFires \/ StartHandOff \/ StartExit
      <4>1. PICK op \in {"flush", "handoff", "exit"} :
               FlushThen([NoJob EXCEPT !.op = op, !.at = "done"])
        BY <3>2 DEF TimerFires, StartHandOff, StartExit
      <4>2. [NoJob EXCEPT !.op = op, !.at = "done"] \in Job
        BY JobForms, StageNames
      <4>3. [NoJob EXCEPT !.op = op, !.at = "done"].at = "done"
        BY DEF NoJob
      <4> QED
        BY <4>1, <4>2, <4>3, StageNames
    <3> QED
      BY <3>1, <3>2
  <2> QED
    BY <2>1, FlushThenResult
<1>3. PendingKept(pending', jsOwner', accepted') /\ Flushed(job', pending')
  BY <1>2 DEF PendingKept, Flushed
<1>4. WriteKept(job', jsOwner', accepted')
  BY <1>1, <1>2 DEF DiskKept, PendingKept, WriteKept
<1>5. FilesKept(files', job', pending', jsOwner', accepted')
  BY <1>1, <1>2, StageNames DEF DiskKept, FilesKept
<1> QED
  BY <1>3, <1>4, <1>5 DEF DiskKept

\* A deferred state replaces PENDING; a durable one goes to be written.
LEMMA DiskSave ==
  ASSUME TypeOK, Shape, KeptParts, NEW s \in Sender, DeferSave(s) \/ StartSave(s)
  PROVE  DiskKept(files, job, pending, jsOwner, accepted)'
<1>0. /\ job = NoJob /\ job.at \notin WriteStage /\ UNCHANGED <<files, jsOwner>>
      /\ req[s].at = "sent" /\ req[s].st.of = jsOwner
  BY DEF DeferSave, StartSave, MayWrite, NoJob, WriteStage, diskVars, procVars
<1>1. DiskKept(files, job, pending, jsOwner, accepted) /\ SentKept(req, jsOwner, accepted)
  BY DEF KeptParts, CallsKept
<1>2. CASE DeferSave(s)
  <2>1. /\ pending' = [dir |-> jsOwner, st |-> req[s].st]
        /\ job' = job /\ Accept(s)
    BY <1>2 DEF DeferSave
  <2>2. pending'.dir = jsOwner /\ pending'.st = req[s].st
    BY <2>1
  <2>3. pending' # Nothing
    <3>1. pending' \in Deferred
      BY <1>0, <2>1 DEF TypeOK, Call, Shape, CallsShape, Deferred, State
    <3> QED
      BY <3>1, Apart
  <2>4. /\ accepted'[jsOwner] \subseteq req[s].st.has
        /\ \A a \in Account \ {jsOwner} : accepted'[a] = accepted[a]
    BY <1>0, <1>1, <2>1, AcceptGrows
  <2>5. PendingKept(pending', jsOwner', accepted')
    BY <1>0, <2>2, <2>4 DEF PendingKept
  <2>6. WriteKept(job', jsOwner', accepted') /\ Flushed(job', pending')
    BY <1>0, <2>1 DEF WriteKept, Flushed, NoJob
  <2>7. FilesKept(files', job', pending', jsOwner', accepted')
    BY <1>0, <1>1, <2>3, <2>4 DEF DiskKept, FilesKept
  <2> QED
    BY <2>5, <2>6, <2>7 DEF DiskKept
<1>3. CASE StartSave(s)
  <2>1. /\ pending' = pending /\ accepted' = accepted
        /\ job'.op = "save" /\ job'.at = "key" /\ job'.to = jsOwner /\ job'.st = req[s].st
    BY <1>3 DEF StartSave, NoJob, procVars, ghostVars
  <2>2. accepted[jsOwner] \subseteq req[s].st.has
    BY <1>0, <1>1 DEF SentKept
  <2>3. PendingKept(pending', jsOwner', accepted') /\ Flushed(job', pending')
    BY <1>0, <1>1, <2>1 DEF DiskKept, PendingKept, Flushed
  <2>4. WriteKept(job', jsOwner', accepted')
    BY <1>0, <2>1, <2>2 DEF WriteKept
  <2>5. FilesKept(files', job', pending', jsOwner', accepted')
    BY <1>0, <1>1, <2>1, StageNames DEF DiskKept, FilesKept
  <2> QED
    BY <2>3, <2>4, <2>5 DEF DiskKept
<1> QED
  BY <1>2, <1>3

\* A write fills the tmp file and the backup of the one account that is covered
\* by what is being written ...
LEMMA DiskWrites ==
  ASSUME TypeOK, Shape, DiskKept(files, job, pending, jsOwner, accepted), Writes
  PROVE  DiskKept(files, job, pending, jsOwner, accepted)'
<1>1. job.at \in WriteStage /\ job'.at \in WriteStage
  BY FileSteps, StageNames DEF Writes
<1>2. UNCHANGED <<pending, jsOwner, accepted>>
  BY DEF Writes, CreateTmp, SyncTmp, CopyToBak, SyncBak, WriteStep, procVars, ghostVars
<1>3. /\ job'.op = job.op /\ job'.to = job.to /\ job'.st = job.st
      /\ \A a \in Account \ {job.to}, n \in FileName : files'[a][n] = files[a][n]
  BY FileSteps, Names DEF Writes
<1>4. job.to = jsOwner
  BY <1>1 DEF DiskKept, WriteKept
<1>5. /\ PendingKept(pending', jsOwner', accepted') /\ WriteKept(job', jsOwner', accepted')
      /\ Flushed(job', pending')
  BY <1>1, <1>2, <1>3 DEF DiskKept, PendingKept, WriteKept, Flushed
<1>6. FilesKept(files', job', pending', jsOwner', accepted')
  <2>1. files'[Root]["main"] = files[Root]["main"]
    BY <1>1, FileSteps, Names, Apart DEF Writes, Shape, JobShape
  <2>2. \A a \in Account \ {job.to} : \A updates :
          OnDisk(files, a, updates) => OnDisk(files', a, updates)
    BY <1>3, <2>1, Names DEF OnDisk, MainOf
  <2> QED
    BY <1>1, <1>2, <1>3, <1>4, <2>2 DEF DiskKept, FilesKept
<1> QED
  BY <1>5, <1>6 DEF DiskKept

\* ... until the rename puts that on disk.
LEMMA DiskRename ==
  ASSUME TypeOK, Shape, SafeInv, KeptParts, RenameTmp
  PROVE  DiskKept(files, job, pending, jsOwner, accepted)'
<1>0. /\ job.at \in WriteStage /\ job.to \in Account /\ job.st.of = job.to
      /\ jsOwner' = jsOwner /\ WriteEnds(TRUE)
  BY RenameConfirms DEF RenameTmp
<1>1. /\ PendingKept(pending, jsOwner, accepted) /\ WriteKept(job, jsOwner, accepted)
      /\ Flushed(job, pending) /\ FilesKept(files, job, pending, jsOwner, accepted)
      /\ SentKept(req, jsOwner, accepted)
  BY DEF KeptParts, DiskKept, CallsKept
<1>2. job.to = jsOwner /\ accepted[jsOwner] \subseteq job.st.has
  BY <1>0, <1>1 DEF WriteKept
<1>3. /\ accepted'[jsOwner] \subseteq job.st.has
      /\ \A a \in Account \ {jsOwner} : accepted'[a] = accepted[a]
      /\ job.op # "save" => accepted' = accepted
  <2>1. CASE job.op = "save"
    <3>1. /\ Confirm(job.from) /\ job.from \in Sender /\ req[job.from].at = "sent"
          /\ req[job.from].st = job.st
      BY <2>1 DEF RenameTmp, SafeInv, JobsInOrder, TypeOK, Job
    <3> QED
      BY <1>0, <1>1, <1>2, <2>1, <3>1, AcceptGrows DEF Confirm
  <2>2. CASE job.op # "save"
    BY <1>2, <2>2 DEF RenameTmp, ghostVars
  <2> QED
    BY <2>1, <2>2
<1>4. /\ job'.at \in {"idle", "read", "done"}
      /\ \/ job.op = "save" /\ job' = NoJob
         \/ job'.op = job.op
      /\ pending' = Nothing \/ (job.op # "save" /\ pending' = pending)
  <2>1. /\ \/ job.op = "save" /\ job' = NoJob
           \/ job' = [job EXCEPT !.at = "read"]
           \/ job' = [job EXCEPT !.at = "done"]
        /\ job'.at \in {"idle", "read", "done"}
        /\ pending' = Nothing \/ (job.op # "save" /\ pending' = pending)
    BY <1>0, WriteEndsResult
  <2> QED
    BY <2>1, JobFields
<1>5. PendingKept(pending', jsOwner', accepted')
  BY <1>0, <1>1, <1>3, <1>4 DEF PendingKept
<1>6. WriteKept(job', jsOwner', accepted')
  BY <1>4, StageNames DEF WriteKept
<1>7. Flushed(job', pending')
  BY <1>0, <1>1, <1>4 DEF Flushed, NoJob
<1>8. FilesKept(files', job', pending', jsOwner', accepted')
  <2>1. /\ files'[job.to]["main"] = NewBlob /\ files'[job.to]["tmp"] = Nothing
        /\ \A a \in Account \ {job.to} : files'[a] = files[a]
    BY RenameResult, Names DEF RenameTmp, SafeInv, KeyInv, TmpIsNew
  <2>2. NewBlob # Nothing /\ NewBlob.has = job.st.has
    BY <1>0, NewBlobType, Apart DEF NewBlob
  <2>5. files'[Root] = files[Root] /\ ~(job.to = LegacyOwner /\ Waits)
    <3>1. InUse(job.to)
      BY <1>0 DEF InUse
    <3> QED
      BY <1>0, <3>1, InUseSettled, RenameResult, Names, Apart DEF SafeInv
  <2>3. OnDisk(files', jsOwner, accepted'[jsOwner])
    <3>1. MainOf(files', job.to) = NewBlob
      BY <2>1, <2>5 DEF MainOf, Waits
    <3> QED
      BY <1>2, <1>3, <2>1, <2>2, <3>1 DEF OnDisk, Content
  <2>4. \A a \in Account \ {jsOwner} : OnDisk(files', a, accepted'[a])
    <3>1. \A a \in Account \ {jsOwner} : OnDisk(files, a, accepted[a])
      BY <1>1 DEF FilesKept
    <3> QED
      BY <1>2, <1>3, <2>1, <2>5, <3>1 DEF OnDisk, MainOf
  <2> QED
    BY <2>3, <2>4 DEF FilesKept
<1> QED
  BY <1>5, <1>6, <1>7, <1>8 DEF DiskKept

\* The steps that leave files, PENDING and the accepted updates as they are.
LEMMA DiskMoves ==
  ASSUME TypeOK, Shape, SafeInv, [Next]_vars,
         DiskKept(files, job, pending, jsOwner, accepted),
         \/ StartLoad \/ StartMigration \/ Migrate \/ WriteMarker \/ Move \/ MoveFails
         \/ MovesDone \/ NoAccount \/ LoadFails \/ ObtainKey
  PROVE  DiskKept(files, job, pending, jsOwner, accepted)'
<1>1. UNCHANGED <<pending, jsOwner, accepted>>
  BY DEF StartLoad, StartMigration, Migrate, WriteMarker, Move, MoveFails, MovesDone, NoAccount,
         LoadFails, ObtainKey, procVars, ghostVars
<1>2. NoJob.at \notin WriteStage /\ NoJob.op = "none"
  BY DEF NoJob, WriteStage
<1>3. CASE StartLoad \/ StartMigration
  <2>1. files' = files /\ job = NoJob
    BY <1>3 DEF StartLoad, StartMigration, diskVars
  <2>2. job'.at \in {"account", "migrate"} /\ job'.op \in {"load", "owner"}
    BY <1>3 DEF StartLoad, StartMigration, NoJob
  <2>3. Flushed(job', pending)
    BY <2>2, StageNames DEF Flushed
  <2> QED
    BY <1>1, <1>2, <2>1, <2>2, <2>3, DiskJob, StageNames
<1>4. CASE NoAccount \/ LoadFails
  <2>1. files' = files /\ job' = NoJob /\ job.at \in {"account", "read"}
    BY <1>4 DEF NoAccount, LoadFails, diskVars
  <2>2. Flushed(job', pending)
    BY <1>2, <2>1 DEF Flushed
  <2> QED
    BY <1>1, <1>2, <2>1, <2>2, DiskJob, StageNames
<1>5. CASE Migrate \/ WriteMarker \/ MoveFails \/ MovesDone
  <2>1. files' = files /\ job.at \in {"migrate", "marker", "move"}
    BY <1>5 DEF Migrate, WriteMarker, MoveFails, MovesDone, diskVars
  <2>2. job'.op = job.op /\ job'.at \in {"marker", "move", AfterMigration}
    <3>1. \/ job' = [job EXCEPT !.at = AfterMigration]
          \/ job' = [job EXCEPT !.at = "move"]
          \/ job' = [job EXCEPT !.at = "marker", !.dir = LoadState(files[Root], KeyAtHand).of]
      BY <1>5 DEF Migrate, WriteMarker, MoveFails, MovesDone
    <3>2. CASE job' = [job EXCEPT !.at = "marker", !.dir = LoadState(files[Root], KeyAtHand).of]
      <4>1. PICK dir : dir = LoadState(files[Root], KeyAtHand).of
        OBVIOUS
      <4> QED
        BY <3>2, <4>1 DEF TypeOK, Job
    <3>3. CASE job' = [job EXCEPT !.at = AfterMigration]
      <4>1. PICK at : at = AfterMigration
        OBVIOUS
      <4> QED
        BY <3>3, <4>1, JobFields
    <3>4. CASE job' = [job EXCEPT !.at = "move"]
      BY <3>4, JobFields
    <3> QED
      BY <3>1, <3>2, <3>3, <3>4
  <2>3. job'.at \in {"marker", "move", "account", "done"}
    BY <2>2 DEF AfterMigration
  <2>4. Flushed(job', pending)
    BY <2>2, <2>3, StageNames DEF DiskKept, Flushed
  <2> QED
    BY <1>1, <2>1, <2>3, <2>4, DiskJob, StageNames
<1>6. CASE ObtainKey
  <2>1. files' = files /\ job.at = "key" /\ job' = [job EXCEPT !.at = "create"]
    BY <1>6 DEF ObtainKey
  <2>2. /\ job'.at = "create" /\ job'.op = job.op /\ job'.to = job.to /\ job'.st = job.st
    BY <2>1, JobFields
  <2>3. Flushed(job', pending)
    BY <2>1, <2>2, StageNames DEF DiskKept, Flushed
  <2> QED
    BY <1>1, <2>1, <2>2, <2>3, DiskJob, StageNames
<1>7. CASE Move
  <2>1. job' = job /\ job.at = "move"
    BY <1>7, MoveKeepsMain DEF SafeInv
  <2>2. \A a \in Account : \A updates : OnDisk(files, a, updates) => OnDisk(files', a, updates)
    BY <1>7, MoveKeepsMain DEF SafeInv, OnDisk, Content
  <2> QED
    BY <1>1, <2>1, <2>2, StageNames
       DEF DiskKept, PendingKept, WriteKept, Flushed, FilesKept
<1> QED
  BY <1>3, <1>4, <1>5, <1>6, <1>7

\* A load, an exit and a hand-off end with all of it on disk; so does a crash
\* for what was confirmed, which is all that it leaves.
LEMMA DiskEnds ==
  ASSUME TypeOK, Shape, SafeInv, DiskKept(files, job, pending, jsOwner, accepted),
         Load \/ Finish \/ Crash
  PROVE  DiskKept(files, job, pending, jsOwner, accepted)'
<1>0. NoJob.at \notin WriteStage /\ NoJob.op = "none" /\ job' = NoJob /\ files' = files
  BY DEF NoJob, WriteStage, Load, Finish, Crash, Restarted, diskVars
<1>1. CASE Load
  <2>1. job.at = "read" /\ pending' = pending /\ accepted' = accepted
    BY <1>1 DEF Load
  <2>2. pending = Nothing
    BY <2>1 DEF DiskKept, Flushed, SafeInv, JobsInOrder
  <2> QED
    BY <1>0, <2>1, <2>2, DiskAtRest, StageNames
<1>2. CASE Finish
  <2>1. job.at = "done" /\ accepted' = accepted
    BY <1>2 DEF Finish, ghostVars
  <2>2. CASE job.op \in {"exit", "handoff"}
    <3>1. pending = Nothing
      BY <2>2 DEF DiskKept, Flushed
    <3>2. pending' = Nothing
      BY <1>2, <2>2, <3>1 DEF Finish, Restarted
    <3> QED
      BY <1>0, <2>1, <3>1, <3>2, DiskAtRest, StageNames
  <2>3. CASE job.op \notin {"exit", "handoff"}
    <3>1. pending' = pending /\ jsOwner' = jsOwner
      BY <1>2, <2>3 DEF Finish, procVars
    <3>2. Flushed(job', pending)
      BY <1>0 DEF Flushed
    <3> QED
      BY <1>0, <2>1, <3>1, <3>2, DiskJob, StageNames
  <2> QED
    BY <2>2, <2>3
<1>3. CASE Crash
  <2>1. accepted' = acked /\ pending' = Nothing
    BY <1>3 DEF Crash, Restarted
  <2>2. \A a \in Account : OnDisk(files, a, acked[a])
    BY DEF SafeInv, FilesHoldAcked, OnDisk, Content
  <2> QED
    BY <1>0, <2>1, <2>2 DEF DiskKept, PendingKept, WriteKept, FilesKept, Flushed
<1> QED
  BY <1>1, <1>2, <1>3

\* Every step.
LEMMA DiskStep ==
  ASSUME TypeOK, Shape, SafeInv, KeptParts, [Next]_vars, ~Fails
  PROVE  DiskKept(files, job, pending, jsOwner, accepted)'
<1>0. DiskKept(files, job, pending, jsOwner, accepted)
  BY DEF KeptParts
<1>1. CASE UNCHANGED <<files, job, pending, jsOwner, accepted>>
  BY <1>0, <1>1
<1>2. CASE UNCHANGED vars
  BY <1>1, <1>2 DEF vars
<1>3. CASE JobStep
  <2>1. FindAccount => job.at \notin WriteStage
    BY StageNames DEF FindAccount
  <2> QED
    BY <1>0, <1>3, <2>1, DiskMoves, DiskEnds, DiskFlush, DiskWrites, DiskRename
       DEF JobStep, Fails, Writes
<1>4. CASE MoveFails \/ Crash
  BY <1>0, <1>4, DiskMoves, DiskEnds
<1>5. CASE ForgetKey \/ Reload \/ \E a \in Account \cup {Nobody} : SignIn(a)
  BY <1>1, <1>5 DEF ForgetKey, Reload, SignIn, diskVars, procVars, ghostVars
<1>6. CASE BindAccount \/ CreateIdentity \/ SaveAgain \/ \E durable \in BOOLEAN : ChangeState(durable)
  BY <1>1, <1>6 DEF BindAccount, CreateIdentity, SaveAgain, ChangeState, diskVars, procVars, ghostVars
<1>7. CASE \E s \in Sender : RefuseSave(s) \/ DeferSave(s) \/ ScheduleFlush(s) \/ StartSave(s)
  BY <1>1, <1>7, DiskSave DEF RefuseSave, ScheduleFlush, diskVars, procVars, ghostVars
<1>8. CASE TimerFires \/ StartHandOff \/ StartExit \/ StartLoad \/ StartMigration
  <2>1. TimerFires \/ StartHandOff \/ StartExit => job.at \notin WriteStage
    BY DEF TimerFires, StartHandOff, StartExit, NoJob, WriteStage
  <2> QED
    BY <1>0, <1>8, <2>1, DiskMoves, DiskFlush
<1> QED
  BY <1>2, <1>3, <1>4, <1>5, <1>6, <1>7, <1>8 DEF Next, Fails

-----------------------------------------------------------------------------
(* The page and its calls.                                                  *)

\* Nothing more is accepted; whatever call is out was out before.
LEMMA CallsStand ==
  ASSUME SentKept(req, jsOwner, accepted), UNCHANGED <<jsOwner, accepted>>,
         \A s \in Sender : req'[s].at = "sent" =>
            \E t \in Sender : req[t].at = "sent" /\ req[t].st = req'[s].st
  PROVE  SentKept(req', jsOwner', accepted')
BY DEF SentKept

\* No call is out.
LEMMA NoneSent ==
  ASSUME \A s \in Sender : req'[s].at # "sent"
  PROVE  SentKept(req', jsOwner', accepted')
BY DEF SentKept

\* A page that is out, or loading, promises nothing.
LEMMA PageOut ==
  ASSUME js'.at \notin {"ready", "fresh"}
  PROVE  PageKept(js', jsOwner', accepted')
BY DEF PageKept

\* A page sends a state that includes what was accepted for its account, as the
\* state does that it had before.
LEMMA CallsSend ==
  ASSUME TypeOK, Shape, SafeInv, CallsKept(js, req, jsOwner, accepted),
         NEW durable \in BOOLEAN, CreateIdentity \/ ChangeState(durable) \/ SaveAgain
  PROVE  CallsKept(js, req, jsOwner, accepted)'
<1>0. /\ UNCHANGED <<jsOwner, accepted>>
      /\ PageKept(js, jsOwner, accepted)
  BY DEF CreateIdentity, ChangeState, SaveAgain, procVars, ghostVars, CallsKept
<1>1. PICK st, dur : /\ Send(st, dur) /\ js'.mem = st
                     /\ js'.at \in {"ready", "creating"}
                     /\ js'.at = "ready" => accepted[st.of] \subseteq st.has
                     /\ st.of = jsOwner => accepted[st.of] \subseteq st.has
  <2>1. CASE CreateIdentity
    <3> DEFINE st == [of |-> js.acct, has |-> {made + 1}]
    <3>1. Send(st, TRUE) /\ js' = [js EXCEPT !.at = "creating", !.mem = st] /\ js.at = "fresh"
      BY <2>1 DEF CreateIdentity
    <3>2. js'.at = "creating" /\ js'.mem = st
      BY <3>1 DEF TypeOK, Page
    <3>3. js.acct = jsOwner => accepted[js.acct] = {}
      BY <1>0, <3>1 DEF PageKept
    <3>4. st.of = js.acct
      OBVIOUS
    <3> HIDE DEF st
    <3> QED
      BY <3>1, <3>2, <3>3, <3>4
  <2>2. CASE ChangeState(durable)
    <3> DEFINE st == [of |-> js.mem.of, has |-> js.mem.has \cup {made + 1}]
    <3>1. Send(st, durable) /\ js' = [js EXCEPT !.mem = st] /\ js.at = "ready"
      BY <2>2 DEF ChangeState
    <3>2. js'.at = "ready" /\ js'.mem = st
      BY <3>1 DEF TypeOK, Page
    <3>3. accepted[js.mem.of] \subseteq js.mem.has
      BY <1>0, <3>1 DEF PageKept
    <3>4. accepted[st.of] \subseteq st.has
      BY <3>3
    <3> HIDE DEF st
    <3> QED
      BY <3>1, <3>2, <3>4
  <2>3. CASE SaveAgain
    <3>1. Send(js.mem, TRUE) /\ js' = js /\ js.at = "ready"
      BY <2>3 DEF SaveAgain
    <3>2. accepted[js.mem.of] \subseteq js.mem.has
      BY <1>0, <3>1 DEF PageKept
    <3> QED
      BY <3>1, <3>2
  <2> QED
    BY <2>1, <2>2, <2>3
<1>2. /\ req'["page"].st = st /\ req'["gone"] = req["gone"]
      /\ req["gone"].at = "none"
  <2>1. req'["page"].st = st /\ req'["gone"] = req["gone"] /\ js.at \in {"fresh", "ready"}
    BY <1>1, Names DEF Send, TypeOK, CreateIdentity, ChangeState, SaveAgain
  <2>2. js.at \in {"fresh", "ready"} => req["gone"].at = "none"
    BY OneCall, Names
  <2> QED
    BY <2>1, <2>2
<1>3. SentKept(req', jsOwner', accepted')
  BY <1>0, <1>1, <1>2 DEF SentKept, Sender
<1>4. PageKept(js', jsOwner', accepted')
  BY <1>0, <1>1 DEF PageKept
<1> QED
  BY <1>3, <1>4 DEF CallsKept

\* A page that is bound to another account, or leaves.
LEMMA CallsLeave ==
  ASSUME TypeOK, Shape, SafeInv, CallsKept(js, req, jsOwner, accepted),
         \/ BindAccount \/ Reload \/ Finish \/ Crash
  PROVE  CallsKept(js, req, jsOwner, accepted)'
<1>0. SentKept(req, jsOwner, accepted) /\ PageKept(js, jsOwner, accepted)
  BY DEF CallsKept
<1>1. CASE BindAccount
  <2>1. js'.at = "out" /\ UNCHANGED <<jsOwner, accepted>>
    BY <1>1 DEF BindAccount, NoPage, procVars, ghostVars
  <2>2. \A s \in Sender : req'[s].at = req[s].at /\ req'[s].st = req[s].st
    BY <1>1, Names DEF BindAccount, TypeOK, Call
  <2> QED
    BY <1>0, <2>1, <2>2, CallsStand, PageOut DEF CallsKept
<1>2. ASSUME PageLeaves, accepted' = accepted, jsOwner' \in {jsOwner, Nobody}
      PROVE  CallsKept(js, req, jsOwner, accepted)'
  <2>1. js'.at = "out"
    BY <1>2 DEF PageLeaves, NoPage
  <2>2. \A s \in Sender : req'[s].at = "sent" =>
           \E t \in Sender : req[t].at = "sent" /\ req[t].st = req'[s].st
    <3>1. CASE req["page"].at = "none"
      BY <1>2, <3>1 DEF PageLeaves
    <3>2. CASE req["page"].at # "none"
      <4>1. req' = [page |-> NoReq, gone |-> [req["page"] EXCEPT !.live = FALSE]]
        BY <1>2, <3>2 DEF PageLeaves
      <4>2. req'["page"].at = "none" /\ req'["gone"].at = req["page"].at
            /\ req'["gone"].st = req["page"].st
        BY <4>1, Names DEF NoReq, TypeOK, Call
      <4> QED
        BY <4>2, Names DEF Sender
    <3> QED
      BY <3>1, <3>2
  <2>3. CASE jsOwner' = jsOwner
    BY <1>0, <1>2, <2>1, <2>2, <2>3, CallsStand, PageOut DEF CallsKept
  <2>4. CASE jsOwner' = Nobody
    <3>1. \A s \in Sender : req'[s].at = "sent" => req'[s].st.of # Nobody
      <4>1. \A t \in Sender : req[t].at = "sent" => req[t].st \in State
        BY DEF TypeOK, Call, Shape, CallsShape
      <4> QED
        BY <2>2, <4>1, Apart DEF State
    <3>2. SentKept(req', jsOwner', accepted')
      BY <2>4, <3>1 DEF SentKept
    <3> QED
      BY <2>1, <3>2, PageOut DEF CallsKept
  <2> QED
    BY <1>2, <2>3, <2>4
<1>3. ASSUME Restarted PROVE CallsKept(js, req, jsOwner, accepted)'
  <2>1. js'.at = "out" /\ \A s \in Sender : req'[s].at = "none"
    BY <1>3 DEF Restarted, NoPage, NoReq
  <2> QED
    BY <2>1, NoneSent, PageOut DEF CallsKept
<1>4. CASE Reload
  BY <1>2, <1>4 DEF Reload, procVars, ghostVars
<1>5. CASE Crash
  BY <1>3, <1>5 DEF Crash
<1>6. CASE Finish
  <2>1. accepted' = accepted
    BY <1>6 DEF Finish, ghostVars
  <2>2. CASE job.op = "exit"
    BY <1>3, <1>6, <2>2 DEF Finish
  <2>3. CASE job.op = "handoff"
    BY <1>2, <1>6, <2>1, <2>3 DEF Finish
  <2>4. CASE job.op \notin {"exit", "handoff"}
    <3>1. UNCHANGED <<js, req, jsOwner>>
      BY <1>6, <2>4 DEF Finish, procVars, pageVars
    <3> QED
      BY <1>0, <2>1, <3>1 DEF CallsKept
  <2> QED
    BY <2>2, <2>3, <2>4
<1> QED
  BY <1>1, <1>4, <1>5, <1>6

\* Answers: a live save was sent from the state the page still has.
LEMMA CallsAnswered ==
  ASSUME TypeOK, Shape, SafeInv, CallsKept(js, req, jsOwner, accepted), NEW s \in Sender,
         RefuseSave(s) \/ DeferSave(s) \/ ScheduleFlush(s)
  PROVE  CallsKept(js, req, jsOwner, accepted)'
<1>0. SentKept(req, jsOwner, accepted) /\ PageKept(js, jsOwner, accepted) /\ jsOwner' = jsOwner
  BY DEF CallsKept, RefuseSave, DeferSave, ScheduleFlush, procVars
<1>1. CASE RefuseSave(s) \/ ScheduleFlush(s)
  <2>1. accepted' = accepted /\ req' = Answered(s) /\ req[s].at # "none"
    BY <1>1 DEF RefuseSave, ScheduleFlush, Refused, ghostVars
  <2>2. \A t \in Sender : req'[t].at # "sent"
    BY <2>1, AnsweredCalls
  <2>3. js' = js \/ js'.at = "out"
    <3>1. CASE RefuseSave(s)
      BY <3>1 DEF RefuseSave, Refused, NoPage, TypeOK, Page
    <3>2. CASE ScheduleFlush(s)
      BY <3>2 DEF ScheduleFlush
    <3> QED
      BY <1>1, <3>1, <3>2
  <2>4. PageKept(js', jsOwner', accepted')
    BY <1>0, <2>1, <2>3 DEF PageKept
  <2> QED
    BY <2>2, <2>4, NoneSent DEF CallsKept
<1>2. CASE DeferSave(s)
  <2>1. /\ js' = js /\ Accept(s) /\ req[s].at = "sent" /\ req[s].st.of = jsOwner
        /\ req' = [req EXCEPT ![s].at = "deferred"]
    BY <1>2 DEF DeferSave, MayWrite
  <2>2. \A t \in Sender : req'[t].at # "sent"
    <3>1. req'[s].at = "deferred" /\ \A t \in Sender \ {s} : req'[t] = req[t]
      BY <2>1 DEF TypeOK, Call
    <3>2. \A t \in Sender \ {s} : req[t].at = "none"
      BY <2>1, OneCall
    <3> QED
      BY <3>1, <3>2
  <2>3. PageKept(js, jsOwner, accepted')
    <3>1. /\ accepted'[jsOwner] \subseteq req[s].st.has
          /\ ~req[s].live => accepted' = accepted
      BY <1>0, <2>1, AcceptGrows
    <3>2. CASE ~req[s].live
      BY <1>0, <3>1, <3>2
    <3>3. CASE req[s].live
      <4>1. js.at \in {"creating", "ready"} /\ js.mem = req[s].st
        BY <2>1, <3>3 DEF SafeInv, CallsInOrder
      <4> QED
        BY <2>1, <3>1, <4>1 DEF PageKept
    <3> QED
      BY <3>2, <3>3
  <2> QED
    BY <1>0, <2>1, <2>2, <2>3, NoneSent DEF CallsKept
<1> QED
  BY <1>1, <1>2

LEMMA CallsRename ==
  ASSUME TypeOK, Shape, SafeInv, CallsKept(js, req, jsOwner, accepted),
         job.at \in WriteStage => job.to = jsOwner, RenameTmp
  PROVE  CallsKept(js, req, jsOwner, accepted)'
<1>0. SentKept(req, jsOwner, accepted) /\ PageKept(js, jsOwner, accepted) /\ jsOwner' = jsOwner
  BY DEF CallsKept, RenameTmp
<1>1. CASE job.op # "save"
  BY <1>0, <1>1 DEF RenameTmp, ghostVars, CallsKept
<1>2. CASE job.op = "save"
  <2> DEFINE s == job.from
  <2>1. /\ Confirm(s) /\ s \in Sender /\ req[s].at = "sent" /\ req[s].st = job.st
    BY <1>2 DEF RenameTmp, SafeInv, JobsInOrder, TypeOK, Job
  <2>2. req[s].st.of = jsOwner
    BY <2>1, RenameConfirms
  <2> HIDE DEF s
  <2>3. \A t \in Sender : req'[t].at # "sent"
    BY <2>1, AnsweredCalls DEF Confirm
  <2>4. /\ accepted'[jsOwner] \subseteq req[s].st.has
        /\ ~req[s].live => accepted' = accepted
    BY <1>0, <2>1, <2>2, AcceptGrows DEF Confirm
  <2>5. CASE ~req[s].live
    <3>1. js' = js /\ accepted' = accepted
      BY <2>1, <2>4, <2>5 DEF Confirm
    <3> QED
      BY <1>0, <2>3, <3>1, NoneSent DEF CallsKept
  <2>6. CASE req[s].live
    <3>1. s = "page" /\ js.at \in {"creating", "ready"} /\ js.mem = req[s].st
      BY <2>1, <2>6 DEF SafeInv, CallsInOrder
    <3>2. js'.at = "ready" /\ js'.mem = req[s].st
      BY <2>1, <2>6, <3>1 DEF Confirm, TypeOK, Page
    <3>3. PageKept(js', jsOwner', accepted')
      BY <1>0, <2>2, <2>4, <3>2 DEF PageKept
    <3> QED
      BY <2>3, <3>3, NoneSent DEF CallsKept
  <2> QED
    BY <2>5, <2>6
<1> QED
  BY <1>1, <1>2

\* A load finds what was accepted where it is on disk.
LEMMA LoadFindsKept ==
  ASSUME TypeOK, SafeInv, NEW a \in Account, InUse(a), NEW st, OnDisk(files, a, accepted[a]),
         st = LoadState(files[a], KeyAtHand), st # Unreadable
  PROVE  /\ st = Nothing => accepted[a] = {}
         /\ st # Nothing => st.of = a /\ accepted[a] \subseteq st.has
<1> DEFINE k == KeyAtHand
           best == BestFile(files[a], k)
<1>1. a \in Dir /\ files[a] \in [FileName -> File]
  BY Names DEF TypeOK
<1>0. /\ MainOf(files, a) = files[a]["main"]
      /\ files[a]["main"] # Nothing =>
            /\ files[a]["main"] # Unreadable
            /\ entry # 0 => files[a]["main"].key = entry
            /\ cached # 0 => files[a]["main"].key = cached
  <2>1. MainOf(files, a) = files[a]["main"]
    BY InUseSettled DEF SafeInv
  <2> QED
    BY <2>1 DEF SafeInv, FilesHoldAcked
<1>2. st = Nothing => accepted[a] = {}
  <2>1. accepted[a] # {} => CommittedIn(files[a])
    BY <1>0 DEF OnDisk, CommittedIn
  <2>2. Opens(k, files[a][best]) => StateIn(files[a][best]) \in State
    <3>1. files[a][best] \in File
      BY <1>1, Names DEF BestFile
    <3> QED
      BY <3>1 DEF Opens, StateIn, File, Blob, State
  <2> QED
    BY <2>1, <2>2, Apart DEF LoadState
<1>3. ASSUME st # Nothing
      PROVE  accepted[a] \subseteq st.has
  <2>1. st = StateIn(files[a][best]) /\ Opens(k, files[a][best]) /\ k # 0
    BY <1>3 DEF LoadState
  <2>2. Content(files[a][best]) /\ st.has = files[a][best].has
    BY <2>1 DEF Opens, Content, StateIn
  <2>3. files[a]["main"] # Nothing => Opens(k, files[a]["main"])
    BY <1>0, <2>1, Apart DEF Opens, KeyAtHand
  <2>4. CASE best = "tmp"
    BY <2>2, <2>4 DEF OnDisk
  <2>5. CASE best = "main"
    BY <1>0, <2>2, <2>5 DEF OnDisk
  <2>6. CASE best = "bak"
    <3>1. files[a]["main"] = Nothing
      BY <2>3, <2>6 DEF BestFile
    <3> QED
      BY <1>0, <3>1 DEF OnDisk
  <2> QED
    BY <2>4, <2>5, <2>6 DEF BestFile
<1>4. st # Nothing => st.of = a
  BY LoadFindsAcked
<1> QED
  BY <1>2, <1>3, <1>4

LEMMA CallsLoad ==
  ASSUME TypeOK, Shape, SafeInv, KeptParts,
         StartLoad \/ NoAccount \/ LoadFails \/ Load, "late" \notin Faults
  PROVE  CallsKept(js, req, jsOwner, accepted)'
<1>1. req' = req /\ accepted' = accepted
  BY DEF StartLoad, NoAccount, LoadFails, Load, ghostVars
<1>2. \A s \in Sender : req'[s].at # "sent"
  BY <1>1 DEF StartLoad, Fault, NoAccount, LoadFails, Load, SafeInv, JobsInOrder
<1>3. js.at \in {"out", "loading"}
  BY DEF StartLoad, NoAccount, LoadFails, Load, SafeInv, JobsInOrder
<1>4. ASSUME LoadAnswered("out", Nothing) PROVE js'.at \in {"out", "loading"}
  BY <1>3, <1>4 DEF LoadAnswered, TypeOK, Page
<1>5. CASE StartLoad
  <2>1. js'.at = "loading"
    BY <1>5 DEF StartLoad, TypeOK, Page
  <2> QED
    BY <1>2, <2>1, NoneSent, PageOut DEF CallsKept
<1>6. CASE NoAccount \/ LoadFails
  <2>1. js'.at \in {"out", "loading"}
    BY <1>4, <1>6 DEF NoAccount, LoadFails
  <2> QED
    BY <1>2, <2>1, NoneSent, PageOut DEF CallsKept
<1>7. CASE Load
  <2> DEFINE st == LoadState(files[job.dir], KeyAtHand)
  <2>1. /\ job.dir \in Account /\ InUse(job.dir) /\ jsOwner' = job.dir
        /\ st # Unreadable /\ job.at = "read"
    BY <1>7 DEF Load, Shape, JobShape, InUse
  <2>2. OnDisk(files, job.dir, accepted[job.dir])
    <3>1. pending = Nothing /\ job.at \notin WriteStage
      BY <2>1, StageNames DEF KeptParts, DiskKept, Flushed, SafeInv, JobsInOrder
    <3> QED
      BY <2>1, <3>1 DEF KeptParts, DiskKept, FilesKept
  <2>3. /\ st = Nothing => accepted[job.dir] = {}
        /\ st # Nothing => st.of = job.dir /\ accepted[job.dir] \subseteq st.has
    BY <2>1, <2>2, LoadFindsKept
  <2>4. \/ js'.at = "fresh" /\ st = Nothing
        \/ js'.at = "ready" /\ js'.mem = st /\ st # Nothing
        \/ js'.at \in {"out", "loading"}
    <3>1. CASE st = Nothing
      <4>1. LoadAnswered("fresh", Nothing)
        BY <1>7, <3>1 DEF Load
      <4> QED
        BY <1>3, <3>1, <4>1 DEF LoadAnswered, TypeOK, Page
    <3>2. CASE st # Nothing /\ js.at = "loading" /\ js.acct = job.dir
      <4>1. LoadAnswered("ready", st)
        BY <1>7, <3>2 DEF Load
      <4> HIDE DEF st
      <4> QED
        BY <3>2, <4>1 DEF LoadAnswered, TypeOK, Page
    <3>3. CASE st # Nothing /\ ~(js.at = "loading" /\ js.acct = job.dir)
      <4>1. LoadAnswered("out", Nothing)
        BY <1>7, <3>3 DEF Load
      <4> QED
        BY <1>4, <4>1
    <3> QED
      BY <3>1, <3>2, <3>3
  <2> HIDE DEF st
  <2>5. PageKept(js', jsOwner', accepted')
    BY <1>1, <2>1, <2>3, <2>4 DEF PageKept
  <2> QED
    BY <1>2, <2>5, NoneSent DEF CallsKept
<1> QED
  BY <1>5, <1>6, <1>7

\* Every step.
LEMMA CallsStep ==
  ASSUME TypeOK, Shape, SafeInv, KeptParts, [Next]_vars, ~Fails, "late" \notin Faults
  PROVE  CallsKept(js, req, jsOwner, accepted)'
<1>0. CallsKept(js, req, jsOwner, accepted)
  BY DEF KeptParts
<1>1. CASE UNCHANGED <<js, req, jsOwner, accepted>>
  BY <1>0, <1>1
<1>2. CASE UNCHANGED vars
  BY <1>1, <1>2 DEF vars
<1>3. CASE ObtainKey \/ Writes \/ Migrate \/ WriteMarker \/ Move \/ MovesDone \/ MoveFails \/ FindAccount
  BY <1>1, <1>3 DEF ObtainKey, Writes, CreateTmp, SyncTmp, CopyToBak, SyncBak, WriteStep, Migrate,
       WriteMarker, Move, MovesDone, MoveFails, FindAccount, procVars, pageVars, ghostVars
<1>4. CASE RenameTmp
  <2>1. job.at \in WriteStage => job.to = jsOwner
    BY DEF KeptParts, DiskKept, WriteKept
  <2> QED
    BY <1>0, <1>4, <2>1, CallsRename
<1>5. CASE NoAccount \/ LoadFails \/ Load \/ StartLoad
  BY <1>5, CallsLoad
<1>6. CASE Finish \/ Crash \/ Reload \/ BindAccount
  BY <1>0, <1>6, CallsLeave
<1>7. CASE ForgetKey \/ StartMigration \/ TimerFires \/ StartHandOff \/ StartExit
  BY <1>1, <1>7 DEF ForgetKey, StartMigration, TimerFires, StartHandOff, StartExit,
       procVars, pageVars, ghostVars
<1>8. CASE \E a \in Account \cup {Nobody} : SignIn(a)
  BY <1>1, <1>8 DEF SignIn, procVars, pageVars, ghostVars
<1>9. CASE CreateIdentity \/ SaveAgain \/ \E durable \in BOOLEAN : ChangeState(durable)
  BY <1>0, <1>9, CallsSend
<1>10. CASE \E s \in Sender : RefuseSave(s) \/ DeferSave(s) \/ ScheduleFlush(s)
  BY <1>0, <1>10, CallsAnswered
<1>11. CASE \E s \in Sender : StartSave(s)
  BY <1>1, <1>11 DEF StartSave, procVars, pageVars, ghostVars
<1> QED
  BY <1>2, <1>3, <1>4, <1>5, <1>6, <1>7, <1>8, <1>9, <1>10, <1>11 DEF Next, JobStep, Fails, Writes

-----------------------------------------------------------------------------
(* The theorems about what was accepted.                                    *)

LEMMA KeptInit == Init => KeptInv
<1> SUFFICES ASSUME Init PROVE KeptInv
  OBVIOUS
<1>1. /\ pending = Nothing /\ job = NoJob /\ js = NoPage /\ req = [s \in Sender |-> NoReq]
  BY DEF Init
<1>2. \A a \in Account : OnDisk(files, a, accepted[a])
  BY HoldInit DEF OnDisk, Content
<1>3. DiskKept(files, job, pending, jsOwner, accepted)
  BY <1>1, <1>2, StageNames
     DEF DiskKept, PendingKept, WriteKept, Flushed, FilesKept, NoJob
<1>4. CallsKept(js, req, jsOwner, accepted)
  BY <1>1 DEF CallsKept, SentKept, PageKept, NoPage, NoReq
<1> QED
  BY <1>3, <1>4 DEF KeptInv, KeptParts

LEMMA KeptStep ==
  ASSUME Faults \cap {"late", "write", "keyring"} = {},
         TypeOK, Shape, SafeOrLost, KeptInv, [Next]_vars
  PROVE  KeptInv'
<1>1. CASE Lost
  BY <1>1, LostStays DEF KeptInv, SafeOrLost
<1>2. CASE ~Lost
  <2>1. SafeInv /\ KeptParts /\ ~Fails
    BY <1>2, FailsLost DEF KeptInv, SafeOrLost
  <2>2. KeptParts'
    BY <2>1, DiskStep, CallsStep DEF KeptParts
  <2> QED
    BY <2>2 DEF KeptInv
<1> QED
  BY <1>1, <1>2

\* Where no write fails and no load overtakes a save, an accepted state is on
\* disk, being written or in PENDING until a crash, and a confirmed one is on
\* disk for good: no exit, hand-off, reload, change of account or migration
\* loses any, the legacy state included.
THEOREM NothingKeptIsLostAlways ==
  ASSUME Faults \cap {"late", "write", "keyring"} = {}, MigrationFinds
  PROVE  Spec => []NothingKeptIsLost
<1>1. Init => KeptInv
  BY KeptInit
<1>2. TypeOK /\ Shape /\ SafeOrLost /\ KeptInv /\ [Next]_vars => KeptInv'
  BY KeptStep
<1>3. TypeOK /\ SafeOrLost /\ KeptInv => AcceptedKept
  <2>1. SUFFICES ASSUME TypeOK, SafeOrLost, KeptInv, NEW a \in Account,
                        accepted[a] # {}, entry # 0
                 PROVE  \/ Holds(Recoverable(a), accepted[a])
                        \/ pending # Nothing /\ pending.dir = a /\ Holds(pending.st, accepted[a])
                        \/ job.to = a /\ Holds(job.st, accepted[a])
    BY DEF AcceptedKept
  <2>2. SafeInv /\ DiskKept(files, job, pending, jsOwner, accepted)
    BY <2>1 DEF KeptInv, KeptParts, SafeOrLost, Lost
  <2>3. CASE a = jsOwner /\ pending # Nothing
    <3>1. pending.st \in State
      BY <2>1, <2>3 DEF TypeOK, Deferred
    <3> QED
      BY <2>2, <2>3, <3>1, Apart DEF DiskKept, PendingKept, Holds
  <2>4. CASE a = jsOwner /\ job.at \in WriteStage
    <3>1. job.st \in State
      BY <2>1, <2>2, <2>4 DEF TypeOK, Job, SafeInv, WritesFit
    <3> QED
      BY <2>2, <2>4, <3>1, Apart DEF DiskKept, WriteKept, Holds
  <2>5. CASE OnDisk(files, a, accepted[a])
    BY <2>1, <2>2, <2>5, NextLaunch
  <2> QED
    BY <2>2, <2>3, <2>4, <2>5 DEF DiskKept, FilesKept
<1>4. "late" \notin Faults
  OBVIOUS
<1>5. Spec => []AckedSurvives
  BY <1>4, AckedSurvivesAlways
<1>6. Spec => []SafeOrLost
  BY <1>4, SafeOrLostAlways
<1>7. AckedSurvives /\ AcceptedKept => NothingKeptIsLost
  BY DEF NothingKeptIsLost
<1> QED
  BY <1>1, <1>2, <1>3, <1>5, <1>6, <1>7, StoreTypeCorrect, PTL DEF Spec

-----------------------------------------------------------------------------
(* The store implements a StateCell per account.                             *)

\* Every key in use was generated; nothing is on disk before the first was.
KeysKnown ==
    /\ entry <= keys /\ cached <= keys
    /\ \A d \in Dir, n \in FileName : Content(files[d][n]) => files[d][n].key <= keys
    /\ keys = 0 => \A d \in Dir, n \in FileName : files[d][n] = Nothing

\* Only a write that finds no key makes one, and nothing else brings one back.
LEMMA KeysStay ==
  ASSUME [Next]_vars
  PROVE  \/ keys' = keys /\ entry' \in {entry, 0}
         \/ ObtainKey /\ KeyAtHand = 0 /\ MayCreateKey
            /\ keys' = keys + 1 /\ entry' = keys + 1 /\ cached' = keys + 1
<1>1. CASE UNCHANGED vars
  BY <1>1 DEF vars
<1>2. CASE \/ \E a \in Account \cup {Nobody} : SignIn(a)
           \/ BindAccount \/ CreateIdentity \/ SaveAgain \/ Reload
           \/ \E durable \in BOOLEAN : ChangeState(durable)
           \/ \E s \in Sender : RefuseSave(s) \/ DeferSave(s) \/ ScheduleFlush(s) \/ StartSave(s)
  BY <1>2 DEF SignIn, BindAccount, CreateIdentity, SaveAgain, Reload, ChangeState,
              RefuseSave, DeferSave, ScheduleFlush, StartSave, diskVars
<1>3. CASE TimerFires \/ StartHandOff \/ StartExit \/ StartLoad \/ StartMigration
  BY <1>3 DEF TimerFires, StartHandOff, StartExit, StartLoad, StartMigration, diskVars
<1>4. CASE Crash \/ Finish
  BY <1>4 DEF Crash, Finish, Restarted, diskVars
<1>5. CASE KeyRefused \/ WriteError \/ MoveFails \/ MovesDone
  BY <1>5 DEF KeyRefused, WriteError, MoveFails, MovesDone, diskVars
<1>6. CASE CreateTmp \/ SyncTmp \/ CopyToBak \/ SyncBak \/ RenameTmp
  BY <1>6 DEF CreateTmp, SyncTmp, CopyToBak, SyncBak, WriteStep, RenameTmp
<1>7. CASE Migrate \/ WriteMarker \/ Move \/ FindAccount \/ NoAccount \/ LoadFails \/ Load
  BY <1>7 DEF Migrate, WriteMarker, Move, FindAccount, NoAccount, LoadFails, Load, diskVars
<1>8. CASE ObtainKey \/ ForgetKey
  BY <1>8 DEF ObtainKey, ForgetKey
<1> QED
  BY <1>1, <1>2, <1>3, <1>4, <1>5, <1>6, <1>7, <1>8 DEF Next, JobStep

\* What a step writes into a file was there, or is the new state, under the key
\* in use.
LEMMA FilesComeFrom ==
  ASSUME TypeOK, Shape, [Next]_vars
  PROVE  \/ files' = files
         \/ \A d \in Dir, n \in FileName :
              \/ files'[d][n] \in {Nothing, Unreadable}
              \/ \E e \in Dir, m \in FileName : files'[d][n] = files[e][m]
              \/ files'[d][n] = NewBlob
<1>1. CASE StaysPut \/ LeavesFiles \/ Flushes \/ Migrates \/ Marks \/ Fails
  BY <1>1, FailsResult DEF StaysPut, LeavesFiles, Flushes, Migrates, Marks
<1>2. CASE \E s \in Sender : DeferSave(s) \/ StartSave(s)
  BY <1>2 DEF DeferSave, StartSave, diskVars
<1>3. CASE ObtainKey \/ ForgetKey
  BY <1>3 DEF ObtainKey, ForgetKey
<1>4. CASE Move
  BY <1>4, MoveResult, Names
<1>5. CASE Writes
  <2>1. job.to \in Dir
    BY DEF TypeOK, Job
  <2> QED
    BY <1>5, <2>1, FileSteps, Names DEF Writes, FileName
<1>6. CASE RenameTmp
  <2>1. job.to \in Dir
    BY DEF TypeOK, Job
  <2> QED
    BY <1>6, <2>1, RenameResult, Names DEF FileName
<1> QED
  BY <1>1, <1>2, <1>3, <1>4, <1>5, <1>6, StepKinds

LEMMA KnownInit == Init => KeysKnown
<1> SUFFICES ASSUME Init PROVE KeysKnown
  OBVIOUS
<1>1. CASE LegacyOwner = Nobody
  <2>1. \A d \in Dir, n \in FileName : files[d][n] = Nothing
    BY <1>1 DEF Init, NoFiles
  <2> QED
    BY <1>1, <2>1 DEF Init, KeysKnown, Content
<1>2. CASE LegacyOwner # Nobody
  <2>1. PICK fs \in LegacyFiles : files = [d \in Dir |-> IF d = Root THEN fs ELSE NoFiles]
    BY <1>2 DEF Init
  <2>2. \A n \in FileName : fs[n] \in {Nothing, Unreadable} \/ fs[n].key = 1
    BY <2>1 DEF LegacyFiles, FileName
  <2>3. \A d \in Dir, n \in FileName : Content(files[d][n]) => files[d][n].key = 1
    BY <2>1, <2>2 DEF NoFiles, Content
  <2> QED
    BY <1>2, <2>3 DEF Init, KeysKnown
<1> QED
  BY <1>1, <1>2

\* Before there is a key nothing is written.
LEMMA NoKeyNoFile ==
  ASSUME TypeOK, Shape, KeyInv, KeysKnown, [Next]_vars, keys = 0
  PROVE  files' = files
<1>1. cached = 0
  BY DEF KeysKnown, TypeOK
<1>2. ~Writes /\ ~RenameTmp
  <2>1. SUFFICES ASSUME Writes \/ RenameTmp PROVE FALSE
    OBVIOUS
  <2>2. job.at \in WriteStage \ {"key"}
    BY <2>1, FileSteps, StageNames DEF Writes, RenameTmp
  <2> QED
    BY <1>1, <2>2 DEF KeyInv, KeysAgree
<1>3. ~Move
  BY Names DEF Move, PresentIn, CommittedIn, KeysKnown
<1>4. CASE StaysPut \/ LeavesFiles \/ Flushes \/ Migrates \/ Marks \/ Fails
  BY <1>4, FailsResult DEF StaysPut, LeavesFiles, Flushes, Migrates, Marks
<1>5. CASE \E s \in Sender : DeferSave(s) \/ StartSave(s)
  BY <1>5 DEF DeferSave, StartSave, diskVars
<1>6. CASE ObtainKey \/ ForgetKey
  BY <1>6 DEF ObtainKey, ForgetKey
<1> QED
  BY <1>2, <1>3, <1>4, <1>5, <1>6, StepKinds

\* The key in memory is the one there was, or the keyring's.
LEMMA CachedFrom ==
  ASSUME TypeOK, Shape, [Next]_vars
  PROVE  cached' \in {0, cached, entry} \/ ObtainKey
<1>1. KeyAtHand \in {cached, entry}
  BY DEF KeyAtHand
<1>2. CASE StaysPut \/ LeavesFiles \/ Flushes \/ Migrates \/ Marks \/ Fails
  BY <1>1, <1>2, FailsResult DEF StaysPut, LeavesFiles, Flushes, Migrates, Marks
<1>3. CASE \E s \in Sender : DeferSave(s) \/ StartSave(s)
  BY <1>3 DEF DeferSave, StartSave, procVars
<1>4. CASE Move \/ RenameTmp \/ ForgetKey
  BY <1>4 DEF Move, RenameTmp, ForgetKey, procVars
<1>5. CASE Writes
  BY <1>5 DEF Writes, CreateTmp, SyncTmp, CopyToBak, SyncBak, WriteStep, procVars
<1> QED
  BY <1>2, <1>3, <1>4, <1>5, StepKinds

LEMMA KnownStep ==
  ASSUME TypeOK, Shape, KeyInv, KeysKnown, [Next]_vars
  PROVE  KeysKnown'
<1>1. /\ keys \in Nat /\ entry \in Nat /\ cached \in Nat /\ keys <= keys'
      /\ keys' = keys \/ keys' = keys + 1
  BY KeysStay DEF TypeOK
<1>2. entry' <= keys'
  BY <1>1, KeysStay DEF KeysKnown
<1>3. cached' <= keys'
  <2>1. CASE cached' \in {0, cached, entry}
    BY <1>1, <2>1 DEF KeysKnown
  <2>2. CASE ObtainKey
    <3>1. cached' \in {cached, entry} \/ (cached' = keys + 1 /\ keys' = keys + 1)
      BY <2>2 DEF ObtainKey, KeyAtHand
    <3> QED
      BY <1>1, <2>1, <3>1
  <2> QED
    BY <2>1, <2>2, CachedFrom
<1>4. ASSUME NEW d \in Dir, NEW n \in FileName, Content(files'[d][n])
      PROVE  files'[d][n].key <= keys'
  <2>1. \/ \E e \in Dir, m \in FileName : files'[d][n] = files[e][m]
        \/ files'[d][n] = NewBlob
    BY <1>4, FilesComeFrom DEF Content
  <2>2. CASE files'[d][n] = NewBlob
    BY <1>1, <2>2 DEF NewBlob, KeysKnown
  <2>3. ASSUME NEW e \in Dir, NEW m \in FileName, files'[d][n] = files[e][m]
        PROVE  files'[d][n].key <= keys'
    <3>1. files[e][m].key <= keys
      BY <1>4, <2>3 DEF KeysKnown
    <3>2. files[e][m].key \in Nat
      BY <1>4, <2>3 DEF TypeOK, File, Blob, Content
    <3> QED
      BY <1>1, <2>3, <3>1, <3>2
  <2> QED
    BY <2>1, <2>2, <2>3
<1>5. keys' = 0 => \A d \in Dir, n \in FileName : files'[d][n] = Nothing
  BY <1>1, NoKeyNoFile DEF KeysKnown
<1> QED
  BY <1>2, <1>3, <1>4, <1>5 DEF KeysKnown

\* A backup is made of a main file, which stays.
BakHasMain == \A a \in Account : files[a]["bak"] # Nothing => MainOf(files, a) # Nothing
BakInv == Lost \/ BakHasMain

LEMMA BakInit == Init => BakInv
<1> SUFFICES ASSUME Init PROVE BakHasMain
  BY DEF BakInv
<1>1. \A a \in Account : files[a]["bak"] = Nothing
  <2>1. CASE LegacyOwner = Nobody
    BY <2>1, Names DEF Init, NoFiles
  <2>2. CASE LegacyOwner # Nobody
    <3>1. PICK fs \in LegacyFiles : files = [d \in Dir |-> IF d = Root THEN fs ELSE NoFiles]
      BY <2>2 DEF Init
    <3> QED
      BY <3>1, Names, Apart DEF NoFiles
  <2> QED
    BY <2>1, <2>2
<1> QED
  BY <1>1 DEF BakHasMain

\* An account whose main file, or whose wait for one, a step leaves alone.
LEMMA SameBak ==
  ASSUME BakHasMain, \A a \in Account : /\ files'[a]["bak"] = files[a]["bak"]
                                        /\ MainOf(files', a) = MainOf(files, a)
  PROVE  BakHasMain'
BY DEF BakHasMain

LEMMA BakStep ==
  ASSUME TypeOK, Shape, SafeInv, BakHasMain, [Next]_vars
  PROVE  BakHasMain'
<1>1. CASE files' = files
  BY <1>1, SameBak
<1>2. CASE StaysPut \/ LeavesFiles \/ Flushes \/ Migrates \/ Marks \/ Fails
  BY <1>1, <1>2, FailsResult DEF StaysPut, LeavesFiles, Flushes, Migrates, Marks
<1>3. CASE \E s \in Sender : DeferSave(s) \/ StartSave(s)
  BY <1>1, <1>3 DEF DeferSave, StartSave, diskVars
<1>4. CASE ObtainKey \/ ForgetKey
  BY <1>1, <1>4 DEF ObtainKey, ForgetKey
<1>5. CASE Move
  <2>1. \A a \in Account : MainOf(files', a) = MainOf(files, a)
    BY <1>5, MoveKeepsMain DEF SafeInv
  <2>2. job.dir = LegacyOwner /\ LegacyOwner \in Account
    BY <1>5, MoveResult DEF SafeInv, OwnInv, JobOwn
  <2>3. \A a \in Account \ {LegacyOwner} : files'[a]["bak"] = files[a]["bak"]
    BY <1>5, <2>2, MoveResult, Names, Apart
  <2>4. Waits
    BY <1>5, MoveResult, Names DEF SafeInv, LegacyApart, NoFiles
  <2>5. MainOf(files, LegacyOwner) # Nothing
    BY <2>4 DEF Waits, MainOf
  <2> QED
    BY <2>1, <2>3, <2>5 DEF BakHasMain
<1>6. CASE Writes
  <2>1. /\ job.to \in Account /\ job.at \in WriteStage
        /\ job.at \in {"copy", "copied"} => files[job.to]["main"] # Nothing
    BY <1>6, FileSteps, StageNames, NewBlobType DEF Writes, SafeInv, KeyInv, CopiesMain
  <2>2. \A a \in Account : MainOf(files', a) = MainOf(files, a)
    BY <1>6, <2>1, FileSteps, Names, Apart DEF Writes, MainOf
  <2>3. MainOf(files, job.to) = files[job.to]["main"]
    BY <2>1, InUseSettled DEF InUse, SafeInv
  <2>4. \A a \in Account \ {job.to} : files'[a]["bak"] = files[a]["bak"]
    BY <1>6, <2>1, FileSteps, Names DEF Writes
  <2>5. files'[job.to]["bak"] = files[job.to]["bak"] \/ files[job.to]["main"] # Nothing
    BY <1>6, <2>1, FileSteps DEF Writes
  <2> QED
    BY <2>2, <2>3, <2>4, <2>5 DEF BakHasMain
<1>7. CASE RenameTmp
  <2>1. job.to \in Account /\ job.at \in WriteStage
    BY <1>7, RenameConfirms
  <2>2. files'[job.to]["main"] # Nothing
    BY <1>7, <2>1, RenameResult, NewBlobType, Apart DEF RenameTmp, SafeInv, KeyInv, TmpIsNew
  <2>3. \A a \in Account \ {job.to} : files'[a] = files[a]
    BY <1>7, RenameResult, Names
  <2>4. files'[Root] = files[Root]
    BY <1>7, <2>1, RenameResult, Names, Apart
  <2>5. MainOf(files', job.to) # Nothing
    BY <2>2, <2>4 DEF MainOf
  <2>6. \A a \in Account \ {job.to} : MainOf(files', a) = MainOf(files, a)
    BY <2>3, <2>4 DEF MainOf
  <2> QED
    BY <2>3, <2>5, <2>6 DEF BakHasMain
<1> QED
  BY <1>2, <1>3, <1>4, <1>5, <1>6, <1>7, StepKinds

\* While the key is there, all these invariants hold.
CellInv == SafeOrLost /\ KeysKnown /\ BakInv

LEMMA CellStep ==
  ASSUME "late" \notin Faults, MigrationFinds, TypeOK, Shape, CellInv, [Next]_vars
  PROVE  CellInv'
<1>1. OwnInv' /\ KeyInv' /\ KeysKnown'
  BY OwnStep, KeyStep, KnownStep DEF CellInv, SafeOrLost
<1>2. CASE Lost
  BY <1>2, LostStays, SafeStep, <1>1 DEF CellInv, SafeOrLost, BakInv
<1>3. CASE ~Lost
  BY <1>1, <1>3, SafeStep, BakStep DEF CellInv, SafeOrLost, BakInv
<1> QED
  BY <1>2, <1>3

\* What a launch finds for an account: the tmp file if it opens, else what the
\* main file holds.
Newest(fs, a, k) ==
    IF Opens(k, fs[a]["tmp"]) THEN fs[a]["tmp"].has ELSE HasIn(MainOf(fs, a))

LEMMA Latest ==
  ASSUME TypeOK, SafeInv, BakHasMain, entry # 0, NEW a \in Account
  PROVE  HasIn(Recoverable(a)) = Newest(files, a, entry)
<1>1. PICK fs \in [FileName -> File] :
        /\ Recoverable(a) = LoadState(fs, entry) /\ fs["main"] = MainOf(files, a)
        /\ \/ fs["tmp"] = files[a]["tmp"]
           \/ {fs["tmp"], files[a]["tmp"]} \subseteq {Nothing, Unreadable}
        /\ MainOf(files, a) = Nothing => fs = files[a]
  BY LaunchFiles
<1>2. Opens(entry, files[a]["tmp"]) <=> Opens(entry, fs["tmp"])
  BY <1>1 DEF Opens
<1>3. /\ fs["main"] # Nothing => Opens(entry, fs["main"])
      /\ fs["main"] = Nothing => fs["bak"] = Nothing
  BY <1>1 DEF SafeInv, FilesHoldAcked, BakHasMain, Opens
<1>4. ASSUME NEW n \in FileName, Opens(entry, fs[n]), BestFile(fs, entry) = n
      PROVE  HasIn(LoadState(fs, entry)) = fs[n].has
  <2>1. LoadState(fs, entry) = StateIn(fs[n])
    BY <1>4 DEF LoadState
  <2>2. StateIn(fs[n]) \in State
    BY <1>4 DEF Opens, StateIn, File, Blob, State
  <2> QED
    BY <2>1, <2>2, Apart DEF HasIn, StateIn
<1>5. CASE Opens(entry, fs["tmp"])
  <2>1. BestFile(fs, entry) = "tmp"
    BY <1>5 DEF BestFile
  <2>2. fs["tmp"] = files[a]["tmp"]
    BY <1>1, <1>5 DEF Opens
  <2> QED
    BY <1>1, <1>2, <1>4, <1>5, <2>1, <2>2, Names DEF Newest
<1>6. CASE ~Opens(entry, fs["tmp"]) /\ fs["main"] # Nothing
  <2>1. BestFile(fs, entry) = "main"
    BY <1>3, <1>6 DEF BestFile
  <2>2. HasIn(LoadState(fs, entry)) = fs["main"].has
    BY <1>3, <1>4, <1>6, <2>1, Names
  <2>3. HasIn(MainOf(files, a)) = fs["main"].has
    BY <1>1, <1>3, <1>6 DEF HasIn, Opens
  <2> QED
    BY <1>1, <1>2, <1>6, <2>2, <2>3 DEF Newest
<1>7. CASE ~Opens(entry, fs["tmp"]) /\ fs["main"] = Nothing
  <2>1. BestFile(fs, entry) = "main" /\ ~CommittedIn(fs)
    BY <1>3, <1>7 DEF BestFile, CommittedIn, Opens
  <2>2. LoadState(fs, entry) = Nothing
    BY <1>7, <2>1 DEF LoadState, Opens
  <2> QED
    BY <1>1, <1>2, <1>7, <2>2 DEF Newest, HasIn
<1> QED
  BY <1>5, <1>6, <1>7

\* Nothing is found where no file is committed and the key opens none.
LEMMA NothingFound ==
  ASSUME NEW a \in Account, ~AnyCommitted, \A d \in Dir : ~Opens(entry, files[d]["tmp"])
  PROVE  HasIn(MainOf(files, a)) = {} /\ HasIn(Recoverable(a)) = {}
<1>1. \A d \in Dir : files[d]["main"] = Nothing /\ files[d]["bak"] = Nothing
  BY DEF AnyCommitted, CommittedIn
<1>2. MainOf(files, a) = Nothing
  BY <1>1, Names DEF MainOf
<1>3. \A d \in Dir : BestFile(files[d], entry) = "main"
  BY <1>1 DEF BestFile, Opens
<1>4. \A d \in Dir : LoadState(files[d], entry) = Nothing
  BY <1>1, <1>3 DEF LoadState, CommittedIn, Opens
<1>5. Recoverable(a) = Nothing
  BY <1>4, Names DEF Recoverable
<1> QED
  BY <1>2, <1>5 DEF HasIn

\* The states kept are sets of updates.
LEMMA HasType ==
  ASSUME TypeOK, NEW a \in Account
  PROVE  HasIn(MainOf(files, a)) \in SUBSET Update
<1>1. MainOf(files, a) \in File
  BY Names DEF MainOf, TypeOK
<1> QED
  BY <1>1 DEF HasIn, File, Blob

\* Before there is a key every account is empty.
LEMMA NoKeyNothing ==
  ASSUME KeysKnown, SafeOrLost, BakInv, keys = 0, entry = 0, NEW a \in Account
  PROVE  HasIn(MainOf(files, a)) = {} /\ HasIn(Recoverable(a)) = {} /\ acked[a] = {}
<1>1. \A d \in Dir, n \in FileName : files[d][n] = Nothing
  BY DEF KeysKnown
<1>2. ~AnyCommitted /\ \A d \in Dir : ~Opens(entry, files[d]["tmp"])
  BY <1>1, Names DEF AnyCommitted, CommittedIn, Opens
<1>3. MainOf(files, a) = Nothing
  BY <1>1, Names DEF MainOf
<1>4. acked[a] = {}
  BY <1>2, <1>3 DEF SafeOrLost, Lost, SafeInv, FilesHoldAcked
<1> QED
  BY <1>2, <1>4, NothingFound

\* The same of the launch after the next step.
LEMMA Foreseen ==
  TypeOK /\ SafeInv /\ BakHasMain /\ entry # 0 =>
    \A a \in Account : HasIn(Recoverable(a)) = Newest(files, a, entry)
BY Latest

LEMMA ForeseenNext ==
  (TypeOK /\ SafeInv /\ BakHasMain /\ entry # 0 =>
    \A a \in Account : HasIn(Recoverable(a)) = Newest(files, a, entry))'
BY Foreseen, PTL

\* While the key stays, every step is one of the cell's, or none ...
LEMMA KeyedCellStep ==
  ASSUME "late" \notin Faults, MigrationFinds, TypeOK, Shape, CellInv, [Next]_vars,
         entry # 0, entry' = entry, keys' = keys, NEW a \in Account
  PROVE  [Cell(a)!Next]_(Cell(a)!vars)
<1>1. SafeInv /\ BakHasMain
  BY DEF CellInv, SafeOrLost, BakInv, Lost
<1>2. TypeOK' /\ SafeInv' /\ BakHasMain'
  <2>1. TypeOK' /\ CellInv'
    BY NextType, CellStep
  <2> QED
    BY <2>1 DEF CellInv, SafeOrLost, BakInv, Lost
<1>3. /\ HasIn(Recoverable(a)) = Newest(files, a, entry)
      /\ HasIn(Recoverable(a))' = Newest(files', a, entry)
  <2>1. HasIn(Recoverable(a))' = Newest(files, a, entry)'
    BY <1>2, ForeseenNext
  <2> QED
    BY <1>1, <2>1, Latest
<1>4. (entry = 0 /\ keys # 0)' = (entry = 0 /\ keys # 0)
  OBVIOUS
<1>5. ASSUME acked' = acked, MainOf(files', a) = MainOf(files, a),
             \/ files'[a]["tmp"] = files[a]["tmp"]
             \/ {files'[a]["tmp"], files[a]["tmp"]} \subseteq {Nothing, Unreadable}
      PROVE  UNCHANGED Cell(a)!vars
  <2>1. Newest(files', a, entry) = Newest(files, a, entry)
    BY <1>5 DEF Newest, Opens
  <2> QED
    BY <1>3, <1>4, <1>5, <2>1 DEF Cell!vars
<1>6. CASE files' = files /\ acked' = acked
  BY <1>5, <1>6
<1>7. CASE StaysPut \/ LeavesFiles \/ Flushes \/ Migrates \/ Marks \/ Fails
  BY <1>6, <1>7, FailsResult DEF StaysPut, LeavesFiles, Flushes, Migrates, Marks
<1>8. CASE \E s \in Sender : DeferSave(s) \/ StartSave(s)
  BY <1>6, <1>8 DEF DeferSave, StartSave, diskVars, ghostVars
<1>9. CASE ObtainKey \/ ForgetKey
  BY <1>6, <1>9 DEF ObtainKey, ForgetKey, ghostVars
<1>10. CASE Move
  <2>1. MainOf(files', a) = MainOf(files, a) /\ acked' = acked
    BY <1>1, <1>10, MoveKeepsMain DEF SafeInv
  <2>2. /\ job.dir = LegacyOwner /\ Waits
        /\ a # LegacyOwner => files'[a]["tmp"] = files[a]["tmp"]
    BY <1>1, <1>10, MoveResult, Names, Apart DEF SafeInv, OwnInv, JobOwn, LegacyApart, NoFiles
  <2>3. files[LegacyOwner]["tmp"] \in {Nothing, Unreadable}
    BY <1>1, <2>2 DEF SafeInv, LegacyApart
  <2>4. files'[a]["tmp"] \in {files[a]["tmp"], Nothing, Unreadable}
    BY <1>1, <1>10, MoveKeepsMain DEF SafeInv
  <2> QED
    BY <1>5, <2>1, <2>2, <2>3, <2>4
<1>11. CASE Writes
  <2>1. /\ job.at \in WriteStage \ {"key"} /\ job.to \in Account /\ job.st \in State
        /\ acked' = acked /\ acked[job.to] \subseteq job.st.has
    <3>1. job.at \in WriteStage \ {"key"}
      BY <1>11, FileSteps, StageNames DEF Writes
    <3>2. acked' = acked
      BY <1>11 DEF Writes, CreateTmp, SyncTmp, CopyToBak, SyncBak, WriteStep, ghostVars
    <3> QED
      BY <1>1, <3>1, <3>2, NewBlobType DEF SafeInv, WritesFit, Fits
  <2>2. MainOf(files', a) = MainOf(files, a)
    BY <1>11, <2>1, FileSteps, Names, Apart DEF Writes, MainOf
  <2>3. CASE a # job.to \/ files'[a]["tmp"] = files[a]["tmp"]
    <3>1. files'[a]["tmp"] = files[a]["tmp"]
      BY <1>11, <2>1, <2>3, FileSteps, Names DEF Writes
    <3> QED
      BY <1>5, <2>1, <2>2, <3>1
  <2>4. CASE a = job.to /\ files'[a]["tmp"] = Unreadable
    <3>1. Newest(files', a, entry) = HasIn(MainOf(files, a))
      BY <2>2, <2>4 DEF Newest, Opens
    <3> QED
      BY <1>3, <1>4, <2>1, <2>2, <3>1 DEF Cell!Next, Cell!GiveUp
  <2>5. CASE a = job.to /\ files'[a]["tmp"] = NewBlob
    <3>1. cached = entry
      BY <1>1, <2>1 DEF SafeInv, KeyInv, KeysAgree
    <3>2. NewBlob \notin {Nothing, Unreadable} /\ NewBlob.key = cached /\ NewBlob.has = job.st.has
      BY <2>1, NewBlobType, Apart DEF NewBlob
    <3>3. Newest(files', a, entry) = job.st.has
      BY <2>5, <3>1, <3>2 DEF Newest, Opens
    <3>4. job.st.has \in SUBSET Update
      BY <2>1 DEF State
    <3> QED
      BY <1>3, <1>4, <2>1, <2>2, <2>5, <3>3, <3>4 DEF Cell!Next, Cell!Write
  <2> QED
    BY <1>11, <2>3, <2>4, <2>5, FileSteps DEF Writes
<1>12. CASE RenameTmp
  <2>1. /\ job.at \in WriteStage /\ job.to \in Account /\ job.st \in State
        /\ \A b \in Account \ {job.to} : acked'[b] = acked[b]
        /\ acked'[job.to] \subseteq job.st.has
    BY <1>1, <1>12, RenameConfirms
  <2>2. acked[job.to] \subseteq acked'[job.to]
    <3>1. acked' = acked \/ \E x, more : acked' = [acked EXCEPT ![x] = @ \cup more]
      BY <1>12 DEF RenameTmp, Confirm, ghostVars
    <3> QED
      BY <2>1, <3>1 DEF TypeOK
  <2>3. files'[Root] = files[Root] /\ \A b \in Account \ {job.to} : files'[b] = files[b]
    BY <1>12, <2>1, RenameResult, Names, Apart
  <2>4. CASE a # job.to
    <3>1. MainOf(files', a) = MainOf(files, a) /\ files'[a]["tmp"] = files[a]["tmp"]
      BY <2>3, <2>4 DEF MainOf
    <3>2. Newest(files', a, entry) = Newest(files, a, entry)
      BY <3>1 DEF Newest
    <3>3. acked'[a] = acked[a]
      BY <2>1, <2>4
    <3> QED
      BY <1>3, <1>4, <3>1, <3>2, <3>3 DEF Cell!vars
  <2>5. CASE a = job.to
    <3>1. cached = entry /\ files[a]["tmp"] = NewBlob
      BY <1>1, <1>12, <2>1, <2>5 DEF SafeInv, KeyInv, KeysAgree, TmpIsNew, RenameTmp
    <3>2. NewBlob \notin {Nothing, Unreadable} /\ NewBlob.key = cached /\ NewBlob.has = job.st.has
      BY <2>1, NewBlobType, Apart DEF NewBlob
    <3>3. Newest(files, a, entry) = job.st.has
      BY <3>1, <3>2 DEF Newest, Opens
    <3>4. InUse(a)
      BY <2>1, <2>5 DEF InUse
    <3>5. ~(a = LegacyOwner /\ Waits)
      BY <1>1, <3>4, InUseSettled DEF SafeInv
    <3>6. MainOf(files', a) = NewBlob
      BY <1>12, <2>3, <2>5, <3>1, <3>5, RenameResult DEF MainOf, Waits
    <3>7. HasIn(MainOf(files', a)) = job.st.has
      BY <3>2, <3>6 DEF HasIn
    <3>8. Newest(files', a, entry) = job.st.has
      BY <1>12, <2>5, <3>7, RenameResult DEF Newest, Opens
    <3> QED
      BY <1>3, <1>4, <2>1, <2>2, <2>5, <3>3, <3>7, <3>8 DEF Cell!Next, Cell!Complete
  <2> QED
    BY <2>4, <2>5
<1> QED
  BY <1>7, <1>8, <1>9, <1>10, <1>11, <1>12, StepKinds

\* ... and where there is none, nothing is kept and nothing lost.
LEMMA NothingFoundNext ==
  (~AnyCommitted /\ (\A d \in Dir : ~Opens(entry, files[d]["tmp"])) =>
    \A a \in Account : HasIn(MainOf(files, a)) = {} /\ HasIn(Recoverable(a)) = {})'
<1>1. ~AnyCommitted /\ (\A d \in Dir : ~Opens(entry, files[d]["tmp"])) =>
        \A a \in Account : HasIn(MainOf(files, a)) = {} /\ HasIn(Recoverable(a)) = {}
  BY NothingFound
<1> QED
  BY <1>1, PTL

LEMMA CellsStep ==
  ASSUME "late" \notin Faults, MigrationFinds, TypeOK, Shape, CellInv, [Next]_vars,
         NEW a \in Account
  PROVE  [Cell(a)!Next]_(Cell(a)!vars)
<1>1. CASE (entry = 0 /\ keys # 0)'
  BY <1>1 DEF Cell!Next, Cell!KeyGone
<1>2. CASE entry # 0 /\ ~(entry = 0 /\ keys # 0)'
  <2>1. keys' # 0
    BY KeysStay, <1>2 DEF CellInv, KeysKnown, TypeOK
  <2>2. keys' = keys /\ entry' = entry
    BY <1>2, <2>1, KeysStay DEF KeyAtHand, CellInv, SafeOrLost, KeyInv, KeysAgree
  <2> QED
    BY <1>2, <2>2, KeyedCellStep
<1>3. CASE entry = 0 /\ entry' # 0
  <2>1. ObtainKey /\ MayCreateKey /\ keys' = keys + 1 /\ entry' = keys + 1
    BY <1>3, KeysStay
  <2>2. files' = files /\ acked' = acked
    BY <2>1 DEF ObtainKey, ghostVars
  <2>3. ~AnyCommitted /\ ~AnyCommitted'
    BY <2>1, <2>2 DEF MayCreateKey, AnyCommitted
  <2>4. \A d \in Dir : ~Opens(entry', files'[d]["tmp"])
    <3>1. SUFFICES ASSUME NEW d \in Dir, Opens(keys + 1, files[d]["tmp"]) PROVE FALSE
      BY <2>1, <2>2
    <3>2. files[d]["tmp"].key = keys + 1 /\ files[d]["tmp"].key <= keys
      BY <3>1, Names DEF Opens, CellInv, KeysKnown, Content
    <3> QED
      BY <3>2 DEF TypeOK
  <2>5. HasIn(MainOf(files, a))' = {} /\ HasIn(Recoverable(a))' = {}
    BY <2>3, <2>4, NothingFoundNext
  <2>6. SafeInv
    BY <2>3 DEF CellInv, SafeOrLost, Lost
  <2>7. MainOf(files, a) = Nothing
    BY <2>3, Names DEF AnyCommitted, CommittedIn, MainOf
  <2>8. acked'[a] = {}
    BY <2>2, <2>6, <2>7 DEF SafeInv, FilesHoldAcked
  <2>9. CASE keys # 0
    BY <1>3, <2>5, <2>8, <2>9 DEF Cell!Next, Cell!Renew
  <2>10. CASE keys = 0
    <3>1. HasIn(MainOf(files, a)) = {} /\ HasIn(Recoverable(a)) = {} /\ acked[a] = {}
      BY <1>3, <2>10, NoKeyNothing DEF CellInv
    <3> QED
      BY <1>3, <2>5, <2>8, <2>10, <3>1 DEF Cell!vars
  <2> QED
    BY <2>9, <2>10
<1>4. CASE entry = 0 /\ entry' = 0 /\ ~(entry = 0 /\ keys # 0)'
  <2>1. keys' = 0 /\ keys = 0
    BY <1>4, KeysStay DEF TypeOK
  <2>2. HasIn(MainOf(files, a)) = {} /\ HasIn(Recoverable(a)) = {} /\ acked[a] = {}
    BY <1>4, <2>1, NoKeyNothing DEF CellInv
  <2>3. CellInv' /\ entry' = 0
    BY <1>4, CellStep
  <2>4. (HasIn(MainOf(files, a)) = {} /\ HasIn(Recoverable(a)) = {} /\ acked[a] = {})'
    <3>1. \A d \in Dir, n \in FileName : files'[d][n] = Nothing
      BY <2>1, <2>3 DEF CellInv, KeysKnown
    <3>2. ~AnyCommitted' /\ \A d \in Dir : ~Opens(entry', files'[d]["tmp"])
      BY <3>1, Names DEF AnyCommitted, CommittedIn, Opens
    <3>3. MainOf(files', a) = Nothing
      BY <3>1, Names DEF MainOf
    <3>4. acked'[a] = {}
      BY <2>3, <3>2, <3>3 DEF CellInv, SafeOrLost, Lost, SafeInv, FilesHoldAcked
    <3> QED
      BY <3>2, <3>4, NothingFoundNext
  <2> QED
    BY <1>4, <2>1, <2>2, <2>4 DEF Cell!vars
<1> QED
  BY <1>1, <1>2, <1>3, <1>4

LEMMA CellsInit ==
  ASSUME Init, NEW a \in Account
  PROVE  Cell(a)!Init
<1>1. TypeOK /\ SafeInv /\ KeysKnown /\ SafeOrLost /\ BakInv
  BY InitType, SafeInit, KnownInit, BakInit DEF SafeOrLost, SafeInv
<1>2. CASE LegacyOwner = Nobody
  <2>1. entry = 0 /\ keys = 0
    BY <1>2 DEF Init
  <2> QED
    BY <1>1, <2>1, NoKeyNothing DEF Cell!Init
<1>3. CASE LegacyOwner # Nobody
  <2>1. entry = 1 /\ keys = 1
    BY <1>3 DEF Init
  <2>2. files[a]["tmp"] = Nothing
    <3>1. PICK fs \in LegacyFiles : files = [d \in Dir |-> IF d = Root THEN fs ELSE NoFiles]
      BY <1>3 DEF Init
    <3> QED
      BY <3>1, Names, Apart DEF NoFiles
  <2>3. ~Lost /\ BakHasMain
    BY <1>1, <2>1 DEF Lost, BakInv
  <2>4. HasIn(Recoverable(a)) = HasIn(MainOf(files, a))
    BY <1>1, <2>1, <2>2, <2>3, Latest DEF Newest, Opens
  <2>5. acked[a] \subseteq HasIn(MainOf(files, a))
    BY <1>1 DEF SafeInv, FilesHoldAcked, HasIn
  <2> QED
    BY <1>1, <2>1, <2>4, <2>5, HasType DEF Cell!Init
<1> QED
  BY <1>2, <1>3

\* What is kept for each account is one cell: a save replaces its state at once,
\* or, given up before its rename, not at all; no crash, failed write, load,
\* flush or change of account, no save of another account and no step of a
\* migration is seen there, and no state the next launch may find lacks what was
\* confirmed (the file header of mls_store.rs).
THEOREM StoreImplementsCells ==
  ASSUME "late" \notin Faults, MigrationFinds
  PROVE  Spec => ImplementsCells
<1>1. Init => (\A a \in Account : Cell(a)!Init) /\ KeysKnown /\ BakInv
  BY CellsInit, KnownInit, BakInit
<1>2. TypeOK /\ Shape /\ SafeOrLost /\ KeysKnown /\ BakInv /\ [Next]_vars
        => KeysKnown' /\ BakInv'
  BY CellStep DEF CellInv
<1>3. TypeOK /\ Shape /\ SafeOrLost /\ KeysKnown /\ BakInv /\ [Next]_vars
        => [\A a \in Account : [Cell(a)!Next]_(Cell(a)!vars)]_vars
  BY CellsStep DEF CellInv
<1>4. Spec => []SafeOrLost
  BY SafeOrLostAlways
<1> QED
  BY <1>1, <1>2, <1>3, <1>4, StoreTypeCorrect, PTL DEF Spec, ImplementsCells
=============================================================================
