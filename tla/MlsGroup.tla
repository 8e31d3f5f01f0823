------------------------------ MODULE MlsGroup ------------------------------
(***************************************************************************)
(* The devices of one MLS group and the Delivery Service between them.      *)
(*                                                                         *)
(* A device is one mlsSession.js: the in-memory copy of the group, the copy *)
(* a restart would load, the state lock and whatever own commit holds it,   *)
(* and at most one ensure / heal / sync flow in progress. Live commits and  *)
(* welcomes are handled between the steps of the flow, whenever the lock is *)
(* free. Everything the network may do to a request or its answer is an     *)
(* action, and so are a crash and a failed write.                           *)
(*                                                                         *)
(* A held copy is the commit whose epoch it is at, plus whether the device  *)
(* still owns a leaf there: OpenMLS (external) lets a device apply the      *)
(* commit that removes it, after which the copy is inactive.                *)
(***************************************************************************)
EXTENDS MlsDelivery, FiniteSets

CONSTANTS
    Goals,      \* the flows the application starts, a subset of Goal
    MaxBuilds,  \* bound on the own commits a device builds
    NotHeld,    \* a device without a copy of the group
    Faults,     \* the faults that occur: a subset of FaultKind \X Device
    MaxFaults   \* bound on how many of them occur, all together

ASSUME NotHeldAssumption == NotHeld \notin [c: Commit, live: BOOLEAN]

VARIABLES
    cache,      \* deviceStateCache, restricted to this group
    disk,       \* what mls_load_state would return after a restart
    op,         \* the holder of the state lock
    flow,       \* the ensure*Group / healGroup / sync*GroupEpoch in progress
    mint,       \* own commits built so far
    faults      \* faults spent

deviceVars == <<cache, disk, op, flow, mint>>
vars == <<curEpoch, log, info, infoEpoch, roster, net,
          cache, disk, op, flow, mint, faults>>

Copy == [c: Commit, live: BOOLEAN]
Goal == {"ensure", "heal", "force", "sync"}
Stage == {"idle", "fetch", "fetched", "apply", "refresh", "decide",
          "info", "join", "genesis", "remove", "add"}
ASSUME GoalsAssumption == Goals \subseteq Goal
\* Where a flow resumes after a catch-up.
Resume == {"first", "retry", "round1", "final"}

Free == [st |-> "free", c |-> NoCommit, from |-> "none", ans |-> "none"]
Idle == [at |-> "idle", goal |-> "sync", resume |-> "first", tries |-> 0,
         diverged |-> FALSE, snap |-> 0, snapEpoch |-> 0, snapInfo |-> 0,
         gi |-> NoCommit, giEpoch |-> 0, list |-> {}]

Init ==
    /\ ServerInit
    /\ cache = [d \in Device |-> NotHeld]
    /\ disk = [d \in Device |-> NotHeld]
    /\ op = [d \in Device |-> Free]
    /\ flow = [d \in Device |-> Idle]
    /\ mint = [d \in Device |-> 0]
    /\ faults = 0

Held(d) == cache[d] # NotHeld
LocalEpoch(d) == cache[d].c.epoch
LockFree(d) == op[d].st = "free"
\* The flow's own lock section is over (its await has returned).
FlowRuns(d) == op[d].from \in {"none", "live"}
FaultKind == {"write", "fetch", "answer", "crash", "force", "roster"}
ASSUME FaultsAssumption == Faults \subseteq FaultKind \X Device
Fault(kind, d) == <<kind, d>> \in Faults /\ faults < MaxFaults /\ faults' = faults + 1

-----------------------------------------------------------------------------
(* mls-crypto: what applying a commit to a copy yields.                     *)

\* process_commit: the copy still owns a leaf, the commit was built on exactly
\* this copy, and it is not the device's own member commit. An external commit
\* of this very device (a re-join it never adopted) does apply: it removes the
\* old leaf.
CanProcess(d, copy, c) ==
    /\ copy.live
    /\ c.epoch = copy.c.epoch + 1
    /\ c.parent = Id(copy.c)
    /\ c.by = d => c.ext

CopyAfter(d, c) == [c |-> c, live |-> d \in c.members /\ c.by # d]
OwnCopy(c) == [c |-> c, live |-> TRUE]

\* The copy once the log's commits up to epoch i have been applied to it.
CopyAt(d, copy, i) == IF i = copy.c.epoch THEN copy ELSE CopyAfter(d, log[i])

\* The epochs catchUpGroup's loop over the first n logged commits gets to.
Replayable(d, copy, n) ==
    {m \in copy.c.epoch..n : \A i \in copy.c.epoch + 1 .. m :
        CanProcess(d, CopyAt(d, copy, i - 1), log[i])}

\* Mutated form: the fetched epochs replace the copy, whatever it holds by then.
IsSnapshot(d, copy, n, result) ==
    result = IF n = 0 THEN copy ELSE CopyAfter(d, log[n])

\* The result of that loop: as far as it gets; a copy already past n stays.
IsReplay(d, copy, n, result) ==
    IF copy.c.epoch >= n THEN result = copy
    ELSE \E m \in Replayable(d, copy, n) :
            /\ \A k \in Replayable(d, copy, n) : k <= m
            /\ result = CopyAt(d, copy, m)

-----------------------------------------------------------------------------
(* The state lock. commitDurableLocked replaces the cache and holds the     *)
(* lock until the write is durable ("settle").                              *)

TakeToSettle(d, copy, from) ==
    /\ cache' = [cache EXCEPT ![d] = copy]
    /\ op' = [op EXCEPT ![d] = [Free EXCEPT !.st = "settle", !.from = from]]

\* mls_save_state returned: the state is fsynced and the lock released.
Settle(d) ==
    /\ op[d].st = "settle"
    /\ disk' = [disk EXCEPT ![d] = cache[d]]
    /\ op' = [op EXCEPT ![d] = Free]
    /\ UNCHANGED <<cache, flow, mint, faults, serverVars>>

\* The write failed: waitDurable rejects, the lock is released, the cache keeps
\* the new state. The exception ends the flow, except in externalJoinOrResync,
\* which reports the join as failed and lets its caller go on.
SettleFails(d) ==
    /\ op[d].st = "settle"
    /\ Fault("write", d)
    /\ op' = [op EXCEPT ![d] = Free]
    /\ flow' = IF op[d].from \in {"live", "join"} THEN flow
               ELSE [flow EXCEPT ![d] = Idle]
    /\ UNCHANGED <<cache, disk, mint, serverVars>>

-----------------------------------------------------------------------------
(* Live relay. Accepted commits are published with no replay: any of them   *)
(* may reach a device at any later time, or never.                          *)

\* Mutated form: the handler does not wait for the lock.
LiveCommitUnlocked(d) ==
    /\ Held(d)
    /\ \E i \in DOMAIN log :
         /\ CanProcess(d, cache[d], log[i])
         /\ cache' = [cache EXCEPT ![d] = CopyAfter(d, log[i])]
    /\ UNCHANGED <<op, disk, flow, mint, faults, serverVars>>

LiveCommit(d) ==
    /\ LockFree(d) /\ Held(d)
    /\ \E i \in DOMAIN log :
         /\ CanProcess(d, cache[d], log[i])
         /\ TakeToSettle(d, CopyAfter(d, log[i]), "live")
    /\ UNCHANGED <<disk, flow, mint, faults, serverVars>>

LiveWelcome(d) ==
    /\ LockFree(d) /\ ~Held(d)
    /\ \E i \in DOMAIN log :
         /\ d \in log[i].added
         /\ TakeToSettle(d, OwnCopy(log[i]), "live")
    /\ UNCHANGED <<disk, flow, mint, faults, serverVars>>

-----------------------------------------------------------------------------
(* Catch-up.                                                               *)

CatchUp(d, resume) ==
    flow' = [flow EXCEPT ![d].at = "fetch", ![d].resume = resume]

\* ensure*Group, healGroup (forced by the user or not) and sync*GroupEpoch all
\* begin with a catch-up; so does a live commit that could not be applied.
StartFlow(d, goal) ==
    /\ flow[d].at = "idle"
    /\ IF goal = "force" THEN Fault("force", d) ELSE faults' = faults
    /\ flow' = [flow EXCEPT ![d] = [Idle EXCEPT !.at = "fetch", !.goal = goal]]
    /\ UNCHANGED <<cache, disk, op, mint, serverVars>>

\* The endpoint reads the log and the group row in two queries, no transaction.
FetchLog(d) ==
    /\ flow[d].at = "fetch" /\ FlowRuns(d)
    /\ flow' = [flow EXCEPT ![d].at = "fetched", ![d].snap = Len(log)]
    /\ UNCHANGED <<cache, disk, op, mint, faults, serverVars>>

FetchRow(d) ==
    /\ flow[d].at = "fetched"
    /\ flow' = [flow EXCEPT ![d].at = "apply", ![d].snapEpoch = curEpoch,
                            ![d].snapInfo = infoEpoch]
    /\ UNCHANGED <<cache, disk, op, mint, faults, serverVars>>

\* No data: nothing is applied, and nothing counts as diverged.
FetchFails(d) ==
    /\ flow[d].at \in {"fetch", "fetched"} /\ FlowRuns(d)
    /\ Fault("fetch", d) \/ (d \notin roster /\ faults' = faults)
    /\ flow' = [flow EXCEPT ![d].at = "decide", ![d].diverged = FALSE]
    /\ UNCHANGED <<cache, disk, op, mint, serverVars>>

\* The copy the locked section starts from: the CURRENT one, or the one the
\* logged Welcome creates when the group is not held.
ReplayBase(d) ==
    IF Held(d) THEN {cache[d]}
    ELSE {OwnCopy(log[i]) : i \in EntryPoint(d, flow[d].snap)}

\* Mutated form: only a copy ahead of the server counts as diverged.
DivergedWhenAhead(d, copy) == copy.c.epoch > flow[d].snapEpoch

Diverged(d, copy) == flow[d].snapEpoch > 0 /\ copy.c.epoch # flow[d].snapEpoch

ApplyCatchUp(d) ==
    /\ flow[d].at = "apply" /\ LockFree(d)
    /\ \/ /\ ReplayBase(d) = {}
          /\ flow' = [flow EXCEPT ![d].at = "decide", ![d].diverged = FALSE]
          /\ UNCHANGED <<cache, op>>
       \/ \E base \in ReplayBase(d) : \E copy \in {base} \cup {CopyAfter(d, log[i]) : i \in DOMAIN log} :
            /\ IsReplay(d, base, flow[d].snap, copy)
            /\ flow' = [flow EXCEPT
                 ![d].at = IF Diverged(d, copy) THEN "decide" ELSE "refresh",
                 ![d].diverged = Diverged(d, copy)]
            /\ IF copy = cache[d] THEN UNCHANGED <<cache, op>>
               ELSE TakeToSettle(d, copy, "apply")
    /\ UNCHANGED <<disk, mint, faults, serverVars>>

\* maybeRefreshGroupInfo: a member at the server's epoch re-uploads a GroupInfo
\* the server holds none (or a stale one) of.
RefreshGroupInfo(d) ==
    /\ flow[d].at = "refresh" /\ FlowRuns(d)
    /\ flow' = [flow EXCEPT ![d].at = "decide"]
    /\ IF /\ d \notin Legacy /\ d \in roster /\ Held(d)
          /\ flow[d].snapEpoch > 0 /\ flow[d].snapInfo # flow[d].snapEpoch
          /\ LocalEpoch(d) = flow[d].snapEpoch
          /\ cache[d].live   \* exporting from an inactive copy throws
         THEN PutGroupInfo(flow[d].snapEpoch, cache[d].c)
         ELSE UNCHANGED <<info, infoEpoch>>
    /\ UNCHANGED <<cache, disk, op, mint, faults, curEpoch, log, roster, net>>

-----------------------------------------------------------------------------
(* Where the flow goes after each of its steps.                             *)

\* The next step, with everything fetched for the previous one forgotten.
Goto(d, stage) == [Idle EXCEPT !.at = stage, !.goal = flow[d].goal,
                               !.tries = flow[d].tries, !.list = flow[d].list]
GotoCatchUp(d, resume) == [Goto(d, "fetch") EXCEPT !.resume = resume]

\* After the external-join / genesis rounds: reconcile when the group is held,
\* then the closing catch-up. A heal ends here.
AfterJoin(d, held) ==
    IF flow[d].goal # "ensure" THEN Idle
    ELSE IF held THEN Goto(d, "remove")
    ELSE GotoCatchUp(d, "final")

\* The server has no such group (or no GroupInfo endpoint): only an ensure may
\* create it, and only on a device that does not hold it.
AfterAbsent(d) ==
    IF flow[d].goal = "ensure" /\ ~Held(d) THEN Goto(d, "genesis")
    ELSE AfterJoin(d, Held(d))

\* The own commit the flow submitted was accepted, lost its race, or failed.
AfterCommit(d, outcome, held) ==
    CASE op[d].from = "join" /\ outcome = "conflict" ->
            [GotoCatchUp(d, "retry") EXCEPT !.tries = flow[d].tries + 1]
      [] op[d].from = "genesis" /\ outcome = "conflict" -> GotoCatchUp(d, "round1")
      [] op[d].from = "remove" -> Goto(d, "add")
      [] op[d].from = "add" -> GotoCatchUp(d, "final")
      [] OTHER -> AfterJoin(d, held)

\* A healthy copy needs no external commit (unless the user forced one).
Healthy(d) == Held(d) /\ ~flow[d].diverged

\* What the catch-up's caller does with its status.
AfterCatchUp(d) ==
    IF flow[d].goal = "sync"   \* scheduleHeal, debounced
    THEN {Idle} \cup (IF flow[d].diverged
                     THEN {[Idle EXCEPT !.at = "fetch", !.goal = "heal"]} ELSE {})
    ELSE
    CASE flow[d].resume = "final" -> {Idle}
      [] flow[d].resume = "first" ->
            IF d \notin roster THEN {Idle}
            ELSE IF ~Healthy(d) \/ flow[d].goal = "force"
              THEN {[Goto(d, "info") EXCEPT !.list = roster]}
            ELSE IF flow[d].goal = "ensure"
              THEN {[Goto(d, "remove") EXCEPT !.list = roster]}
            ELSE {Idle}
      [] flow[d].resume = "retry" ->
            IF Healthy(d) /\ flow[d].goal # "force" THEN {AfterJoin(d, TRUE)}
            ELSE IF flow[d].tries < 3 THEN {Goto(d, "info")}
            ELSE {AfterJoin(d, Held(d))}
      [] flow[d].resume = "round1" ->
            IF Held(d) \/ d \in Legacy THEN {AfterJoin(d, Held(d))}
            ELSE {Goto(d, "info")}

Decide(d) ==
    /\ flow[d].at = "decide" /\ FlowRuns(d)
    /\ \E f \in AfterCatchUp(d) : flow' = [flow EXCEPT ![d] = f]
    /\ UNCHANGED <<cache, disk, op, mint, faults, serverVars>>

\* The member list could not be fetched: the ensure or heal throws.
DecideFails(d) ==
    /\ flow[d].at = "decide" /\ FlowRuns(d)
    /\ flow[d].goal # "sync" /\ flow[d].resume = "first"
    /\ Fault("fetch", d)
    /\ flow' = [flow EXCEPT ![d] = Idle]
    /\ UNCHANGED <<cache, disk, op, mint, serverVars>>

-----------------------------------------------------------------------------
(* External join and resync.                                                *)

FetchInfo(d) ==
    /\ flow[d].at = "info" /\ FlowRuns(d)
    /\ flow' = [flow EXCEPT ![d] =
         CASE d \in Legacy -> AfterAbsent(d)
           [] d \notin roster \cup Legacy -> AfterJoin(d, Held(d))
           [] d \in roster \ Legacy /\ ~GroupExists -> AfterAbsent(d)
           [] d \in roster \ Legacy /\ GroupExists /\ ~ServesInfo -> AfterJoin(d, Held(d))
           [] OTHER -> [Goto(d, "join") EXCEPT !.gi = info, !.giEpoch = curEpoch]]
    /\ UNCHANGED <<cache, disk, op, mint, faults, serverVars>>

FetchInfoFails(d) ==
    /\ flow[d].at = "info" /\ FlowRuns(d)
    /\ Fault("fetch", d)
    /\ flow' = [flow EXCEPT ![d] = AfterJoin(d, Held(d))]
    /\ UNCHANGED <<cache, disk, op, mint, serverVars>>

\* Mutated form: the epoch is counted from before the base.
NewCommitTwoBack(d, epoch, parent, members, added, ext) ==
    [epoch |-> epoch - 2, by |-> d, no |-> mint[d] + 1, parent |-> parent,
     members |-> members, added |-> added, ext |-> ext]

NewCommit(d, epoch, parent, members, added, ext) ==
    [epoch |-> epoch, by |-> d, no |-> mint[d] + 1, parent |-> parent,
     members |-> members, added |-> added, ext |-> ext]

\* runOwnCommit has the lock and a plan; first the base must become durable.
TakeToCommit(d, c) ==
    /\ curEpoch < MaxEpoch /\ mint[d] < MaxBuilds   \* bounds
    /\ op' = [op EXCEPT ![d] = [Free EXCEPT !.st = "base", !.c = c, !.from = flow[d].at]]
    /\ mint' = [mint EXCEPT ![d] = @ + 1]
    /\ UNCHANGED <<cache, disk, flow, faults, serverVars>>

\* The build step found nothing to do: the lock is released at once.
SkipTo(d, f) ==
    /\ flow' = [flow EXCEPT ![d] = f]
    /\ UNCHANGED <<cache, disk, op, mint, faults, serverVars>>

\* A catch-up or a welcome made the copy current while the GroupInfo was in
\* flight: nothing to heal.
AlreadyCurrent(d) ==
    Held(d) /\ flow[d].goal # "force" /\ LocalEpoch(d) = flow[d].giEpoch

BuildExternal(d) ==
    /\ flow[d].at = "join" /\ LockFree(d)
    /\ IF AlreadyCurrent(d) THEN SkipTo(d, AfterJoin(d, TRUE))
       ELSE TakeToCommit(d,
              NewCommit(d, flow[d].giEpoch + 1, Id(flow[d].gi),
                        flow[d].gi.members \cup {d}, {}, TRUE))

-----------------------------------------------------------------------------
(* Genesis and reconciliation.                                              *)

BuildGenesis(d) ==
    /\ flow[d].at = "genesis" /\ LockFree(d)
    /\ IF Held(d) \/ flow[d].list = {d} THEN SkipTo(d, AfterJoin(d, Held(d)))
       ELSE TakeToCommit(d,
              NewCommit(d, 1, Root, flow[d].list \cup {d}, flow[d].list \ {d}, FALSE))

\* An own member commit changing the tree of the current copy to `members`.
\* On an inactive copy OpenMLS refuses, and the ensure throws.
BuildMemberCommit(d, members) ==
    IF cache[d].live
      THEN TakeToCommit(d,
             NewCommit(d, LocalEpoch(d) + 1, Id(cache[d].c), members,
                       members \ cache[d].c.members, FALSE))
      ELSE SkipTo(d, Idle)

BuildRemove(d) ==
    /\ flow[d].at = "remove" /\ LockFree(d)
    /\ IF Held(d) /\ cache[d].c.members \ flow[d].list # {}
         THEN BuildMemberCommit(d, cache[d].c.members \cap flow[d].list)
         ELSE SkipTo(d, Goto(d, "add"))

BuildAdd(d) ==
    /\ flow[d].at = "add" /\ LockFree(d)
    /\ IF Held(d) /\ (flow[d].list \ {d}) \ cache[d].c.members # {}
         THEN BuildMemberCommit(d, cache[d].c.members \cup (flow[d].list \ {d}))
         ELSE SkipTo(d, GotoCatchUp(d, "final"))

-----------------------------------------------------------------------------
(* runOwnCommit: base durable -> submit -> answer, or the log when the      *)
(* answer is ambiguous -> adopt. The lock is held throughout.               *)

\* Mutated form: the commit is submitted without waiting for its base.
SubmitBeforeDurable(d) ==
    /\ op[d].st = "base"
    /\ op' = [op EXCEPT ![d].st = "sent"]
    /\ net' = net \cup {op[d].c}
    /\ UNCHANGED <<cache, disk, flow, mint, faults, rowVars, roster>>

Submit(d) ==
    /\ op[d].st = "base"
    /\ disk' = [disk EXCEPT ![d] = cache[d]]
    /\ op' = [op EXCEPT ![d].st = "sent"]
    /\ net' = net \cup {op[d].c}
    /\ UNCHANGED <<cache, flow, mint, faults, rowVars, roster>>

Conclude(d, outcome) ==
    /\ op' = [op EXCEPT ![d] = Free]
    /\ flow' = [flow EXCEPT ![d] = AfterCommit(d, outcome, Held(d))]
    /\ UNCHANGED <<cache, disk, mint>>

BaseFails(d) ==
    /\ op[d].st = "base"
    /\ Fault("write", d)
    /\ op' = [op EXCEPT ![d] = Free]
    /\ flow' = [flow EXCEPT ![d] =
         IF op[d].from = "join" THEN AfterJoin(d, Held(d)) ELSE Idle]
    /\ UNCHANGED <<cache, disk, mint, serverVars>>

\* The server handles a request, and answers if its sender still waits.
ServerSubmit ==
    \E c \in net :
      /\ HandleSubmit(c)
      /\ op' = IF op[c.by].st = "sent" /\ op[c.by].c = c
                 THEN [op EXCEPT ![c.by].ans = Verdict(c)] ELSE op
      /\ UNCHANGED <<cache, disk, flow, mint, faults>>

Adopt(d) ==
    /\ TakeToSettle(d, OwnCopy(op[d].c), op[d].from)
    /\ flow' = [flow EXCEPT ![d] = AfterCommit(d, "accepted", TRUE)]
    /\ UNCHANGED <<disk, mint>>

\* "409" means the epoch was taken; any other refusal is checked in the log.
Answer(d) ==
    /\ op[d].st = "sent" /\ op[d].ans # "none"
    /\ CASE op[d].ans = "accepted" -> Adopt(d)
         [] op[d].ans = "conflict" -> Conclude(d, "conflict")
         [] op[d].ans = "refused" ->
              /\ op' = [op EXCEPT ![d].st = "check"]
              /\ UNCHANGED <<cache, disk, flow, mint>>
    /\ UNCHANGED <<faults, serverVars>>

\* Timeout, dropped connection or 5xx: the answer is lost, and the request is
\* lost with it or still on its way.
LoseAnswer(d) ==
    /\ op[d].st = "sent"
    /\ Fault("answer", d)
    /\ op' = [op EXCEPT ![d].st = "check", ![d].ans = "none"]
    /\ net' \in {net, net \ {op[d].c}}
    /\ UNCHANGED <<cache, disk, flow, mint, rowVars, roster>>

\* Mutated form: any logged commit for that epoch counts as one's own.
LogShowsThatEpoch(c) == c.epoch \in DOMAIN log

\* The logged commit of that epoch is byte for byte this one.
LogShows(c) == c.epoch \in DOMAIN log /\ log[c.epoch] = c

\* wasOwnCommitAccepted reads the log.
CheckLog(d) ==
    /\ op[d].st = "check"
    /\ IF LogShows(op[d].c) THEN Adopt(d) ELSE Conclude(d, "failed")
    /\ UNCHANGED <<faults, serverVars>>

\* Its three reads failed: the commit is assumed not accepted.
CheckGivesUp(d) ==
    /\ op[d].st = "check"
    /\ Fault("fetch", d)
    /\ Conclude(d, "failed")
    /\ UNCHANGED serverVars

-----------------------------------------------------------------------------
(* The process dies and starts again from what is on disk.                  *)
Crash(d) ==
    /\ Fault("crash", d)
    /\ cache' = [cache EXCEPT ![d] = disk[d]]
    /\ op' = [op EXCEPT ![d] = Free]
    /\ flow' = [flow EXCEPT ![d] = Idle]
    /\ UNCHANGED <<disk, mint, serverVars>>

MemberListChange(d) ==
    /\ Fault("roster", d)
    /\ RosterChange(d)
    /\ UNCHANGED deviceVars

FlowStep(d) ==
    \/ FetchLog(d) \/ FetchRow(d) \/ ApplyCatchUp(d) \/ RefreshGroupInfo(d)
    \/ Decide(d) \/ FetchInfo(d)
    \/ BuildExternal(d) \/ BuildGenesis(d) \/ BuildRemove(d) \/ BuildAdd(d)

LockStep(d) == Settle(d) \/ Submit(d) \/ Answer(d) \/ CheckLog(d)

FaultStep(d) ==
    \/ SettleFails(d) \/ FetchFails(d) \/ DecideFails(d) \/ FetchInfoFails(d)
    \/ BaseFails(d) \/ LoseAnswer(d) \/ CheckGivesUp(d) \/ Crash(d)

Next ==
    \/ \E d \in Device :
         \/ \E goal \in Goals : StartFlow(d, goal)
         \/ FlowStep(d) \/ LockStep(d) \/ FaultStep(d)
         \/ LiveCommit(d) \/ LiveWelcome(d) \/ MemberListChange(d)
    \/ ServerSubmit

Spec == Init /\ [][Next]_vars

-----------------------------------------------------------------------------
(* Properties.                                                             *)

OpState == [st: {"free", "settle", "base", "sent", "check"},
            c: Commit \cup {NoCommit},
            from: {"none", "live"} \cup Stage,
            ans: {"none", "accepted", "conflict", "refused"}]
FlowState == [at: Stage, goal: Goal, resume: Resume, tries: Nat,
              diverged: BOOLEAN, snap: Nat, snapEpoch: Nat, snapInfo: Nat,
              gi: Commit \cup {NoCommit}, giEpoch: Nat, list: SUBSET Device]

\* Every variable keeps its type.
TypeOK ==
    /\ curEpoch \in Nat /\ infoEpoch \in Nat
    /\ log \in Seq(Commit)
    /\ info \in Commit \cup {NoCommit}
    /\ roster \in SUBSET Device
    /\ net \in SUBSET Commit
    /\ cache \in [Device -> Copy \cup {NotHeld}]
    /\ disk \in [Device -> Copy \cup {NotHeld}]
    /\ op \in [Device -> OpState]
    /\ flow \in [Device -> FlowState]
    /\ mint \in [Device -> Nat]
    /\ faults \in Nat

\* RFC 9750's ordering rule as bumpGroupEpoch enforces it, seen from the
\* clients: the log has exactly one commit per epoch and each was built on the
\* one before, although the server cannot parse a commit and clients build them
\* from GroupInfos and copies of any age.
LogIsChain ==
    /\ curEpoch = Len(log)
    /\ \A i \in DOMAIN log :
         /\ log[i].epoch = i
         /\ log[i].parent = IF i = 1 THEN Root ELSE Id(log[i - 1])

\* No fork: every copy a device holds, in memory or on disk, is the one the
\* logged commit of its epoch produces - so equal epochs mean equal keys. This
\* is what runOwnCommit's "adopt only what the server accepted" is for.
NoFork ==
    \A d \in Device : \A copy \in {cache[d], disk[d]} :
        copy # NotHeld => copy.c.epoch \in DOMAIN log /\ log[copy.c.epoch] = copy.c

\* The GroupInfo stored for an epoch is the one of the commit logged for it
\* (bumpGroupEpoch and putGroupInfo never let it run ahead or fall behind
\* unnoticed), so an external commit built on a served GroupInfo fits.
InfoFitsItsEpoch == infoEpoch > 0 => infoEpoch \in DOMAIN log /\ info = log[infoEpoch]

\* runOwnCommit's waitDurable(base): once the server has logged a member commit
\* of a device, a restart of that device cannot load anything older than the
\* copy the commit was built on.
BaseSurvivesCrash ==
    \A i \in DOMAIN log :
        (i > 1 /\ ~log[i].ext) =>
            LET copy == disk[log[i].by]
            IN  copy # NotHeld /\ copy.c.epoch >= i - 1

-----------------------------------------------------------------------------
(* The inductive invariant behind NoFork, LogIsChain and BaseSurvivesCrash. *)

IsLogged(c) == c.epoch \in DOMAIN log /\ log[c.epoch] = c
Committing(d) == op[d].st \in {"base", "sent", "check"}
Submitted(d) == op[d].st \in {"sent", "check"}
\* c was built on exactly what the log holds for the epoch before it.
FitsLog(c) ==
    /\ c.epoch \in 1 .. curEpoch + 1
    /\ c.parent = IF c.epoch = 1 THEN Root ELSE Id(log[c.epoch - 1])
\* What the author of a member commit has on disk reaches up to its base.
BaseOnDisk(c) ==
    (c.epoch > 1 /\ ~c.ext) => disk[c.by] # NotHeld /\ disk[c.by].c.epoch >= c.epoch - 1

\* The GroupInfo a device carries from its fetch to its build step is logged.
InfoCarried ==
    \A d \in Device : flow[d].at = "join" =>
        flow[d].gi # NoCommit /\ IsLogged(flow[d].gi) /\ flow[d].gi.epoch = flow[d].giEpoch

SnapshotsLogged == \A d \in Device : flow[d].snap <= Len(log)

\* Every own commit fits the log as it was, is numbered, and (once submitted)
\* has its base on disk; the lock keeps the cache where the build left it.
OwnCommitsFit ==
    \A d \in Device : Committing(d) =>
        /\ op[d].c # NoCommit
        /\ op[d].c.by = d /\ op[d].c.no <= mint[d] /\ FitsLog(op[d].c)
        /\ ~op[d].c.ext /\ op[d].c.epoch > 1 =>
              Held(d) /\ LocalEpoch(d) = op[d].c.epoch - 1
        /\ Held(d) /\ IsLogged(op[d].c) => LocalEpoch(d) < op[d].c.epoch

RequestsFit ==
    \A c \in net : FitsLog(c) /\ c.no <= mint[c.by] /\ BaseOnDisk(c)

\* "accepted" is only ever said of a logged commit.
AnswersTrue ==
    \A d \in Device : op[d].ans = "accepted" => op[d].st = "sent" /\ IsLogged(op[d].c)

LogNumbered == \A i \in DOMAIN log : log[i].no <= mint[log[i].by]

\* A restart never overtakes the running process.
DiskBehindCache ==
    \A d \in Device : disk[d] # NotHeld =>
        Held(d) /\ disk[d].c.epoch <= LocalEpoch(d)

IndInv ==
    /\ LogIsChain /\ NoFork /\ InfoFitsItsEpoch /\ BaseSurvivesCrash
    /\ InfoCarried /\ SnapshotsLogged /\ OwnCommitsFit /\ RequestsFit
    /\ AnswersTrue /\ LogNumbered /\ DiskBehindCache

-----------------------------------------------------------------------------
\* The group as its devices see it: one history, read forwards.
Place(copy) == IF copy = NotHeld THEN 0 ELSE copy.c.epoch
History == INSTANCE GroupHistory WITH
    Reader <- Device, Entry <- Commit, history <- log,
    place <- [d \in Device |-> Place(cache[d])],
    saved <- [d \in Device |-> Place(disk[d])]

\* The clients and the Delivery Service together implement GroupHistory:
\* whatever interleaves with a catch-up, a welcome or an own commit, a device
\* moves only to later logged epochs, and goes back only by restarting, and
\* then exactly to what it last made durable.
ImplementsHistory == History!Spec

-----------------------------------------------------------------------------
(* Liveness.                                                               *)

\* Requests are answered, writes return and flows run on (Next's fault actions,
\* of which there are at most MaxFaults, are the exceptions); the application
\* ensures a group again and again (every channel open, reconnect and key
\* refresh does).
Fairness ==
    /\ \A d \in Device :
         /\ WF_vars(FlowStep(d))
         /\ WF_vars(LockStep(d))
         /\ SF_vars(StartFlow(d, "ensure"))
    /\ WF_vars(ServerSubmit)

FairSpec == Spec /\ Fairness

AtServerEpoch(d) == Held(d) /\ LocalEpoch(d) = curEpoch

\* A listed device gets to the server's epoch and stays with it - after lost
\* answers, crashes and failed writes, and although a device can never apply
\* its own accepted commit - unless the run exhausts the epoch bound.
EventuallyAtServerEpoch ==
    \/ \A d \in Device : <>[](d \in roster /\ GroupExists => AtServerEpoch(d))
    \/ <>(curEpoch = MaxEpoch)

\* mlsSession.js's header: a device that is not in the group, or whose decrypts
\* keep failing at the current epoch, is re-joined by a heal. So a heal of a
\* listed device that ends after its catch-up because there is "nothing to
\* heal" leaves a copy that owns a leaf.
HealLeavesUsableCopy ==
    [][\A d \in Device :
         (/\ flow[d].goal = "heal" /\ flow[d].at = "decide" /\ d \in roster
          /\ Held(d) /\ flow[d].snapEpoch > 0
          /\ Decide(d) /\ flow'[d] = Idle)
         => cache[d].live]_vars
=============================================================================
