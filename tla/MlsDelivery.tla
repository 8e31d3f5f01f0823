---------------------------- MODULE MlsDelivery ----------------------------
(***************************************************************************)
(* The MLS Delivery Service of one group: the mls_groups row, its           *)
(* mls_commit_log, the GroupInfo it serves, and the HTTP requests in        *)
(* flight towards it (services/identity-node, mlsGroupController.ts).       *)
(*                                                                         *)
(* A commit is a record: the epoch it produces, its author and the author's *)
(* own counter (together its identity: no two builds of one device are the  *)
(* same bytes), the identity of the commit it was built on (what the MLS    *)
(* transcript hash binds), the tree it leaves, the devices it welcomes and  *)
(* whether it is an external commit.                                        *)
(***************************************************************************)
EXTENDS Integers, Sequences

CONSTANTS
    Device,     \* the devices; one device per account
    NoCommit,   \* stands for "no commit"
    Legacy,     \* devices running a client that uploads no GroupInfo
    MaxEpoch    \* bound on the group's epoch

ASSUME LegacyAssumption == Legacy \subseteq Device
ASSUME NoCommitAssumption == NoCommit \notin
    [epoch: Nat, by: Device, no: Nat, parent: {<< >>} \cup (Device \X Nat),
     members: SUBSET Device, added: SUBSET Device, ext: BOOLEAN]

VARIABLES
    curEpoch,   \* mls_groups.current_epoch (0: no group yet)
    log,        \* mls_commit_log, by epoch
    info,       \* mls_groups.group_info: the commit whose epoch it describes
    infoEpoch,  \* mls_groups.group_info_epoch (0: NULL)
    roster,     \* the member list that gates every endpoint
    net         \* submitted commits the server has not handled yet

serverVars == <<curEpoch, log, info, infoEpoch, roster, net>>
rowVars == <<curEpoch, log, info, infoEpoch>>

Root == << >>
CommitId == {Root} \cup (Device \X Nat)
Commit == [epoch: Nat, by: Device, no: Nat, parent: CommitId,
           members: SUBSET Device, added: SUBSET Device, ext: BOOLEAN]
Id(c) == <<c.by, c.no>>

ServerInit ==
    /\ curEpoch = 0
    /\ log = << >>
    /\ info = NoCommit
    /\ infoEpoch = 0
    /\ roster = Device
    /\ net = {}

-----------------------------------------------------------------------------
(* Submitting a commit: submitChannelCommit, submitEventGroupCommit,        *)
(* submitDmCommit and submitExternalCommit share the gate and the bump.     *)

\* Mutated form: the UPDATE accepts a commit for an epoch already passed.
TargetsNoFutureEpoch(c) == curEpoch >= c.epoch - 1

\* The WHERE clause of the UPDATE in bumpGroupEpoch.
TargetsCurrentEpoch(c) == curEpoch = c.epoch - 1

\* Only a listed user may commit, and only listed users may be welcomed.
MayCommit(c) == c.by \in roster /\ c.added \subseteq roster

\* Mutated form: the bump labels the GroupInfo it already holds with the new epoch.
BumpRelabelsOldInfo(c) ==
    /\ curEpoch' = c.epoch
    /\ log' = Append(log, c)
    /\ infoEpoch' = c.epoch
    /\ info' = IF info = NoCommit THEN c ELSE info

\* The transaction of bumpGroupEpoch: epoch, log row and GroupInfo together.
\* A commit sent without a GroupInfo leaves the stored one (now stale).
BumpGroupEpoch(c) ==
    /\ curEpoch' = c.epoch
    /\ log' = Append(log, c)
    /\ IF c.by \in Legacy
         THEN UNCHANGED <<info, infoEpoch>>
         ELSE info' = c /\ infoEpoch' = c.epoch

\* What the server answers to a submitted commit.
Verdict(c) == IF ~MayCommit(c) THEN "refused"
              ELSE IF TargetsCurrentEpoch(c) THEN "accepted"
              ELSE "conflict"

HandleSubmit(c) ==
    /\ c \in net
    /\ net' = net \ {c}
    /\ IF Verdict(c) = "accepted" THEN BumpGroupEpoch(c) ELSE UNCHANGED rowVars
    /\ UNCHANGED roster

-----------------------------------------------------------------------------
(* GroupInfo.                                                              *)

GroupExists == curEpoch > 0

\* getGroupInfo serves the stored GroupInfo only when it is for the current epoch.
ServesInfo == info # NoCommit /\ infoEpoch = curEpoch

\* Mutated form: the UPDATE without its current_epoch guard.
PutGroupInfoUnguarded(epoch, c) == info' = c /\ infoEpoch' = curEpoch

\* putGroupInfo: the UPDATE is guarded by current_epoch = $2.
PutGroupInfo(epoch, c) ==
    IF curEpoch = epoch
      THEN info' = c /\ infoEpoch' = epoch
      ELSE UNCHANGED <<info, infoEpoch>>

-----------------------------------------------------------------------------
(* fetchGroupCatchUp: the user's entry point is the earliest logged commit  *)
(* that welcomed the account, among the n rows the first query returned.    *)
WelcomesOf(d, n) == {i \in 1..n : i \in DOMAIN log /\ d \in log[i].added}
EntryPoint(d, n) == {i \in WelcomesOf(d, n) : \A j \in WelcomesOf(d, n) : i <= j}

\* The member list changes: a sign-up, a removal, a friendship.
RosterChange(d) ==
    /\ roster' = IF d \in roster THEN roster \ {d} ELSE roster \cup {d}
    /\ UNCHANGED <<curEpoch, log, info, infoEpoch, net>>
=============================================================================
