-------------------------------- MODULE SignUps --------------------------------
(***************************************************************************)
(* Signing up for an event in eventsController.ts: members join and leave   *)
(* groups and roles, claim the hulls of a group's ships, bring hangar ships *)
(* whose locked seats are reserved, and are approved or assigned, while a   *)
(* planner saves the groups from a page that knows none of it.              *)
(* A join reads what is free first and writes its row later, with the       *)
(* statements of others in between (READ COMMITTED).                        *)
(***************************************************************************)
EXTENDS Naturals, FiniteSets

CONSTANTS
    Pilot,        \* org members
    Squad,        \* the event's groups
    AutoApprove,  \* the roles whose sign-ups need no approval
    SquadCap,     \* max_members of a group (0: none)
    MaxHulls,     \* bound on a group's hulls
    MaxReserved,  \* bound on reserved_slots
    MaxUnderWay,  \* bound on joins and removals under way at once
    MaxSaves      \* bound on the planner's saves

NoPilot == 0
RoleName == {"pilot", "crew"}   \* "pilot" stands for the PILOT_ROLE_NAMES

ASSUME SignUpRoles == AutoApprove \subseteq RoleName /\ NoPilot \notin Pilot
ASSUME SignUpBounds ==
    /\ SquadCap \in Nat /\ MaxHulls \in Nat /\ MaxReserved \in Nat
    /\ MaxUnderWay \in Nat /\ MaxSaves \in Nat

VARIABLES
    squads,    \* event_groups
    hulls,     \* event_group_ships: per group the quantity
    mode,      \* event_group_roles: per group and role its assignment_mode ("gone": no such role)
    reserved,  \* reserved_slots of a group's crew role
    member,    \* event_group_members
    claim,     \* event_group_ship_claims: per group and hull who claimed it
    joining,   \* per user: the join under way
    removing,  \* removeGroupMember calls that have released and not yet deleted
    own,       \* history: who signed up, and has not left or been taken out since
    saves      \* how often a planner saved

signupVars == <<squads, hulls, mode, reserved, member, claim, joining, removing, own, saves>>

Out == [role |-> "none", status |-> "out", held |-> 0]
NoJoin == [squad |-> NoPilot, role |-> "none", locked |-> 0]
Slot == 0..(MaxHulls - 1)
MemberRow == [role : RoleName \cup {"none"}, status : {"out", "pending", "accepted", "declined"}, held : 0..1]
JoinUnderWay == [squad : Squad \cup {NoPilot}, role : RoleName \cup {"none"}, locked : 0..1]

SignUpTypeOK ==
    /\ squads \subseteq Squad
    /\ hulls \in [Squad -> 0..MaxHulls]
    /\ mode \in [Squad -> [RoleName -> {"open", "direct", "gone"}]]
    /\ reserved \in [Squad -> 0..MaxReserved]
    /\ member \in [Squad -> [Pilot -> MemberRow]]
    /\ claim \in [Squad -> [Slot -> Pilot \cup {NoPilot}]]
    /\ joining \in [Pilot -> JoinUnderWay]
    /\ removing \subseteq Squad \X Pilot
    /\ own \subseteq Squad \X Pilot
    /\ saves \in 0..MaxSaves

SignUpInit ==
    /\ squads = Squad
    /\ hulls \in [Squad -> 0..MaxHulls]
    /\ mode \in [Squad -> [RoleName -> {"open", "direct"}]]
    /\ reserved = [s \in Squad |-> 0]
    /\ member = [s \in Squad |-> [u \in Pilot |-> Out]]
    /\ claim = [s \in Squad |-> [i \in Slot |-> NoPilot]]
    /\ joining = [u \in Pilot |-> NoJoin]
    /\ removing = {} /\ own = {} /\ saves = 0

IsIn(s, u) == member[s][u].status # "out"
Counts(s, u) == member[s][u].status \in {"accepted", "pending"}
Filled(s, r) == Cardinality({u \in Pilot : Counts(s, u) /\ member[s][u].role = r})
Full(s) == SquadCap > 0 /\ Cardinality({u \in Pilot : Counts(s, u)}) >= SquadCap
UnderWay == Cardinality({u \in Pilot : joining[u] # NoJoin}) + Cardinality(removing)
Claimed(s) == \E i \in Slot : claim[s][i] # NoPilot
Disclaim(s, u) == [i \in Slot |-> IF claim[s][i] = u THEN NoPilot ELSE claim[s][i]]
StatusOf(r) == IF r \in AutoApprove THEN "accepted" ELSE "pending"

\* GREATEST(0, reserved_slots - count), when the role still exists.
Released(s, u) == IF member[s][u].held > reserved[s] \/ mode[s]["crew"] = "gone" THEN 0
                  ELSE reserved[s] - member[s][u].held

-----------------------------------------------------------------------------
\* joinEventGroup: the row's other fields stay.
JoinGroup(s, u) ==
    /\ s \in squads
    /\ member' = [member EXCEPT ![s][u].status = "accepted"]
    /\ own' = own \cup {<<s, u>>}
    /\ UNCHANGED <<squads, hulls, mode, reserved, claim, joining, removing, saves>>

\* joinEventRole reads: the role is open; in a group with ships the pilot's is reached by a claim
\* only, and the others need one. A role that is full gives way to the group itself.
JoinRole(s, u, r) == \E locked \in {0, 1} :
    /\ s \in squads /\ joining[u] = NoJoin /\ UnderWay < MaxUnderWay /\ mode[s][r] = "open"
    /\ hulls[s] > 0 => r # "pilot" /\ Claimed(s)
    /\ LET has == Filled(s, r) + (IF r = "crew" THEN reserved[s] ELSE 0) < 1
       IN joining' = [joining EXCEPT ![u] = [squad |-> s, role |-> IF has THEN r ELSE "none",
                                             locked |-> IF has /\ hulls[s] > 0 THEN locked ELSE 0]]
    /\ UNCHANGED <<squads, hulls, mode, reserved, member, claim, removing, own, saves>>

\* ... and writes: the reservation of the row before is released, the new one made.
JoinWrites(u) == LET j == joining[u]  s == j.squad IN
    /\ j # NoJoin /\ s \in squads /\ (j.role # "none" => mode[s][j.role] # "gone")
    /\ joining' = [joining EXCEPT ![u] = NoJoin]
    /\ IF j.role = "none" /\ Full(s)
       THEN UNCHANGED <<member, reserved, own>>
       ELSE LET locks == IF mode[s]["crew"] # "gone" THEN j.locked ELSE 0 IN
            /\ Released(s, u) + locks <= MaxReserved
            /\ reserved' = [reserved EXCEPT ![s] = Released(s, u) + locks]
            /\ member' = [member EXCEPT ![s][u] =
                            [role |-> j.role, held |-> locks,
                             status |-> IF j.role = "none" THEN "accepted" ELSE StatusOf(j.role)]]
            /\ own' = own \cup {<<s, u>>}
    /\ UNCHANGED <<squads, hulls, mode, claim, removing, saves>>

\* The join finds its group or role gone: the insert fails and the transaction is rolled back.
JoinFails(u) == LET j == joining[u] IN
    /\ j # NoJoin
    /\ j.squad \notin squads \/ (j.role # "none" /\ mode[j.squad][j.role] = "gone")
    /\ joining' = [joining EXCEPT ![u] = NoJoin]
    /\ UNCHANGED <<squads, hulls, mode, reserved, member, claim, removing, own, saves>>

\* quickJoinEvent, for a user with no row yet: an open role with a slot, reserved or not; otherwise
\* a group with room.
QuickJoin(u) == LET free == {x \in squads \X RoleName : mode[x[1]][x[2]] = "open" /\ Filled(x[1], x[2]) < 1} IN
    /\ \A s \in Squad : ~IsIn(s, u)
    /\ \/ \E s \in squads, r \in RoleName :
             /\ <<s, r>> \in free
             /\ member' = [member EXCEPT ![s][u] = [role |-> r, status |-> StatusOf(r), held |-> 0]]
             /\ own' = own \cup {<<s, u>>}
       \/ /\ free = {}
          /\ \E s \in squads : /\ ~Full(s)
                               /\ member' = [member EXCEPT ![s][u] = [Out EXCEPT !.status = "accepted"]]
                               /\ own' = own \cup {<<s, u>>}
    /\ UNCHANGED <<squads, hulls, mode, reserved, claim, joining, removing, saves>>

\* claimShipSlot: the user's claim in the group moves to a free hull; the user becomes the pilot,
\* if the group has such a role with a slot.
Claim(s, u, i) ==
    /\ s \in squads /\ i < hulls[s] /\ claim[s][i] \in {NoPilot, u}
    /\ claim' = [claim EXCEPT ![s] = [Disclaim(s, u) EXCEPT ![i] = u]]
    /\ reserved' = [reserved EXCEPT ![s] = Released(s, u)]
    /\ IF mode[s]["pilot"] # "gone" /\ Filled(s, "pilot") < 1
       THEN /\ member' = [member EXCEPT ![s][u] = [role |-> "pilot", status |-> StatusOf("pilot"), held |-> 0]]
            /\ own' = own \cup {<<s, u>>}
       ELSE UNCHANGED <<member, own>>
    /\ UNCHANGED <<squads, hulls, mode, joining, removing, saves>>

\* releaseShipSlot: the membership goes if it is still the pilot's.
Unclaim(s, u) ==
    /\ \E i \in Slot : claim[s][i] = u
    /\ claim' = [claim EXCEPT ![s] = Disclaim(s, u)]
    /\ IF member[s][u].role = "pilot"
       THEN member' = [member EXCEPT ![s][u] = Out] /\ own' = own \ {<<s, u>>}
       ELSE UNCHANGED <<member, own>>
    /\ UNCHANGED <<squads, hulls, mode, reserved, joining, removing, saves>>

\* leaveEventGroup and leaveEventRole: with the reservation and the claim.
Leave(s, u) ==
    /\ IsIn(s, u)
    /\ reserved' = [reserved EXCEPT ![s] = Released(s, u)]
    /\ claim' = [claim EXCEPT ![s] = Disclaim(s, u)]
    /\ member' = [member EXCEPT ![s][u] = Out]
    /\ own' = own \ {<<s, u>>}
    /\ UNCHANGED <<squads, hulls, mode, joining, removing, saves>>

\* leaveMyEventSignup: every group, with the reservations; the claims stay.
LeaveAll(u) ==
    /\ \E s \in Squad : IsIn(s, u)
    /\ reserved' = [s \in Squad |-> Released(s, u)]
    /\ member' = [s \in Squad |-> [member[s] EXCEPT ![u] = Out]]
    /\ own' = own \ (Squad \X {u})
    /\ UNCHANGED <<squads, hulls, mode, claim, joining, removing, saves>>

\* removeGroupMember, without a transaction: the reservation is released, ...
BeginRemoval(s, u) ==
    /\ IsIn(s, u) /\ <<s, u>> \notin removing /\ UnderWay < MaxUnderWay
    /\ reserved' = [reserved EXCEPT ![s] = Released(s, u)]
    /\ removing' = removing \cup {<<s, u>>}
    /\ UNCHANGED <<squads, hulls, mode, member, claim, joining, own, saves>>

\* ... and whatever row the user has by then is deleted.
Removed(s, u) ==
    /\ <<s, u>> \in removing /\ removing' = removing \ {<<s, u>>}
    /\ member' = [member EXCEPT ![s][u] = Out]
    /\ own' = own \ {<<s, u>>}
    /\ UNCHANGED <<squads, hulls, mode, reserved, claim, joining, saves>>

\* approveGroupMember; approveAllGroupMembers is this for every pending row of the group.
Approve(s, u) ==
    /\ IsIn(s, u)
    /\ member' = [member EXCEPT ![s][u].status = "accepted"]
    /\ UNCHANGED <<squads, hulls, mode, reserved, claim, joining, removing, own, saves>>

\* respondEventAssignment: every row of the user; declining releases and keeps the row as it is.
Respond(u, status) ==
    /\ \E s \in Squad : IsIn(s, u)
    /\ member' = [s \in Squad |-> IF IsIn(s, u) THEN [member[s] EXCEPT ![u].status = status] ELSE member[s]]
    /\ reserved' = IF status = "declined" THEN [s \in Squad |-> Released(s, u)] ELSE reserved
    /\ UNCHANGED <<squads, hulls, mode, claim, joining, removing, own, saves>>

-----------------------------------------------------------------------------
\* saveEventGroups, one transaction, from a page loaded at any time before: the groups it keeps,
\* their hulls, their roles, and who it assigns to the direct ones.
Stale(s, u, n) == \E i \in Slot : i >= n /\ claim[s][i] = u

\* One role's pass. A direct role holds whom the page assigns and nobody else; a role the page has
\* dropped leaves its members in the group. Mutant: a role dropped takes its members.
DropsRole(row, to) == IF to = "gone" THEN Out ELSE row
UnlinksRole(row, to) == IF to = "gone" THEN [row EXCEPT !.role = "none"] ELSE row

Pass(row, u, r, to, assigned) ==
    IF to = "direct" /\ u = assigned THEN [row EXCEPT !.role = r, !.status = "pending"]
    ELSE IF row.role # r THEN row
    ELSE IF to = "direct" THEN Out ELSE UnlinksRole(row, to)

SaveGroup(s, n, to, assigned) ==
    /\ hulls' = [hulls EXCEPT ![s] = n]
    /\ claim' = [claim EXCEPT ![s] = [i \in Slot |-> IF i < n THEN claim[s][i] ELSE NoPilot]]
    /\ mode' = [mode EXCEPT ![s] = to]
    /\ reserved' = IF to["crew"] = "gone" THEN [reserved EXCEPT ![s] = 0] ELSE reserved
    /\ member' = [member EXCEPT ![s] = [u \in Pilot |->
          LET kept == IF Stale(s, u, n) THEN Out ELSE member[s][u]
          IN Pass(Pass(kept, u, "pilot", to["pilot"], assigned["pilot"]), u, "crew", to["crew"], assigned["crew"])]]
    /\ own' = own \ {<<s, u>> : u \in {v \in Pilot :
                Stale(s, v, n) \/ \E r \in RoleName : member[s][v].role = r /\ to[r] = "direct"}}
    /\ UNCHANGED <<squads, joining, removing>>

Save == \E s \in squads, n \in 0..MaxHulls, to \in [RoleName -> {"open", "direct", "gone"}],
           assigned \in [RoleName -> Pilot \cup {NoPilot}] :
    /\ saves < MaxSaves /\ saves' = saves + 1
    /\ \A r \in RoleName : assigned[r] # NoPilot => to[r] = "direct"
    /\ SaveGroup(s, n, to, assigned)

\* A group the page has dropped goes with its rows.
DropGroup(s) ==
    /\ s \in squads /\ squads' = squads \ {s}
    /\ saves < MaxSaves /\ saves' = saves + 1
    /\ member' = [member EXCEPT ![s] = [u \in Pilot |-> Out]]
    /\ claim' = [claim EXCEPT ![s] = [i \in Slot |-> NoPilot]]
    /\ reserved' = [reserved EXCEPT ![s] = 0]
    /\ own' = own \ ({s} \X Pilot)
    /\ UNCHANGED <<hulls, mode, joining, removing>>

SignUpNext ==
    \/ \E u \in Pilot : \/ JoinWrites(u) \/ JoinFails(u) \/ QuickJoin(u) \/ LeaveAll(u)
                        \/ \E status \in {"accepted", "declined"} : Respond(u, status)
    \/ \E s \in Squad, u \in Pilot : \/ JoinGroup(s, u) \/ Unclaim(s, u) \/ Leave(s, u) \/ BeginRemoval(s, u)
                                     \/ Removed(s, u) \/ Approve(s, u)
                                     \/ \E r \in RoleName : JoinRole(s, u, r)
                                     \/ \E i \in Slot : Claim(s, u, i)
    \/ Save
    \/ \E s \in Squad : DropGroup(s)

SignUpSpec == SignUpInit /\ [][SignUpNext]_signupVars

-----------------------------------------------------------------------------
\* Who signed up stays signed up until leaving, being removed or losing a claimed hull, or until a
\* planner gives the role to somebody or drops the group: no save from a page that was loaded
\* before the sign-up wipes it, and a role that is dropped only leaves its members without one.
SignUpsSurvive == \A s \in Squad, u \in Pilot : <<s, u>> \in own => IsIn(s, u)
=============================================================================
