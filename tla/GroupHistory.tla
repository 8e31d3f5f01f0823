---------------------------- MODULE GroupHistory ----------------------------
(***************************************************************************)
(* What an MLS group promises its devices, without clients, requests or     *)
(* locks: there is one history of epochs, it only grows at its end, and a   *)
(* device reads it forwards. A restart takes a device back to the place it  *)
(* last made durable, and to no other.                                      *)
(***************************************************************************)
EXTENDS Naturals, Sequences

CONSTANTS Reader, Entry

VARIABLES
    history,    \* the epochs' entries, oldest first
    place,      \* how far each reader is (0: not in the group)
    saved       \* how far a restart would take it

vars == <<history, place, saved>>

Init ==
    /\ history = << >>
    /\ place = [r \in Reader |-> 0]
    /\ saved = [r \in Reader |-> 0]

Extend ==
    /\ history' # << >>
    /\ LET e == history'[Len(history')]
       IN  e \in Entry /\ history' = Append(history, e)
    /\ UNCHANGED <<place, saved>>

Advance(r) ==
    /\ \E n \in place[r] + 1 .. Len(history) : place' = [place EXCEPT ![r] = n]
    /\ UNCHANGED <<history, saved>>

Save(r) ==
    /\ saved' = [saved EXCEPT ![r] = place[r]]
    /\ UNCHANGED <<history, place>>

Restart(r) ==
    /\ place' = [place EXCEPT ![r] = saved[r]]
    /\ UNCHANGED <<history, saved>>

Next == Extend \/ \E r \in Reader : Advance(r) \/ Save(r) \/ Restart(r)

Spec == Init /\ [][Next]_vars
=============================================================================
