------------------------------ MODULE StateCell ------------------------------
(***************************************************************************)
(* What the storage of device states promises to one account, without       *)
(* files, keys, pages, other accounts or a migration. A save replaces the    *)
(* state at once, by one that includes what was promised; until it is        *)
(* complete it may be given up, and the cell falls back to what the last     *)
(* complete save left, never further. Nothing else touches the cell.         *)
(*                                                                           *)
(* A state is the set of updates it has absorbed. Once the key is lost       *)
(* nothing is promised; a new one is made only where nothing is kept.        *)
(***************************************************************************)
CONSTANT Update

VARIABLES
    safe,      \* the state that the last complete save left
    latest,    \* the state that a load returns
    promised,  \* the updates that must not be lost any more
    lost       \* whether the key is lost

vars == <<safe, latest, promised, lost>>

Init ==
    /\ safe \in SUBSET Update /\ latest = safe
    /\ promised \in SUBSET safe
    /\ lost = FALSE

\* A save; whoever does not see the files sees it complete at once.
Write ==
    /\ latest' \in SUBSET Update /\ promised \subseteq latest'
    /\ safe' \in {safe, latest'}
    /\ UNCHANGED <<promised, lost>>

\* The next save begins before the one before was complete.
GiveUp == latest' = safe /\ UNCHANGED <<safe, promised, lost>>

\* What a load returns is there for good, and may be promised.
Complete ==
    /\ safe' = latest
    /\ promised' \in SUBSET latest /\ promised \subseteq promised'
    /\ UNCHANGED <<latest, lost>>

\* Without the key nothing can be told.
KeyGone == lost'

\* A new key: there was nothing to lose.
Renew ==
    /\ lost /\ ~lost'
    /\ safe' = {} /\ latest' = {} /\ promised' = {}

Next == Write \/ GiveUp \/ Complete \/ KeyGone \/ Renew

Spec == Init /\ [][Next]_vars
=============================================================================
