----------------------------- MODULE MCMlsGroup -----------------------------
(* MlsGroup on small instances.                                             *)
EXTENDS MlsGroup, TLC

CONSTANTS d1, d2

AllFaults == FaultKind \X Device
\* d2 is removed from the list and re-listed, and fails to fetch; d1, which commits the
\* removal, crashes, loses an answer or fails to write.
EitherFails == {<<"roster", d2>>, <<"fetch", d2>>} \cup ({"crash", "answer", "write"} \X {d1})
\* d1, on the current client, is removed from the list and re-listed.
Unlisted == {<<"roster", d1>>}
Symmetry == Permutations(Device \ Legacy) \cup Permutations(Legacy)
=============================================================================
