----------------------------- MODULE MCMlsStore -----------------------------
(* MlsStore on small instances.                                             *)
EXTENDS MlsStore, TLC

CONSTANTS a1, a2

AnyFault == {"crash", "write", "keyring", "forget", "reload"}
CrashOnly == {"crash"}
CrashAndMove == {"crash", "move"}
CrashAndKeyring == {"crash", "keyring"}
WriteOnly == {"write"}
EveryFault == FaultKind

Symmetry == Permutations(Account \ {LegacyOwner})
=============================================================================
