SPECIFICATION Spec
CONSTANTS
    a1 = a1
    a2 = a2
    Account = {a1, a2}
    Nobody = Nobody
    Root = Root
    Nothing = Nothing
    Unreadable = Unreadable
    LegacyOwner = a1
    MaxUpdates = 4
    Faults <- CrashAndMove
    MaxFaults = 2
INVARIANTS
    NothingKeptIsLost
    StoreInv
