SPECIFICATION FairSpec
CONSTANTS
    a1 = a1
    a2 = a2
    Account = {a1, a2}
    Nobody = Nobody
    Root = Root
    Nothing = Nothing
    Unreadable = Unreadable
    LegacyOwner = a1
    MaxUpdates = 3
    Faults <- EveryFault
    MaxFaults = 1
INVARIANTS
    DirHoldsOwn
PROPERTIES
    DeferredIsFlushed
