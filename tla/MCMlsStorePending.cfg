SPECIFICATION Spec
CONSTANTS
    a1 = a1
    a2 = a2
    Account = {a1, a2}
    Nobody = Nobody
    Root = Root
    Nothing = Nothing
    Unreadable = Unreadable
    LegacyOwner = Nobody
    MaxUpdates = 3
    Faults <- WriteOnly
    MaxFaults = 1
INVARIANTS
    AcceptedKept
