SPECIFICATION Spec
CONSTANTS
    a1 = a1
    a2 = a2
    Account = {a1}
    Nobody = Nobody
    Root = Root
    Nothing = Nothing
    Unreadable = Unreadable
    LegacyOwner = Nobody
    MaxUpdates = 3
    Faults <- CrashOnly
    MaxFaults = 2
INVARIANTS
    ReliedSurvives
