SPECIFICATION Spec
CONSTANTS
    a1 = a1
    a2 = a2
    Account = {a1}
    Nobody = Nobody
    Root = Root
    Nothing = Nothing
    Unreadable = Unreadable
    LegacyOwner = a1
    MaxUpdates = 4
    Faults <- CrashAndKeyring
    MaxFaults = 2
INVARIANTS
    AckedSurvives
