SPECIFICATION Spec
CONSTANTS
    a1 = a1
    a2 = a2
    Account = {a1, a2}
    Nobody = Nobody
    Root = Root
    Nothing = Nothing
    Unreadable = Unreadable
    LegacyOwner = Nobody
    MaxUpdates = 2
    Faults <- AnyFault
    MaxFaults = 2
SYMMETRY Symmetry
INVARIANTS
    AckedSurvives
    OneKey
PROPERTIES
    ImplementsCells
    NeverFreshOver
