SPECIFICATION Spec
CONSTANTS
    d1 = d1
    d2 = d2
    Device = {d1, d2}
    Legacy = {}
    Goals = {"ensure", "force"}
    NoCommit = NoCommit
    NotHeld = NotHeld
    MaxEpoch = 3
    MaxBuilds = 4
    Faults <- AllFaults
    MaxFaults = 2
SYMMETRY Symmetry
INVARIANTS
    NoFork
    BaseSurvivesCrash
    IndInv
PROPERTIES
    ImplementsHistory
CHECK_DEADLOCK FALSE
