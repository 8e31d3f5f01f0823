SPECIFICATION Spec
CONSTANTS
    d1 = d1
    d2 = d2
    Device = {d1, d2}
    Legacy = {d2}
    Goals = {"ensure", "heal", "sync"}
    NoCommit = NoCommit
    NotHeld = NotHeld
    MaxEpoch = 3
    MaxBuilds = 2
    Faults <- Unlisted
    MaxFaults = 2
SYMMETRY Symmetry
INVARIANTS
    InfoFitsItsEpoch
CHECK_DEADLOCK FALSE
