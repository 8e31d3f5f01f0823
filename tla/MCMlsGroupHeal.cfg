SPECIFICATION Spec
CONSTANTS
    d1 = d1
    d2 = d2
    Device = {d1, d2}
    Legacy = {}
    Goals = {"ensure", "heal"}
    NoCommit = NoCommit
    NotHeld = NotHeld
    MaxEpoch = 3
    MaxBuilds = 6
    Faults <- AllFaults
    MaxFaults = 1
PROPERTIES
    HealLeavesUsableCopy
CHECK_DEADLOCK FALSE
