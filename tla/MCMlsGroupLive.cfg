SPECIFICATION FairSpec
CONSTANTS
    d1 = d1
    d2 = d2
    Device = {d1, d2}
    Legacy = {}
    Goals = {"ensure"}
    NoCommit = NoCommit
    NotHeld = NotHeld
    MaxEpoch = 3
    MaxBuilds = 7
    Faults <- EitherFails
    MaxFaults = 2
PROPERTIES
    EventuallyAtServerEpoch
CHECK_DEADLOCK FALSE
