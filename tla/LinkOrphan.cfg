SPECIFICATION LinkSpec
CONSTANTS
    Tunable = {c1, c2}
    NoTune = NoTune
    MaxReconnects = 2
INVARIANTS
    NoOrphan
CHECK_DEADLOCK FALSE
