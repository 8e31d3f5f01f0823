SPECIFICATION VideoSpec
CONSTANTS
    Sharer = {u1}
    Viewer = {w1}
    MaxShares = 2
    MaxFrames = 2
    Backlog = 2
INVARIANTS
    NewestIsListed
CHECK_DEADLOCK FALSE
