SPECIFICATION PresenceSpec
CONSTANTS
    Talker = {u1}
    PresenceChannel = {c1, c2}
    MaxCalls = 2
    PresenceLosses = 0
INVARIANTS
    ShownWhereSubscribed
CHECK_DEADLOCK FALSE
