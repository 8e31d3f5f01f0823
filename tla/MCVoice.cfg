SPECIFICATION MCSpec
CONSTANTS
    Speaker = {u1, u2}
    VoiceChannel = {c1}
    MaxVoice = 3
    MaxKicks = 1
    Ssrc = {1, 2}
    ReplayWindow = 2
    PerSsrc = 1
    PerReceiver = 1
    MaxRetired = 1
    MaxSkew = 0
    LastSeq = 3
    MaxSessions = 2
    MaxEpoch = 2
    MaxClock = 1
    MaxResets = 1
    MaxContributions = 2
    MaxCheckouts = 2
    MaxMonths = 1
    MaxBytes = 1
    StatusReader = {r1, r2}
    OpRequest = {q1, q2}
    OpGroup = {g1}
    OpFreq = {f1}
    MaxChannels = 5
    Pilot = {p1, p2}
    Squad = {s1}
    AutoApprove = {"pilot"}
    SquadCap = 1
    MaxHulls = 1
    MaxReserved = 1
    MaxUnderWay = 2
    MaxSaves = 1
    Sharer = {u1}
    Viewer = {w1, w2}
    MaxShares = 2
    MaxFrames = 3
    Backlog = 2
    Crew = {u1, u2, u3}
    Commander = {u1, u2}
    n1 = n1
    n2 = n2
    Net = {n1, n2}
    NoNet = NoNet
    NoOne = NoOne
    ParentOf <- EventTree
    Device = {1, 2}
    OwnerOf <- OwnAccount
    Holders = {1}
    ReplyMax = 1
    MaxAttempts = 2
    MaxPast = 1
    MaxBundles = 1
    MaxMsgs = 2
    GroupEpochs = 2
    ChatLosses = 1
INVARIANTS
    AllTypeOK
    LiveInRoom
    OnePerKey
    NoReplay
    NewFramesPlay
    CreditedOnce
    RunningKeepsChannels
    SignUpsSurvive
    NoForeignText
    ShareKept
PROPERTIES
    UsageKept
    ReadableIsFinal
    NoGaps
    FirstPastThePost
CHECK_DEADLOCK FALSE
