SPECIFICATION MCSpec
CONSTANTS
    NoSession = NoSession
    MaxTokens = 5
    MaxCommands = 3
    MaxTicks = 2
    AuthFaults = {"lost", "crash", "disk", "expiry"}
    MaxAuthFaults = 1
    Account = {a1, a2}
    First = a1
    NoAccount = NoAccount
    NoState = NoState
    MaxJobs = 2
    MaxSignIns = 2
    PersistFaultKinds = {"io", "answer", "crash", "reload", "late"}
    MaxPersistFaults = 1
    Talker = {u1}
    PresenceChannel = {c1, c2}
    MaxCalls = 2
    PresenceLosses = 1
    Tunable = {c1, c2}
    NoTune = NoTune
    MaxReconnects = 2
    m1 = m1
    k1 = k1
    k2 = k2
    Monitor = {m1}
    KeyGroup = {k1, k2}
    Follows <- MonitorGroups
    MaxRekeys = 2
    Unprompted = 1
INVARIANTS
    OneLivePerLogin
    NoFalseTheft
    NothingLeftBehind
    ReleasedOnDisk
    NoGenerationReuse
    StatesStayHome
    LinkSound
    MonitorFollows
PROPERTIES
    RefreshSettles
    NoLostUpdate
    WorkSettles
    PresenceHeals
CHECK_DEADLOCK FALSE
