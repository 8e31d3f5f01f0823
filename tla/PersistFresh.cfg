\* Late loads of two accounts: a fresh identity takes the place of a stored one.
SPECIFICATION PersistSpec
CONSTANTS
    Account = {a1, a2}
    First = a1
    a1 = a1
    a2 = a2
    NoAccount = NoAccount
    NoState = NoState
    MaxJobs = 2
    MaxSignIns = 4
    PersistFaultKinds = {}
    MaxPersistFaults = 0
INVARIANT ReleasedOnDisk
CHECK_DEADLOCK FALSE
