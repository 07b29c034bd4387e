SPECIFICATION Spec
CONSTANTS
    u1 = u1
    u2 = u2
    d1 = d1
    d2 = d2
    w1 = w1
    None = None
    Swapout = Swapout
    ReadAhead = ReadAhead
    User = {u1, u2}
    Device = {d1, d2}
    Count <- DeviceCount
    Size <- DeviceSize
    Groups = 1
    MaxBds = 2
    MaxWrite = 2
    MaxReadAhead = 1
    Worker = {w1}
    Consecutive = {d2}
    Calls <- TaskCalls
    Wants <- TaskWants
    Fails = {"read", "write", "ahead"}
CONSTRAINT
    ReadNotPurged
INVARIANTS
    OneExternalUser
    StateTable
    CacheCoherent
    SleepHasReason
    SyncWritesAll
