SPECIFICATION WebSpec
SYMMETRY TwoWorkers
CHECK_DEADLOCK FALSE
CONSTANTS
    w1 = w1
    w2 = w2
    Process = {w1, w2}
    Worker = {host}
    Identity <- OneIdentity
    host = host
    NoWorker = NoWorker
    NStages = 2
    MaxAttempts = 2
    LeaseTicks = 2
    BackoffBase = 1
    BackoffCap = 1
    RenewTicks = 1
    MaxRunTicks = 1
    MaxTime = 6
    Reliable = {}
    MaxPosts = 2
INVARIANTS
    OpenAttempts
