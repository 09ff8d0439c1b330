SPECIFICATION RetrySpec
CONSTANTS
    w1 = w1
    w2 = w2
    Process = {w1, w2}
    Worker = {host}
    Identity <- OneIdentity
    host = host
    NoWorker = NoWorker
    NStages = 3
    MaxAttempts = 1
    LeaseTicks = 1
    BackoffBase = 1
    BackoffCap = 1
    RenewTicks = 1
    MaxRunTicks = 0
    MaxTime = 2
    Reliable = {}
    RetryFrom = {2, 3}
    RetryAttempts = 1
    MaxRequests = 1
PROPERTIES
    ActiveWorkIsSpared
