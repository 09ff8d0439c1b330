SPECIFICATION CliSpec
CONSTANTS
    w1 = w1
    w2 = w2
    Process = {w1, w2}
    Worker = {host}
    Identity <- OneIdentity
    host = host
    NoWorker = NoWorker
    NStages = 3
    MaxAttempts = 1
    LeaseTicks = 2
    BackoffBase = 1
    BackoffCap = 1
    RenewTicks = 1
    MaxRunTicks = 1
    MaxTime = 3
    Reliable = {}
    MaxCommands = 2
SYMMETRY TwoWorkers
PROPERTIES
    SavesUndoNothing
