SPECIFICATION LiveSpec
CONSTANTS
    w1 = w1
    w2 = w2
    Process = {w1, w2}
    Worker = {host}
    Identity <- OneIdentity
    host = host
    NoWorker = NoWorker
    NStages = 2
    MaxAttempts = 2
    LeaseTicks = 2
    BackoffBase = 1
    BackoffCap = 1
    RenewTicks = 1
    MaxRunTicks = 1
    MaxTime = 26
    Reliable = {w1}
INVARIANTS
    TypeOK
    StagesInOrder
    RunStatusMirrorsStages
    AttemptLedger
    LeasesAreExclusive
    NeverStranded
PROPERTIES
    OwnerClosesAttempt
    OutcomesAreFinal
    ImplementsPipeline
    RunSettles
