SPECIFICATION Spec
CONSTANTS
    NUtterances = 1
    Deviation <- Deviations
    Setup <- Default
    PrimaryTolerance = 1
    HardTolerance = 3
    MaxControls = 2
    MaxRewrites = 1
    MaxTotalAttempts = 4
    MaxDeaths = 2
    MaxFailures = 1
    MaxRetries = 1
    MaxForced = 1
    MaxTroubles = 2
INVARIANTS
    DeliveredIsKept
CHECK_DEADLOCK FALSE
