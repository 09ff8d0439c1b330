SPECIFICATION LiveSpec
CONSTANTS
    MaxDeaths = 2
    MaxFailures = 1
    MaxRetries = 1
    MaxForced = 1
    MaxLosses = 1
    MaxTroubles = 3
INVARIANTS
    ReportsTellTheTruth
PROPERTIES
    RenderedIsKept
    DeliveredIsProven
    RenderSettles
CHECK_DEADLOCK FALSE
