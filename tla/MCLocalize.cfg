SPECIFICATION LiveSpec
CONSTANTS
    p1 = p1
    p2 = p2
    Process = {p1}
    NBatches = 2
    MaxDeaths = 2
    MaxFailures = 1
    MaxRetries = 1
    MaxForced = 1
INVARIANTS
    ProofsAreOnRecord
    DeathCostsOneCall
PROPERTIES
    HistoryOnlyGrows
    DeliveredIsCurrent
    LocalizeSettles
CHECK_DEADLOCK FALSE
