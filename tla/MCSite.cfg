SPECIFICATION LiveSpec
CONSTANTS
    Jobs = {j1, j2}
    NoJob = none
    Holders = {h1}
    Tabs = {t1}
    MaxRevision = 2
    MaxTroubles = 2
    MaxStarts = 2
    MaxGestures = 2
INVARIANTS
    ShownIsFollowed
    EventsAreOfTheirStatus
    ConflictsAreReal
PROPERTIES
    ShownNeverGoesBack
    PageSettles
CHECK_DEADLOCK FALSE
