SPECIFICATION LiveSpec
CONSTANTS
    Bodies <- MCBodies
    Preambles <- MCPreambles
    MaxParts = 2
    Chunk = 3
    MaxHeader = 6
    MaxField = 4
INVARIANTS
    UploadIsExact
    MemoryIsBounded
PROPERTIES
    UploadEnds
CHECK_DEADLOCK FALSE
