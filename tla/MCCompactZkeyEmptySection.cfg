SPECIFICATION SuiteSpec
CONSTANTS
    Parts = {"compact"}
    None = None
    Length = 5
    ChunkBytes = 2
    MaxWrites = 2
    NoChunk = None
INVARIANT
    InflateReturns
CHECK_DEADLOCK FALSE
