SPECIFICATION SuiteSpec
CONSTANTS
    Parts = {"queue"}
    Capacity = 1
    MaxJobs = 1
    MaxCloses = 2
    Threads = {t1, t2}
    NoThread = none
    Types = {tree, signer}
    KeyTypes = {signer}
    MaxHandle = 3
    Callers = {c1, c2}
    MaxCalls = 2
    Values = {zero, leaf}
    Mine <- MCMine
    FieldZero = zero
    Malformed = malformed
    LeafCapacity = 3
    ShardSize = 2
    MaxTreeHandle = 2
    MaxTrees = 1
    MaxBatch = 2
    Requests = {r1, r2}
    Chunks = 2
    Files <- MCFiles
    MaxStarts = 2
    MaxHostActs = 1
    None = None
    Tabs = {1, 2}
    CompilerOf <- MCCompilerOf
    Pins <- MCPins
    MaxLoads = 2
    MaxTampers = 1
    Nothing = Nothing
INVARIANT
    CloseAnsweredAfterRelease
CHECK_DEADLOCK FALSE
