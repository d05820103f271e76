SPECIFICATION SuiteSpec
CONSTANTS
    Parts = {"queue", "registry", "guard", "foreign", "session", "cache"}
    Capacity = 2
    MaxJobs = 4
    MaxCloses = 3
    Threads = {t1, t2}
    NoThread = none
    Types = {tree, signer}
    KeyTypes = {signer}
    MaxHandle = 3
    Callers = {c1, c2}
    MaxCalls = 2
    Values = {zero, leaf}
    Mine <- MCMine
    FieldZero = zero
    Malformed = malformed
    LeafCapacity = 3
    ShardSize = 2
    MaxTreeHandle = 2
    MaxTrees = 1
    MaxBatch = 2
    Requests = {r1, r2}
    Chunks = 2
    Files <- MCFiles
    MaxStarts = 2
    MaxHostActs = 1
    None = None
    Tabs = {1, 2}
    CompilerOf <- MCCompilerOf
    Pins <- MCPins
    MaxLoads = 2
    MaxTampers = 1
    Nothing = Nothing
INVARIANTS
    SettledInOrder
    ClosesAnsweredLast
    HandlesNeverReused
    MessagesStayWithTheirThread
    CleanNotesWereReceived
    OnlyAuthenticChunksAreParsed
    OnlyTrustedProgramsRun
PROPERTIES
    ImplementsService
    NoUseAfterFree
    RefusedCallsDisturbNoOther
    CallsSettle
CHECK_DEADLOCK FALSE
