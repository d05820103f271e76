SPECIFICATION SuiteSpec
CONSTANTS
    Parts = {"notes", "wide", "tall"}
    FieldZero = zero
    Notes = {leaf, zero}
    Mine = {leaf, zero}
    Depth = 2
    ShardHeight = 1
    MaxBatch = 2
INVARIANTS
    BookkeepingAgrees
    ProvesAgainstFlatTree
    StoredTreesReload
PROPERTIES
    OtherGeometriesAgree
    FailedCallsChangeNothing
    RestartRecovers
