SPECIFICATION SuiteSpec
CONSTANTS
    Parts = {"reader", "manifests", "matrices", "file", "compact", "roots", "zstd"}
    None = None
    Length = 5
    ChunkBytes = 2
    MaxWrites = 2
    NoChunk = None
INVARIANTS
    PinnedBytesOnly
    KeysMatchTheirFiles
    OneBodyPerZkey
PROPERTY
    CompressReturns
CHECK_DEADLOCK FALSE
