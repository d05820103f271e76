SPECIFICATION SuiteSpec
CONSTANTS
    Parts = {"chain", "sage", "program", "body", "inputs", "export", "tool", "frame"}
    Tools = {t1, t2}
    Files <- MCFiles
    Invocations <- MCInvocations
    BodyBytes <- MCBytes
    ClientBytes = 3
    BatchBytes = 5
    MaxReplacements = 1
    Modulus = 5
    FieldBits = 4
    LimbBits = 3
    Limbs = 2
    MaxNodes = 4
    SignalCount = 2
    Operations = {"Div"}
    ConstantValues = {0}
    InputBuffers <- MCInputBuffers
    RetainedLimit = 5
    MaxCalculations = 2
    NodeLimit = 3
    SignalLimit = 2
    ProgramBytes = 196
    OperationTags = {16}
    Bytes = {0, 1, 2, 3}
    Kinds = {0, 1, 2, 3, 4}
    Tags = {0, 16}
    OperationCost = 3
    InverseCost = 4
    Budget = 7
    Artifacts <- MCFramed
    GraphBytes = 7
    CompressedBytes = 4
    WindowBytes = 1
    StoredBytes = 8
    ToolBytes = 7
    InitialBytes = 1
    GrowthBytes = 3
    ChunkBytes = 2
INVARIANTS
    EvaluationIsExact
    LoadedProgramsReadWhatTheyWrote
    BufferHoldsWhatWasGiven
    TranscodedBodyIsTheSameGraph
    GraphsKeepTheirMeaning
    OutputsComeFromPinnedSources
    OnlyOneWholeFrameIsOpened
CHECK_DEADLOCK FALSE
