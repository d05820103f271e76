SPECIFICATION SuiteSpec
CONSTANTS
    Parts = {"imt", "frontier", "pending"}
    FieldZero = zero
    CapZero = capZero
    Values = {leaf, zero}
    MaxDepth = 3
    MaxBatch = 3
    Leaves = {leaf, zero}
    Zero = zero
    MaxFrontierDepth = 3
    MaxPage = 3
    MaxSaved = 1
    NoteIds = {a, b, c, zero}
    ZeroId = zero
    TreeDepths = {0, 1, 2}
    Geometries <- PendingGeometries
    MaxBatchSize = 3
    MaxIds = 3
SYMMETRY Symmetry
INVARIANTS
    NodesMatchReference
    ProofsBind
    FrontierExtendsTree
    FrontierIsExact
    InputsProveTheNewRoot
PROPERTIES
    ImplementsLog
    RefusedCallsChangeNothing
