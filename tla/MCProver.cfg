SPECIFICATION SuiteSpec
CONSTANTS
    Parts = {"manifest", "query", "resumed", "builder", "coefficients", "groth16", "ntt", "buckets", "lanes", "msm", "limbs"}
    None = None
    FileOrder <- MCFileOrder
    Length <- MCLength
    MaxLength = 2
INVARIANTS
    OnlyAuthenticatedIsParsed
    StreamedKeyIsResident
    NothingNeededWasReleased
    WorkspaceProofIsFresh
    KernelsAreExact
CHECK_DEADLOCK FALSE
