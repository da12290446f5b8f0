SPECIFICATION MCFairSpec
CONSTANTS
    a1 = a1
    a2 = a2
    Attempts <- MCAttempts
    None = None
    ChunkSize = 2
    Version <- MCVersion
    Content <- MCContent
INVARIANTS
    TypeOK
    FinalVerified
    FailsOnlyByFault
PROPERTIES
    CompleteMeansStored
    AttemptEnds
CHECK_DEADLOCK FALSE
