SPECIFICATION Spec
CONSTANTS
    a1 = a1
    a2 = a2
    Attempts <- MCAttempts
    None = None
    ChunkSize = 2
    Version <- TwoVersion
    Content <- TwoContent
INVARIANT ResumesVerifiedChunks
CHECK_DEADLOCK FALSE
