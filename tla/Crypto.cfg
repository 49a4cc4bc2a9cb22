SPECIFICATION Spec
CONSTANTS
    Repetitions = 2
    NumWitnesses = 2
    LogDegrees = {3, 4, 6}
    PathSets <- Columns
    ByteBits = 3
    InputBytes = 8
    CounterSize = 3
    MaxUpdates = 3
    Lengths <- MessageLengths
    HashLengths <- HashedLengths
    LogBlocks = 3
    LogSegments = 1
    MaxQueries = 8
    NumNodes = 3
    MaxEpoch = 1
    MaxRounds = 3
INVARIANTS
    CommitmentIsMerkleRoot
    AnswersRight
    CoinsAfterCommitments
    Completeness
    AluRight
    TraceRight
    FftRight
    Gf64Right
    AcspRight
    CompressionRight
    HashRight
    
    MixRight
    NeverRecovers
PROPERTY ProtocolDecides
CHECK_DEADLOCK FALSE
