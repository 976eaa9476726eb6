SPECIFICATION PagedSpec
CONSTANTS
    Seqs = {s1, s2, s3}
    NumBlocks = 3
    BlockSize = 2
    MaxBatchSize = 2
    ModelBlockSize = 8
    PromptLens = {1, 4}
    MaxTokensValues = {0, 4}
SYMMETRY Symmetric
INVARIANTS
    TypeOK
    BlockOwnership
    ListsMatchStatus
    NextPosition
    TablesMatchProgress
    StepNeverRaises
    PreemptedBeforeFresh
    CacheHoldsOwnTokens
    AttendsExactContext
    KernelReadsContext
PROPERTIES
    StallOnlyIfUnfit
    OneEvictionSuffices
    KeepsPromise
