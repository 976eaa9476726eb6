SPECIFICATION FairSpec
CONSTANTS
    Seqs = {s1, s2, s3}
    NumBlocks = 3
    BlockSize = 3
    MaxBatchSize = 2
    ModelBlockSize = 6
    PromptLens = {2}
    MaxTokensValues = {4, 6}
PROPERTIES
    EveryRequestFinishes
