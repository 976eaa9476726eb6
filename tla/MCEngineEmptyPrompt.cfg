SPECIFICATION Spec
CONSTANTS
    Seqs = {s1, s2}
    NumBlocks = 3
    BlockSize = 2
    MaxBatchSize = 2
    ModelBlockSize = 6
    PromptLens = {0, 3}
    MaxTokensValues = {3}
SYMMETRY Symmetric
INVARIANTS
    StepNeverRaises
