SPECIFICATION FairSpec
CONSTANTS
    Tokens = {0, 1, 2}
    EOT = 2
    Target <- MCTarget
    Prompts <- MCPrompts
    MaxNewTokens = 5
    Gamma = 3
    NGram = 1
    ModelBlockSize = 8
INVARIANTS
    NeverRaises
    ContextsExact
PROPERTIES
    ExactDecoding
CHECK_DEADLOCK FALSE
