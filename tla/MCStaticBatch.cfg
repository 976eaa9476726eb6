SPECIFICATION FairSpec
CONSTANTS
    Rows = {1, 2}
    Tokens = {0, 1, 2}
    EOT = 2
    NoEOT = 9
    Pad = 0
    Target <- MCTarget
    Prompts <- MCPrompts
    MaxNewTokens = 4
    ModelBlockSize = 7
INVARIANTS
    NeverRaises
    QueriesSeeOwnRow
PROPERTIES
    BatchInvariance
    EveryRowCompletes
CHECK_DEADLOCK FALSE
