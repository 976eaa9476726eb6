SPECIFICATION MCSpec
CONSTANTS
    Tokens = {a, b}
    Shares = 2
    QMax = 3
    DefaultLayers = 2
    PositionTable = 2
    MaxWeight = 5
    MaxDim = 5
    MaxCalls = 2
    Plain = {"a", "b"}
    Lead = "L"
    Cont = "C"
    MaxTextTokens = 4
INVARIANTS
    LoadsHoweverTrained
CHECK_DEADLOCK FALSE
