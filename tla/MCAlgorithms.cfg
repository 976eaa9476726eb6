SPECIFICATION MCSpec
CONSTANTS
    Tokens = {a, b, c, d}
    Shares = 6
    QMax = 3
    DefaultLayers = 2
    PositionTable = 2
    MaxWeight = 5
    MaxDim = 5
    MaxCalls = 5
    Plain = {"a", "b"}
    Lead = "L"
    Cont = "C"
    MaxTextTokens = 4
INVARIANTS
    LawIsTargets
    OutcomesAreSupports
    TextIsDecoded
    NoStopStreamed
    FiltersLeaveNucleus
    QuantizationIsClose
    TilesCoverProduct
    LoaderIsExact
    GraphsAreFaithful
CHECK_DEADLOCK FALSE
