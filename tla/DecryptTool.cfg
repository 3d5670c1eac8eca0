CONSTANTS
    Derived = k0
    k1 = k1
    k2 = k2
    c1 = c1
    c2 = c2
    Imports = {k1, k2}
    Coins = {c1, c2}
    NoKey = NoKey
    NoCoin = NoCoin
    SingleFlight = TRUE
    CoinsOf <- Lists
    MaxOther = 1
SPECIFICATION ToolSpec
CHECK_DEADLOCK FALSE
INVARIANTS
    ToolTypeOK
    PanicHasCause
    EveryCoinJudged
PROPERTIES
    ErrorHasCause
    ToolEnds
