CONSTANTS
    Derived = derived
    Imports = {k1}
    Coins = {c1}
    NoKey = noKey
    NoCoin = noCoin
    SingleFlight = FALSE
    CliKey = k1
    CliCoin = c1
    MaxQueue = 1
SPECIFICATION CliSpec
INVARIANTS
    CliTypeOK
    WaitHasEnd
PROPERTIES
    AnswerIsOwn
    ExportNeedsConsent
    LeftoverNotGranted
