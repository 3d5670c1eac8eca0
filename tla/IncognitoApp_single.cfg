CONSTANTS
    Derived = derived
    Imports = {k1, k2}
    Coins = {c1, c2}
    NoKey = noKey
    NoCoin = noCoin
    SingleFlight = TRUE
SPECIFICATION FairSpec
INVARIANTS
    TypeOK
    OutstandingIsAnswerable
    PromptHoldsAnswer
PROPERTIES
    ImplementsService
    EveryCommandEnds
