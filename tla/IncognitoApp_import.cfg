CONSTANTS
    Derived = derived
    Imports = {k1, k2}
    Coins = {c1, c2}
    NoKey = noKey
    NoCoin = noCoin
    SingleFlight = TRUE
SPECIFICATION Spec
PROPERTIES
    ImportNeedsApproval
