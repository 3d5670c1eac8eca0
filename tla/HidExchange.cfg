CONSTANTS
    Payload = 3
    RequestSizes = {4, 5, 7}
    ReplySizes = {2, 3, 4, 5, 7, 8}
    MaxExchanges = 3
    Abandon = TRUE
    Faults = TRUE
SPECIFICATION FairSpec
CHECK_DEADLOCK FALSE
INVARIANTS
    TypeOK
    ExchangeReturnsAnswer
    RequestArrivesWhole
PROPERTIES
    ExchangeEnds
    ImplementsExchange
