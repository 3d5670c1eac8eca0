CONSTANTS
    Payload = 3
    RequestSizes = {5}
    ReplySizes = {5}
    MaxExchanges = 1
    Abandon = FALSE
    Faults = TRUE
SPECIFICATION Spec
CHECK_DEADLOCK FALSE
INVARIANTS
    SuccessHasStatus
