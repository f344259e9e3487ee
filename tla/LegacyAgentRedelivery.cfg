SPECIFICATION Spec
CONSTANTS
    Provider = {}
    Requester = {q1}
    Expiries = {1, 3}
    NoTime = NoTime
    NoKey = NoKey
    TicksPerSecond = 2
    MaxTime = 4
    MaxUpsets = 1
    MaxReserved = 1
    CanRenew = TRUE
    FiveMinutes = 2
PROPERTIES NotProcessedTwice
CHECK_DEADLOCK FALSE
