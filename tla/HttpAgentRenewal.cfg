SPECIFICATION FairSpec
CONSTANTS
    Provider = {p1}
    Requester = {}
    Expiries = {1, 3}
    NoTime = NoTime
    NoKey = NoKey
    TicksPerSecond = 2
    MaxTime = 4
    MaxUpsets = 0
    MaxReserved = 1
    CanRenew = TRUE
    FiveMinutes = 2
PROPERTIES ExpiryMirrored
