SPECIFICATION Spec
CONSTANTS
    Provider = {p1}
    Requester = {}
    Expiries = {1}
    NoTime = NoTime
    NoKey = NoKey
    TicksPerSecond = 2
    MaxTime = 4
    MaxUpsets = 0
    MaxReserved = 1
    CanRenew = FALSE
    FiveMinutes = 2
PROPERTIES EnforcedSettlesForGood
