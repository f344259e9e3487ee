SPECIFICATION FairSpec
CONSTANTS
    Provider = {p1}
    Requester = {}
    Expiries = {3, 5}
    NoTime = NoTime
    NoKey = NoKey
    TicksPerSecond = 2
    MaxTime = 3
    MaxUpsets = 1
    MaxReserved = 1
    CanRenew = TRUE
    FiveMinutes = 1
INVARIANTS TypeOK FreshVerdict NoLostWakeup
PROPERTIES ExpiryNeverGoesBack OnlyAResetTakesBack ResetIsMadeGood NewWatchBringsItBack
CHECK_DEADLOCK FALSE
