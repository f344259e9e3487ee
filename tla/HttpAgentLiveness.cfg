SPECIFICATION FairSpec
CONSTANTS
    Provider = {p1}
    Requester = {q1}
    Expiries = {3, NoTime}
    NoTime = NoTime
    NoKey = NoKey
    TicksPerSecond = 2
    MaxTime = 5
    MaxUpsets = 1
    MaxReserved = 1
    CanRenew = FALSE
    FiveMinutes = 2
INVARIANTS NoLostWakeup
PROPERTIES DeliveredSettlesForGood ExpiredIsReleased ReservedIsHeld
