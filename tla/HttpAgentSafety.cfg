SPECIFICATION Spec
CONSTANTS
    Provider = {p1}
    Requester = {}
    Expiries = {1, 3, NoTime}
    NoTime = NoTime
    NoKey = NoKey
    TicksPerSecond = 2
    MaxTime = 4
    MaxUpsets = 2
    MaxReserved = 1
    CanRenew = TRUE
    FiveMinutes = 2
INVARIANTS TypeOK FreshVerdict NoLostWakeup
PROPERTIES ImplementsLifecycle
