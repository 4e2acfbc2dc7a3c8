CONSTANTS
    Orders = {o1, o2}
    Levels = {1, 2}
    Handlers = {h1}
    Cron = cron
    Events = {e1, e2}
    NoOrder = NoOrder
    NoEvent = NoEvent
    Months = 1
    OrderTTL = 1
    MaxClock = 1
SPECIFICATION Spec
CHECK_DEADLOCK FALSE
SYMMETRY Symmetry
INVARIANTS
    TypeOK
    EntitlementMatchesOrder
    RecordedPaymentKept
    OneLiveOrder
