CONSTANTS
    Orders = {o1}
    Levels = {1, 2}
    Handlers = {h1}
    Cron = cron
    Events = {e1, e2}
    NoOrder = NoOrder
    NoEvent = NoEvent
    Months = 1
    OrderTTL = 1
    MaxClock = 2
SPECIFICATION FairSpec
CHECK_DEADLOCK FALSE
INVARIANTS
    NoAccessAfterExpiry
PROPERTIES
    ImplementsLedger
    PaymentSettled
