CONSTANTS
    Members <- OneMember
    Handlers = {h1}
    Cron = cron
    MaxClock = 2
    MaxFaults = 0
SPECIFICATION Spec
PROPERTIES
    NotReactivatedWhilePending
