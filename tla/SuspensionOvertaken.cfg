CONSTANTS
    Members <- OneMember
    Handlers = {h1}
    Cron = cron
    MaxClock = 3
    MaxFaults = 0
SPECIFICATION Spec
INVARIANTS
    AllDeauthorised
