CONSTANTS
    Members <- OneMember
    Handlers = {h1}
    Cron = cron
    MaxClock = 2
    MaxFaults = 1
SPECIFICATION FairSpec
PROPERTIES
    RetryPossible
