CONSTANTS
    Members <- OneMember
    Handlers = {h1}
    Cron = cron
    MaxClock = 2
    MaxFaults = 1
    alice = alice
    bob = bob
    n1 = n1
    n2 = n2
    User <- MCUser
    Network <- MCNetwork
    Grantable <- MCGrantable
    MaxCalls = 3
    Org = Org
    None = None
SPECIFICATION MCSpec
INVARIANTS
    TypeOK
    ExpiredIsOff
    StampedIsOff
    OrgTypes
    OwnerBelongs
PROPERTIES
    SuspensionEnds
    AccessReturns
    NothingForgotten
