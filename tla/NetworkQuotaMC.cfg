CONSTANTS
    Requests = {r1, r2, r3}
    TTL = 1
    Limits = {1, 2}
    MaxClock = 2
SPECIFICATION FairSpec
CHECK_DEADLOCK FALSE
INVARIANTS
    TypeOK
    QuotaRespected
PROPERTY SlotsComeBack
