SPECIFICATION FairSpec
CONSTANTS
    Nonce = {n1}
    Foreign = foreign
    Check = {c1, c2}
    Replica = {r1, r2}
    Shared = TRUE
    BaseVerdict <- MCBaseVerdict
    Ttl = 1
    RequestTimeout = 1
    SweepAbove = 0
    MaxClock = 3
    MaxRestarts = 1
INVARIANTS
    ReplayHasFirstUse
PROPERTIES
    ImplementsVisits
    CheckSettles
CHECK_DEADLOCK FALSE
