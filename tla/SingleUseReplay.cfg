SPECIFICATION Spec
CONSTANTS
    Nonce = {n1}
    Foreign = foreign
    Check = {c1, c2}
    Replica = {r1}
    Shared = FALSE
    BaseVerdict <- MCBaseVerdict
    Ttl = 1
    RequestTimeout = 2
    SweepAbove = 0
    MaxClock = 3
    MaxRestarts = 0
SYMMETRY Symmetric
INVARIANT AcceptedAtMostOnce
CHECK_DEADLOCK FALSE
