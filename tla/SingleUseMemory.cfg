SPECIFICATION Spec
CONSTANTS
    Nonce = {n1, n2}
    Foreign = foreign
    Check = {c1, c2, c3}
    Replica = {r1}
    Shared = FALSE
    BaseVerdict <- MCBaseVerdict
    Ttl = 1
    RequestTimeout = 2
    SweepAbove = 1
    MaxClock = 4
    MaxRestarts = 1
SYMMETRY Symmetric
INVARIANTS
    TypeOK
    NoReplayWhileAlive
    RecordOutlivesNonce
    OnlyProvenSpends
    OnlyDowngrades
    AcceptedSoonAfterExpiry
CHECK_DEADLOCK FALSE
