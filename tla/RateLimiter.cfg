SPECIFICATION Spec
CONSTANTS
    Key = {k1, k2, k3}
    Limit = 2
    WindowMs = 2
    HardCap = 2
    MaxClock = 5
    MaxGrants = 5
SYMMETRY Symmetric
INVARIANTS
    Bounded
    TwoWindowsAtMost
    RefusedOnlyWhenSpent
\* The clock and the requests are bounded.
CHECK_DEADLOCK FALSE
