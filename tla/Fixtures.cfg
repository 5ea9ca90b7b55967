SPECIFICATION Spec
CONSTANTS
    MaxRuns = 2
    Minted <- MCMinted
    Expired = 5
    Tolerance = 2
    Clocks <- MCClocks
INVARIANTS
    SaysWhatItTests
    NegativeNeverAccepted
\* The runs are bounded.
CHECK_DEADLOCK FALSE
