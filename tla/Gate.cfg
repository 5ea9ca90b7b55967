SPECIFICATION FairSpec
CONSTANTS
    Request = {1, 2, 3}
    Client = {k1}
    Proxy = px
    Key = {k1, px}
    Limit = 1
    WindowMs = 1
    HardCap = 2
    MaxClock = 2
    MaxGrants = 3
    MaxBody = 1
    MaxBodyRead = 1
    Answer <- MCAnswer
    FlawSets <- MCFlawSets
INVARIANTS
    SlotBounded
    BitOnlyFromVerifier
    VerifierProtected
    ClosesUnread
    SingleUseErrorsAreCheap
    ReplaySafeByDefault
PROPERTIES
    EveryRequestAnswered
    ShutdownFinishes
\* Requests and clock are bounded, and the process ends.
CHECK_DEADLOCK FALSE
