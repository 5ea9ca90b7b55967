SPECIFICATION FairSpec
CONSTANTS
    Service = {s1}
    Nobody = nobody
    Stranger = stranger
    CircuitCounts = {0, 2}
    AnchorCounts = {0, 1}
    StreamOf <- OneStream
    MaxStarts = 2
INVARIANTS
    RefusalIsTrue
    NoChildBehindFailedStart
    StopMeansGone
PROPERTIES
    ReadyOnlyWhole
    StartSettles
    StopSettles
\* A service is started twice; then the machine rests.
CHECK_DEADLOCK FALSE
