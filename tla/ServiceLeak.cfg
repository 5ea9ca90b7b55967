SPECIFICATION Spec
CONSTANTS
    Service = {s1}
    Nobody = nobody
    Stranger = stranger
    CircuitCounts = {1}
    AnchorCounts = {1}
    StreamOf <- OneStream
    MaxStarts = 1
INVARIANT NoChildBehindRejectedVerifier
CHECK_DEADLOCK FALSE
