SPECIFICATION Spec
CONSTANTS
    Run = {r1, r2}
    Kinds = {"binary", "circuits"}
    Machines = {"glibc", "musl", "unknown", "other"}
    Circuits = 2
    Before = {"none", "other", "pinned"}
    MaxRots = 1
INVARIANTS
    OnlyPinnedInstalled
    ReturnedMeansUsable
    RunsOnlyPinned
    ProvisionedMeansReady
\* Every call ends, and the start with it.
CHECK_DEADLOCK FALSE
