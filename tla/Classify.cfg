SPECIFICATION Spec
CONSTANTS
    Outcome <- MCOutcome
    Options <- MCOptions
    Delay <- MCDelay
    MaxCode = 12
INVARIANTS
    YesExactlyWhenProven
    NoRestsOnEvidence
    CurrencyOnlyDowngrades
    CurrencyAgesOneWay
    WordingNeverMovesTheBit
\* One verdict per exchange: the machine stops when it has judged.
CHECK_DEADLOCK FALSE
