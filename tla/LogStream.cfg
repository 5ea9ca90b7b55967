SPECIFICATION Spec
CONSTANTS
    Stream = {"stderr"}
    Char = {nl, sp, a, b}
    Newline = nl
    Space = sp
    MaxText = 6
INVARIANTS
    LinesSurvive
\* The log ends.
CHECK_DEADLOCK FALSE
