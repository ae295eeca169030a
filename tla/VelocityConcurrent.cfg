SPECIFICATION Spec
CONSTANTS
    Req = {r1, r2, r3}
    Key = {a}
    None = none
    Amounts = {0, 1}
    Cap = 1
    Hour = 1
    Day = 2
    IdleEvict = 0
    MaxKeys = 1
    MaxEvents = 2
    MaxTime = 3
SYMMETRY Symmetry
INVARIANTS
    CrossingCallDenied
CHECK_DEADLOCK FALSE
