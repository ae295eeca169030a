CONSTANTS
    c1 = c1
    c2 = c2
    c3 = c3
    Calls = {c1, c2, c3}
    Keys = {"", "a"}
    Burst = 1
    Rate = 1
    IdleEvict = 1
    MaxKeys = 1
    MaxTime = 2
    NFiles = 2
    Policies = {"p", "q"}
    Reloaders = {"hup", "post"}
    MaxEdits = 1
    MaxReloads = 2
    Ids = {"i", "j"}
    Tools = {"known", "other"}
    Declared <- MCDeclared
    MaxPending = 1
    MaxFaults = 1
SYMMETRY MCSymmetry
CONSTRAINT MCFocus
SPECIFICATION Spec
INVARIANTS
    ProceedIsAudited
    ChainAgrees
    StampedByDecider
    MetricsHonest
    ReservationsHeld
    RateBudget
    ServingValid
CHECK_DEADLOCK FALSE
