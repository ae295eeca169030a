SPECIFICATION Spec
CONSTANTS
    Req = {r1, r2, r3}
    Ids = {a, b}
    NoReq = none
    MaxEntries = 1
    Timeouts = {0, 1}
    DefaultTimeout = 1
    MaxTime = 3
    MaxFaults = 1
    MaxRestarts = 1
SYMMETRY Symmetry
INVARIANTS
    PublishNeverFails
    OneOutcome
    VisibleIsAudited
    AnswersStand
    DeadlineDecides
PROPERTY
    ImplementsLifecycle
