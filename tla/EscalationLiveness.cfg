SPECIFICATION FairSpec
CONSTANTS
    Req = {r1, r2}
    Ids = {a, b}
    NoReq = none
    MaxEntries = 2
    Timeouts = {0, 1}
    DefaultTimeout = 2
    MaxTime = 3
    MaxFaults = 1
    MaxRestarts = 0
PROPERTY
    PendingSettles
