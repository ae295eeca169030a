CONSTANTS
    Settings = {"s1", "s2"}
    MaxEdits = 1
    MaxRuns = 4
SPECIFICATION UninterruptedSpec
PROPERTIES
    OriginalRestored
CHECK_DEADLOCK FALSE
