CONSTANTS
    Settings = {"s1", "s2"}
    MaxEdits = 2
    MaxRuns = 3
SPECIFICATION Spec
INVARIANTS
    StatusHonest
    Reversible
PROPERTIES
    EditsKept
CHECK_DEADLOCK FALSE
