CONSTANTS
    h1 = h1
    h2 = h2
    h3 = h3
    Hooks = {h1, h2, h3}
    Times = {1, 2}
    Actions = {"allowed_shadow", "escalated", "denied"}
    MaxDamage = 1
    Outs = {"o1", "o2"}
    Cutoffs = {2, 3}
    MaxPrunes = 2
SYMMETRY MCSymmetry
CONSTRAINT MCFocus
SPECIFICATION Spec
INVARIANTS
    DamageConfined
    AckedStays
    RecordMatchesDecision
    PrunedFaithful
PROPERTIES
    OutputsNeverReplaced
CHECK_DEADLOCK FALSE
