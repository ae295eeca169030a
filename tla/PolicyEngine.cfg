SPECIFICATION Spec
CONSTANTS
    Policy <- MCPolicy
    Envelope <- MCEnvelope
    MaxPolicies = 2
    NoRule = NoRule
INVARIANTS
    OrderIndependent
    EnforcementDecides
    ExplainsAction
CHECK_DEADLOCK FALSE
