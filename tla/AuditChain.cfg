SPECIFICATION Spec
CONSTANTS
    MaxTraces = 4
    SyncMode = "interval"
    SyncEvery = 2
    RotateTokens = 5
    MaxRotations = 2
    MaxCrashes = 2
INVARIANTS
    WriterAtTail
    EveryImageRecoverable
    DurableAckSurvives
    AckStaysVisible
    FailedLeavesNoRecord
PROPERTIES
    ImplementsAuditLog
CHECK_DEADLOCK FALSE
