SPECIFICATION Spec
CONSTANTS
    Existing <- MCExisting
    Cwd <- MCCwd
    MaxHops = 3
    MaxShellSubstDepth = 2
    MaxConditionDepth = 2
    MaxDeepGlobs = 2
    MaxLabels = 2
    FunctionClasses <- MCFunctionClasses
    MaxAttempts = 3
    Backoff = 1
    DefaultTimeout = 3
    ClientTimeout = 2
    Answers <- MCAnswers
    Worlds <- MCWorlds
INVARIANTS
    ProtectedHolds
    AllowListHolds
    FailsClosed
    LoadedLeafDecides
    OnlySafePasses
PROPERTIES
    CallEnds
    Question
