SPECIFICATION EffectsSpec
CONSTANTS
    \* NodeAttempts
    Callers = {0, 1}
    Slots = {0, 1}
    MaxRetries = 1
    MaxResumes = 1
    Repeatable = FALSE
    \* ChildRuns
    Procs = {1, 2}
    Children = {"c1"}
    Budget = 2
    Grant = 1
    MaxFence = 2
    MaxPauses = 0
    MaxAsks = 0
    MaxCrashes = 1
    \* HookOutbox; Hook 2, of the part "ordered", is the idempotent one
    Runners = {1, 2}
    Hooks = {1}
    Idempotent = {2}
    MaxAttempts = 2
    MaxDeliveries = 1
    Timeout = 2
    LeaseTime = 1
    MaxTime = 3
CHECK_DEADLOCK FALSE
INVARIANTS
    TypesOK
    OncePerSlot
    OncePerRun
    ChildrenFunded
    
    OneExecutor
    BoundariesHold
    DeliveredOnce
    
PROPERTIES
    LateResultsDiscarded
    AttemptsEnd
    ContinuedWhenAnswered
    PausedParentContinues
    NoOrphans
    EmissionsEnd
