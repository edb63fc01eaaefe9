SPECIFICATION ServicesSpec
CONSTANTS
    \* EngineAdmission
    Callers = {c1, c2, c3}
    \* RequestQueue
    Workers = {1, 2}
    Closers = {1, 2}
    Owner = 1
    Tasks = {"t1", "t2", "t3"}
    ClosingTasks = {"t1", "t2"}
    MaxQueueSize = 2
    \* CancelToken
    Tokens = {1, 2}
    Root = 1
    Threads = {1, 2}
    Bindable = {2}
    MaxBindings = 3
    \* ConnPool
    Requests = {"r1", "r2", "r3"}
    Replayable = {"r3"}
    MaxInFlight = 2
    MaxIdle = 1
    \* LiveMigration
    MaxRequests = 2
CHECK_DEADLOCK FALSE
INVARIANTS
    TypesOK
    ExclusiveAdministration
    SlotsAccounted
    ClosedIsQuiescent
    NoChildEscapes
    EmitsExclusively
    ReservedIsHeld
    NobodyWhoFitsWaits
    SentOnce
    OwnResponses
    OneGenerationRuns
PROPERTIES
    AcceptedTasksSettle
    CancelReachesBinding
    NoCallHangs
    WaitsEnd
