SPECIFICATION FairSpec
CONSTANTS
    NodeCount = 4
    Edges <- RouteEdges
    Conditional <- RouteConditional
    Joins <- RouteJoin
    FailureTarget <- RouteFailure
    FailureExits = {3}
    Threads = {1}
    InterruptBefore = {1, 2, 3}
    InterruptAfter = {4}
    May <- RouteMay
    Gotos <- RouteGotos
    SendLists <- NoSends
    ForkThreads = {}
    AsNodes = {}
    MaxSteps = 3
    BudgetMayRunOut = TRUE
    TimeTravel = TRUE
    MaxRuns = 4
    MaxEdits = 0
    MaxCheckpoints = 10
CHECK_DEADLOCK FALSE
INVARIANT ResumesFaithfully
PROPERTIES
    StoresWholeSuperSteps
    EveryRunEnds
