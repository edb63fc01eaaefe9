SPECIFICATION Spec
CONSTANTS
    NodeCount = 3
    Edges <- FanEdges
    Conditional <- EmptyFun
    Joins <- FanJoin
    FailureTarget <- EmptyFun
    FailureExits = {}
    Threads = {1}
    InterruptBefore = {}
    InterruptAfter = {}
    May <- GateMay
    Gotos <- NoGotos
    SendLists <- NoSends
    ForkThreads = {}
    AsNodes = {}
    MaxSteps = 3
    BudgetMayRunOut = FALSE
    TimeTravel = TRUE
    MaxRuns = 3
    MaxEdits = 0
    MaxCheckpoints = 6
CHECK_DEADLOCK FALSE
INVARIANT
    FinishedSiblingsReplay
