SPECIFICATION Spec
CONSTANTS
    NodeCount = 3
    Edges <- SendEdges
    Conditional <- EmptyFun
    Joins <- EmptyFun
    FailureTarget <- EmptyFun
    FailureExits = {}
    Threads = {1}
    InterruptBefore = {}
    InterruptAfter = {}
    May <- SendMay
    Gotos <- NoGotos
    SendLists <- SendSends
    ForkThreads = {}
    AsNodes = {}
    MaxSteps = 2
    BudgetMayRunOut = FALSE
    TimeTravel = FALSE
    MaxRuns = 3
    MaxEdits = 0
    MaxCheckpoints = 5
CHECK_DEADLOCK FALSE
 
PROPERTY StepsAreKept
