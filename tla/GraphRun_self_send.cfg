SPECIFICATION Spec
CONSTANTS
    NodeCount = 1
    Edges <- SelfEdges
    Conditional <- EmptyFun
    Joins <- EmptyFun
    FailureTarget <- EmptyFun
    FailureExits = {}
    Threads = {1}
    InterruptBefore = {}
    InterruptAfter = {}
    May <- SelfMay
    Gotos <- NoGotos
    SendLists <- SelfSends
    ForkThreads = {}
    AsNodes = {}
    MaxSteps = 3
    BudgetMayRunOut = FALSE
    TimeTravel = FALSE
    MaxRuns = 3
    MaxEdits = 0
    MaxCheckpoints = 6
CHECK_DEADLOCK FALSE
INVARIANT
    AnswersReachTheirQuestion
