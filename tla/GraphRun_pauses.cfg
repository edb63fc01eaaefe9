SPECIFICATION Spec
CONSTANTS
    NodeCount = 3
    Edges <- FanEdges
    Conditional <- EmptyFun
    Joins <- FanJoin
    FailureTarget <- EmptyFun
    FailureExits = {}
    Threads = {1}
    InterruptBefore = {3}
    InterruptAfter = {}
    May <- FanMay
    Gotos <- NoGotos
    SendLists <- NoSends
    ForkThreads = {}
    AsNodes = {}
    MaxSteps = 2
    BudgetMayRunOut = FALSE
    TimeTravel = FALSE
    MaxRuns = 4
    MaxEdits = 0
    MaxCheckpoints = 5
CHECK_DEADLOCK FALSE
INVARIANT ResumesFaithfully
PROPERTY StepsAreKept
