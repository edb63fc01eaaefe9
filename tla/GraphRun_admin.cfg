SPECIFICATION Spec
CONSTANTS
    NodeCount = 3
    Edges <- FanEdges
    Conditional <- EmptyFun
    Joins <- FanJoin
    FailureTarget <- EmptyFun
    FailureExits = {}
    Threads = {1, 2}
    InterruptBefore = {}
    InterruptAfter = {}
    May <- GateMay
    Gotos <- NoGotos
    SendLists <- NoSends
    ForkThreads = {2}
    AsNodes <- AdminNodes
    MaxSteps = 1
    BudgetMayRunOut = FALSE
    TimeTravel = FALSE
    MaxRuns = 2
    MaxEdits = 2
    MaxCheckpoints = 4
CHECK_DEADLOCK FALSE
INVARIANTS
    AncestryAccepted
    ResumesFaithfully
PROPERTY StepsAreKept
