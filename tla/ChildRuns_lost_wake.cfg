CONSTANTS
    Procs = {1}
    Children = {"c1", "c2"}
    Budget = 0
    Grant = 0
    MaxFence = 1
    MaxPauses = 2
    MaxAsks = 1
    MaxCrashes = 0
SPECIFICATION ChildSpec
PROPERTY PausedParentContinues
CHECK_DEADLOCK FALSE
