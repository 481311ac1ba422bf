CONSTANTS
    NFiles = 2
    MaxParallel = 1
    MaxIterations = 2
    TimeoutInstalled = TRUE
    TimeoutsSet = TRUE
    MaxCycles = 2
SPECIFICATION FairSpec
INVARIANTS LoopInv AcceptedRunRests
PROPERTIES CycleEnds
CHECK_DEADLOCK FALSE
