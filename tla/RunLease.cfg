CONSTANTS
    a = a
    b = b
    r = r
    Cycle = {a, b, r}
    Recovery = {r}
    Nobody = Nobody
    Preload = {a}
    Artifact <- Artifacts
SPECIFICATION HFairSpec
INVARIANTS OneCycle OneLoop LeaseBelieved RoutesInv
PROPERTIES LoopSeenAgain
CHECK_DEADLOCK FALSE
