CONSTANTS
    Attempt = {a1, a2}
    Nobody = Nobody
SPECIFICATION FairSpec
INVARIANTS LaunchInv WorkerSpared
PROPERTIES AbandonedRunIsFreed
CHECK_DEADLOCK FALSE
