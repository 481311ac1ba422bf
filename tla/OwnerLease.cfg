CONSTANTS
    w1 = w1
    w2 = w2
    Watchdog = {w1, w2}
    NoWatchdog = NoWatchdog
    MaxSessions = 2
    LeaseSeconds = 1
SPECIFICATION FairSpec
INVARIANTS ExclusiveUnlessRaced LeaseTellsOwner SessionsOnRecord
PROPERTIES AbandonedLeaseExpires ImplementsOwnership
