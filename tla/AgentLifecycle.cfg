SPECIFICATION FairSpec
CONSTANTS
    Attempts = {a1, a2}
    Nobody = Nobody
INVARIANTS
    LifecycleInv
    CreationsArePaired
    UnloadLeavesNothing
PROPERTIES
    TeardownReleases
CHECK_DEADLOCK FALSE
