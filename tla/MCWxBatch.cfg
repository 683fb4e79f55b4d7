SPECIFICATION FairSpec
CONSTANTS
    a1 = a1
    s1 = s1
    s2 = s2
    Attempts <- MCAttempts
    Stuck <- MCStuck
    Watched = a1
    BatchSize = 2
    MaxConcurrency = 2
    MaxRestarts = 1
INVARIANTS
    RotationInv
PROPERTIES
    EveryExpiredOrderEnds
CHECK_DEADLOCK FALSE
