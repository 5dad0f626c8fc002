SPECIFICATION Spec
CONSTANTS
    a = a
    b = b
    Locks = {a, b}
    NoLock = NoLock
    TTL = 3
    BUDGET = 2
    REFRESH = 1
    RETRY = 1
    CLOCK_TICK = 1
    Confirming = {}
    Suspending = {a}
    WallSteps <- MCBack
    OlderServer = TRUE
    Prompt = FALSE
    MaxTime = 4
    MaxSkew = 2
INVARIANTS
    ReleaseFreesNothingUsed
    MutualExclusion
    ValidIsHeld
PROPERTIES
    LapsedForGood
    LeasesAreFenced
CHECK_DEADLOCK FALSE
