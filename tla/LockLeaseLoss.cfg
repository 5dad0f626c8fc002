SPECIFICATION Spec
CONSTANTS
    a = a
    b = b
    Locks = {a}
    NoLock = NoLock
    TTL = 3
    BUDGET = 2
    REFRESH = 1
    RETRY = 1
    CLOCK_TICK = 1
    Confirming = {a}
    Suspending = {a}
    WallSteps <- MCForward
    OlderServer = TRUE
    Prompt = TRUE
    MaxTime = 6
    MaxSkew = 2
INVARIANTS
    LeaseInvariant
PROPERTIES
    ConfirmMeansHeld
    LossNoticed
CHECK_DEADLOCK FALSE
