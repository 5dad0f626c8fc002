SPECIFICATION Spec
CONSTANTS
    r1 = r1
    r2 = r2
    Roots = {r1}
    Kinds = {"restore"}
    Faults = {"crash", "drop", "shed", "latch", "signal", "db", "corrupt", "gap read", "read", "lock", "listing", "lag"}
    Calls = {"add", "catch up"}
    EVENT_SHED_CAP = 2
    BATCH_SIZE = 1
    MAX_CONTROL = 1
    MAX_ID = 2
SYMMETRY Symmetry
INVARIANTS
    IdleIsCaughtUp
    IdleIsConverged
PROPERTIES
    ShortRootsWait
CHECK_DEADLOCK FALSE
