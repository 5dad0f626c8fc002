SPECIFICATION Spec
CONSTANTS
    r1 = r1
    r2 = r2
    Roots = {r1, r2}
    Kinds = {"plain"}
    Faults = {"crash", "drop", "corrupt", "poison", "db remove", "read", "lock"}
    Calls = {"add", "remove", "evict", "shutdown"}
    EVENT_SHED_CAP = 1
    BATCH_SIZE = 1
    MAX_CONTROL = 2
    MAX_ID = 2
SYMMETRY Symmetry
INVARIANTS
    RecordInvariant
    IdleIsConverged
PROPERTIES
    ConsumedIsAccounted
CHECK_DEADLOCK FALSE
