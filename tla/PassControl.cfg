SPECIFICATION Spec
CONSTANTS
    c1 = c1
    c2 = c2
    Callers = {c1, c2}
    MAX_CALLS = 3
    MAX_ACTIONS = 1
    MAX_GRACES = 1
INVARIANTS
    ControlInvariant
    NothingAfterRemoval
PROPERTIES
    RemovalFinishes
    StopEndsLoop
CHECK_DEADLOCK FALSE
