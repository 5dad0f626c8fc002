SPECIFICATION Spec
CONSTANTS
    MAX_CALLS = 4
    Items = {a, b}
    CAP = 2
    MAX_FAULTS = 2
CHECK_DEADLOCK FALSE
INVARIANTS
    BatchInvariant
    AnswerIsOwn
PROPERTIES
    CallsEnd
