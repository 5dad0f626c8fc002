SPECIFICATION Spec
CONSTANTS
    a = a
    b = b
    Calls = {a}
    Nobody = Nobody
    Other = Other
    ATTEMPTS = 3
    ERROR_LIMIT = 1
    TTL = 4
    PAUSE_FIRST = 1
    PAUSE_MAX = 2
    Faults = TRUE
    Shutdowns = TRUE
INVARIANTS
    RequestInvariant
PROPERTIES
    WaitsEnd
CHECK_DEADLOCK FALSE
