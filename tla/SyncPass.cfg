SPECIFICATION SyncSpec
CONSTANTS
    OTHER_ITEMS = 1
    GUARD_LIMIT = 1
    RACES = {}
    MAX_EDITS = 3
    MAX_EVENTS = 1
CHECK_DEADLOCK FALSE
INVARIANTS
    SyncInvariant
PROPERTIES
    NoResurrection
    Converges
