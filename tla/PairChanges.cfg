SPECIFICATION Spec
CONSTANTS
    edit = edit
    del = del
    LocalItems = {edit}
    RemoteItems = {del}
    Deletions = {del}
    DIRTY_CAP = 1
    GUARD_LIMIT = 0
    MAX_CHANGES = 2
    MAX_EVENTS = 2
INVARIANTS
    ChangesInvariant
PROPERTIES
    ChangesAreSynced
CHECK_DEADLOCK FALSE
