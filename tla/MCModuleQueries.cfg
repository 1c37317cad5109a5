SPECIFICATION Spec
CONSTANTS
    Parties = {a, b}
    Callers = {a, b}
    Modules = {b}
    MaxCalls = 1
    MaxUpdates = 1
INVARIANTS
    TypeOK
    NothingLeftAtRest
CHECK_DEADLOCK FALSE
