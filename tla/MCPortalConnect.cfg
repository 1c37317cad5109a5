CONSTANTS
    MaxErrors = 6
    FirstKept = 1
    p1 = p1
    p2 = p2
    q1 = q1
    Portals = {p1, p2}
    Queries = {q1}
    MaxAttempts <- MCAttempts
    MaxOpen = 2
    Null = Null
SPECIFICATION Spec
INVARIANTS
    TypeOK
    InitCompletes
    RetriesDoNotMultiply
    HistoryKept
PROPERTY QueriesAnswered
CHECK_DEADLOCK FALSE
