SPECIFICATION FairSpec
CONSTANTS
    Parties = {a, b}
    Callers = {a}
    Modules = {a, b}
    MaxCalls = 1
    MaxUpdates = 3
INVARIANTS
    RepliesFaithful
    QueryUpdatesInOrder
PROPERTIES
    AnswersAndUpdatesArrive
CHECK_DEADLOCK FALSE
