SPECIFICATION FairSpec
CONSTANTS
    Docs = {d1, d2}
    Calls = {c1}
    NoCall = NoCall
    Loads = {"success"}
    MaxSessions = 2
    MaxUpdates = 1
INVARIANTS
    AnswersInSession
PROPERTIES
    QueriesAnswered
CHECK_DEADLOCK FALSE
