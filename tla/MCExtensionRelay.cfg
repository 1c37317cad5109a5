SPECIFICATION Spec
CONSTANTS
    Docs = {d1}
    Calls = {c1, c2}
    NoCall = NoCall
    Loads = {"success"}
    MaxSessions = 2
    MaxUpdates = 1
SYMMETRY CallSymmetry
INVARIANTS
    RelayFaithful
PROPERTIES
    ImplementsProtocol
CHECK_DEADLOCK FALSE
