SPECIFICATION Spec
CONSTANTS
    CallNonces = {c1, c2, c3}
    Pages = {page}
    Domains = {P, M}
    Persistent = {P}
    Shapes = {"wellFormed", "malformed", "noData"}
    MaxReplies = 2
SYMMETRY NonceSymmetry
INVARIANTS
    TypeOK
    ReplyOrder
    CallsAccounted
    NoLoadRace
    WorkerLifetimes
    UpdatesRelayed
PROPERTIES
    ClosedByAnswer
    ImplementsProtocol
CHECK_DEADLOCK FALSE
