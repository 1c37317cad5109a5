SPECIFICATION FairSpec
CONSTANTS
    CallNonces = {c1, c2, c3}
    Pages = {page}
    Domains = {P, M}
    Persistent = {P}
    Shapes = {"wellFormed", "malformed", "noData"}
    MaxReplies = 0
PROPERTIES
    CallsAnswered
CHECK_DEADLOCK FALSE
