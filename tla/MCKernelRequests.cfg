SPECIFICATION FairSpec
CONSTANTS
    Requests = {r1, r2}
    Asks <- MCAsks
    Hooks = {g1}
    Methods = {"version", "setModuleOverrides"}
    r1 = r1
    r2 = r2
    Lists = {"one"}
    Entries <- MCEntries
    NoOverrides = "none"
    DownProxies = {"localhost"}
    MaxFrames = 2
INVARIANTS
    AnswersMatch
PROPERTIES
    RequestsServed
CHECK_DEADLOCK FALSE
