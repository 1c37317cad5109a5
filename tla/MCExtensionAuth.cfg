SPECIFICATION FairSpec
CONSTANTS
    Users = {alice}
    NoSeed = NoSeed
    BadSeeds = {bad}
    MaxWrites = 2
    Pages = {p1}
INVARIANTS
    TypeOK
    FollowsStorage
    StageOrder
    PageInSession
PROPERTIES
    PagesSettle
CHECK_DEADLOCK FALSE
