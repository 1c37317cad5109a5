CONSTANTS
    f1 = f1
    f2 = f2
    o1 = o1
    o2 = o2
    Files = {f1, f2}
    Ops = {o1, o2}
    Sizes = {10, 8190}
    InitialRevision = 0
    Increment <- MCIncrement
    MaxRevision = 3
    MaxDelayed = 1
    Null = Null
    Tags <- MCTags
    Sha512 <- MCSha512
    Entropies <- MCEntropies
SPECIFICATION Spec
INVARIANTS
    TypeOK
    ConsecutiveRevisions
    NoLostUpdate
    HistoryCovered
    EntriesApart
PROPERTY ObjectsOnlyAdvance
SYMMETRY Symmetry
CHECK_DEADLOCK FALSE
