CONSTANTS
    Layout <- MCLayout
    Portals <- MCPortals
    Calls <- MCCalls
    Decoy = "b"
    Proofs <- MCProofs
    MaxRevision = 15
    Exact = 8
    Null = Null
SPECIFICATION Spec
INVARIANT DownloadMatchesLink
CHECK_DEADLOCK FALSE
