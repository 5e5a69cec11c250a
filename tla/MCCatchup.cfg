SPECIFICATION FairSpec
CONSTANTS
    SeedLookback = 1
    parallelBlocks = 2
    retryLimit = 2
    AnnounceRound = 3
    SwitchRound = 4
    MaxRound = 4
    MaxBusy = 1
INVARIANTS
    LedgerCertified
    GoodNotBlamed
PROPERTIES
    CertServed
    StopEnds
    StopsAtUnsupported
CHECK_DEADLOCK FALSE
