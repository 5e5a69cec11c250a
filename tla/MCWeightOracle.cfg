SPECIFICATION Spec
CONSTANTS
    Accounts <- TwoAccounts
    LocalKeys <- TwoAccounts
    VoteRounds <- Rounds
    StartRound = 3
    Lookback = 2
    SeedLookback = 1
    Window <- Windows
    Daemons <- FiveDaemons
    Expected <- Expects
    CommitteeSize = 2
    WeightCacheCapacity = 2
    TotalWeightCacheCapacity = 1
    Workers = {w1, w2}
CHECK_DEADLOCK FALSE
INVARIANTS
    CachesConsistent
    VerifiedTruly
    NoPanic
