SPECIFICATION FairSpec
CONSTANTS
    acctLookback = 1
    HeaderHistory = 2
    UpgradeRound = 2
    Chains <- Histories
    MaxCrashes = 1
    MaxFailures = 1
    MaxLookups = 2
INVARIANTS
    Recoverable
    LookupCorrect
PROPERTIES
    LookupReturns
    WaitersReleased
    Durable
CHECK_DEADLOCK FALSE
