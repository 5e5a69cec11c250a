SPECIFICATION Spec
CONSTANTS
    Senders <- MCSenders
    Weight <- MCWeight
    Faulty <- MCFaulty
    Values = {v1, v2, bottom}
    NoValue = NoValue
    Quorum = 5
SYMMETRY Renamings
INVARIANTS
    CountsMatchVotes
    ThresholdExactlyOnce
    BundleProvesThreshold
    BundleConvinces
    DumpRebuilds
    FilterDropsOnlyDuplicates
