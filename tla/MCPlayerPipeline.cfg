SPECIFICATION Spec
CONSTANTS
    Values <- TwoValues
    Bottom = Bottom
    ProposalVotes <- TwoOriginals
    MaxRound = 2
    MaxPeriod = 0
    MaxStep = 2
    TimelyFast = TRUE
INVARIANTS
    NoPanic
    EnsuredCertified
