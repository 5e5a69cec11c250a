SPECIFICATION Spec
CONSTANTS
    Values <- TwoValues
    Bottom = Bottom
    ProposalVotes <- TwoOriginals
    MaxRound = 1
    MaxPeriod = 1
    MaxStep = 3
    TimelyFast = TRUE
INVARIANTS
    OneValuePerStep
    FreshestLeadsHere
    CertifiedTracked
PROPERTIES
    VotesFollowRules
