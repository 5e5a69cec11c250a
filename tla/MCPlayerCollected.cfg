SPECIFICATION Spec
CONSTANTS
    Values <- OneValue
    Bottom = Bottom
    ProposalVotes <- OneProposal
    MaxRound = 1
    MaxPeriod = 4
    MaxStep = 3
    TimelyFast = TRUE
INVARIANTS
    NoPanic
