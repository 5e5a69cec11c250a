SPECIFICATION Spec
CONSTANTS
    Values = {v, w}
    Points = {p1, p2}
    MaxRound = 2
    MaxJobs = 1
    MaxRestarts = 1
    DiskFails = TRUE
SYMMETRY Renamings
INVARIANTS
    OneVotePerPoint
    SentIsDurableAtFirst
    DiskBehindLedger
CONSTRAINT NotShutDown
CHECK_DEADLOCK FALSE
