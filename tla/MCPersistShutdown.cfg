SPECIFICATION FairSpec
CONSTANTS
    Values = {v}
    Points = {p}
    MaxRound = 3
    MaxJobs = 1
    MaxRestarts = 0
    DiskFails = TRUE
CHECK_DEADLOCK FALSE
PROPERTIES
    ActionsEnd
    ShutdownEnds
