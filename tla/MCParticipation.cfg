SPECIFICATION Spec
CONSTANTS
    a = a  b = b  n1 = n1  n2 = n2
    Accounts = {a, b}
    Nodes = {n1, n2}
    Local <- MCLocal
    Weight <- MCWeight
    Lookback = 2
    ChallengeInterval = 14
    ChallengeGracePeriod = 7
    AbsenteeismMultiplier = 4
    MaxMarkAbsent = 1
    MaxExpired = 1
    hbLifetime = 2
    FirstRound = 14
    LastRound = 22
    InitialRecs <- MCInitialRecs
    KeyLasts = {17, 27}
    MaxKeyregs = 1
    MaxMissed = 2
INVARIANTS
    GeneratedValid
    SettledWeighed
    HeartbeatsSuffice
    OneFreeHeartbeat
CHECK_DEADLOCK FALSE
