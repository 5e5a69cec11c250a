SPECIFICATION Spec
CONSTANTS
    Honest = {n1, n2}
    Values = {v, w}
    Bottom = Bottom
    Quorums <- MajorityQuorums
    MaxPeriod = 2
CONSTRAINT NoRecoveryFromLast
CHECK_DEADLOCK FALSE
INVARIANTS
    Agreement
PROPERTIES
    Certifies
