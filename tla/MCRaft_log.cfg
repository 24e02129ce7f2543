SPECIFICATION FairSpecDeposed
CONSTANTS
    s1 = s1
    s2 = s2
    s3 = s3
    Server = {s1, s2, s3}
    v1 = v1
    Value = {v1}
    Nil = Nil
    Caller = {"c1"}
    Overlap = FALSE
    MaxTerm = 3
    MaxLog = 2
    MaxElections = 3
    MaxLost = 1
    QueueCap = 1
    First = s1
    Second = s2

INVARIANTS LogMatching CommitsHold
PROPERTIES CommittedStable ReplicationConverges
CHECK_DEADLOCK FALSE
