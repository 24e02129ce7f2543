SPECIFICATION SpecRestored
CONSTANTS
    s1 = s1
    s2 = s2
    s3 = s3
    Server = {s1, s2, s3}
    v1 = v1
    Value = {v1}
    Nil = Nil
    Caller = {"c1"}
    Overlap = FALSE
    MaxTerm = 5
    MaxLog = 2
    MaxElections = 5
    MaxLost = 0
    QueueCap = 1
    First = s1
    Second = s2

PROPERTIES CommitsReplicated
CHECK_DEADLOCK FALSE
