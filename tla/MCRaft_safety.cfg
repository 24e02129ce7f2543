SPECIFICATION SpecEarly
CONSTANTS
    s1 = s1
    s2 = s2
    s3 = s3
    Server = {s1, s2, s3}
    v1 = v1
    Value = {v1}
    Nil = Nil
    Caller = {"pump"}
    Overlap = TRUE
    MaxTerm = 2
    MaxLog = 1
    MaxElections = 2
    MaxLost = 0
    QueueCap = 1
    First = s1
    Second = s2
VIEW View
INVARIANTS TypeOK ElectionSafety LeaderCompleteness
CHECK_DEADLOCK FALSE
