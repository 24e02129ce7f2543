SPECIFICATION SpecElected
CONSTANTS
    s1 = s1
    s2 = s2
    s3 = s3
    Server = {s1, s2, s3}
    v1 = v1
    Value = {v1}
    Nil = Nil
    Caller = {"c1", "c2"}
    Overlap = TRUE
    MaxTerm = 2
    MaxLog = 2
    MaxElections = 1
    MaxLost = 0
    QueueCap = 2
    First = s1
    Second = s2
SYMMETRY Electorate
PROPERTIES TruncatesOnlyConflicts
CHECK_DEADLOCK FALSE
