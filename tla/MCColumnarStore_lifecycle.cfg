SPECIFICATION FairSpec
CONSTANTS
    MaxSegments = 2
    MaxTime = 2
    WarmAge = 0
    ColdAge = 1
    MaxCrashes = 1
    MaxErrors = 1
INVARIANTS RetentionHolds HuntFailsOnlyMoved
PROPERTIES ImplementsStore Archived
CHECK_DEADLOCK FALSE
