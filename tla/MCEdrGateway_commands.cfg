SPECIFICATION FairSpec
CONSTANTS
    Isolate = {"iso"}
    Unisolate = {"unis"}
    Other = {}
    HalfOpen = TRUE
    ChanCap = 1
    MaxSessions = 2
    MaxBeats = 1
    MaxRestarts = 1
INVARIANTS AtMostOnce FlagTellsFirewall
PROPERTIES AuditTrail ViewCatchesUp
CHECK_DEADLOCK FALSE
