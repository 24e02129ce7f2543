SPECIFICATION Spec
CONSTANTS
    Isolate = {}
    Unisolate = {}
    Other = {"kill"}
    HalfOpen = TRUE
    ChanCap = 1
    MaxSessions = 2
    MaxBeats = 1
    MaxRestarts = 0
INVARIANTS StreamIsLive
CHECK_DEADLOCK FALSE
