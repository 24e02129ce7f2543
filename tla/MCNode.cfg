SPECIFICATION NodeSpec
CONSTANTS
    Base <- TheBase
    Custom <- TheCustom
    Suppressed = {"s"}
    Meta = "meta"
    Sinks <- TheSinks
    Inputs <- TheInputs
    SigmaActive = TRUE
    ServesLong = TRUE
    MaxNodeStops = 1
    Pid = {"p"}
    Entry = {"f"}
    BatchSize = 2
    TeleCap = 1
    UpCap = 1
    DownCap = 1
    InboxCap = 1
    MaxChanges = 2
    MaxBeats = 3
    MaxBreaks = 1
INVARIANTS TelemetryAccounted ProcessesTracked SinksTold DetectedFirst
PROPERTY TelemetryArrives
CHECK_DEADLOCK FALSE
