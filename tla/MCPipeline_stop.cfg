SPECIFICATION Spec
CONSTANTS
    Size <- ThreeLines
    ChanCap = 1
    RollMax = 2
    MaxStops = 1
    MaxCrashes = 0
    MaxUnsaved = 0
    MaxTorn = 0
    MaxRotations = 0
INVARIANT AtLeastOnce
CHECK_DEADLOCK FALSE
