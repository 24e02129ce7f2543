SPECIFICATION FairSpec
CONSTANTS
    Size <- FourLines
    ChanCap = 1
    RollMax = 2
    MaxStops = 1
    MaxCrashes = 1
    MaxUnsaved = 1
    MaxTorn = 1
    MaxRotations = 1
INVARIANTS LinesHold Accounted TiersAgree
PROPERTY Searchable
CHECK_DEADLOCK FALSE
