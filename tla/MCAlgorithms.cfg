SPECIFICATION AlgSpec
CONSTANTS
    RuleSet <- Rules
    Group = {"g", "h"}
    Value = {"u", "v"}
    NoValue = "-"
    Base <- Matches
    MaxTime = 3
    MaxEvents = 4
    Names <- TheNames
    Picks <- ThePicks
    Numeral <- TheNumeral
    Alias <- TheAlias
    NoEntity = "-"
    TacticOf <- TheTactics
    ClassTactic <- TheClasses
    Cfg <- TheCfg
    Sections <- TheSections
    DefaultOf <- TheDefaults
    Desired <- TheDesired
    DirOf <- TheDirs
    MaxApplies = 2
    MaxTears = 1
    CefHeader <- TheHeader
    Letter = {"a", "n", "m", "k"}
    Month = {"Jan"}
    Digit = {"1", "2"}
    CharOf <- TheChars
    Idents <- TheIdents
    Bits <- TheBits
    SuspectThreshold = 300
    DgaThreshold = 350
    Feed <- TheFeed
    Iocs <- TheIocs
    Control = "control"
    Cidrs = {"net"}
    Task = {"t", "u"}
    Image <- TheImages
    MaxFailures = 1
INVARIANTS CorrelationFires SigmaMeaning CampaignsHold Deployed DslMeaning CodecsFaithful EventsMean ResponsesHold
CHECK_DEADLOCK FALSE
