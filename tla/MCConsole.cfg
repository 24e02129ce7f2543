SPECIFICATION ConsoleSpec
CONSTANTS
    Alert = {1, 2, 3}
    Ts <- Times
    Analyst = {"p", "q"}
    Patch <- Patches
    Lists <- FpLists
    Keep = Keep
    NoRecord = NoRecord
    Cap = 2
    MaxPush = 3
    MaxRestart = 1
    MaxLost = 1
    a = a
    b = b
    fa = fa
    fb = fb
    fq = fq
    fc = fc
    Rule = {a, b}
    NoRule = NoRule
    File = {fa, fb, fq, fc}
    Nested = {fc}
    FileOf <- FileNames
    Packaged <- Shipped
    Version = {1, 2}
    Drafts <- Submitted
    Secret = {"s"}
    Blank = Blank
    Key = {"k"}
    Saves <- Forms
    r1 = r1
    r2 = r2
    Req = {r1, r2}
    MaxReq = 3
    MaxCrash = 1
    MaxFail = 1
    User = {"ann", "bob"}
    AuthConfigs <- AuthBlocks
    NoSecret = NoSecret
    SeedToken = {"seed"}
    MintToken = {"minted"}
    Ttl = 1
    Leeway = 1
    MaxNow = 4
    MaxLife = 3
    MaxJwts = 2
    MaxEnroll = 1
INVARIANTS NotesKept RingNewest EngineCurrent UntouchedDetected SecretsKept RolesRunOut
SYMMETRY Symmetry
CHECK_DEADLOCK FALSE
