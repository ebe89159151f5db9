CONSTANTS
    Handlers = {h}
    MaxScans = 3
    MaxInMemory = 2
    ScansKeep = 2
    ChanCap = 1
    Reports = 0
    SameSecond = FALSE
    Timeouts = FALSE
    SourcesFail = FALSE
    ServiceFails = FALSE
    WritesFail = TRUE
    SkipActive = {FALSE}
    UserSwitches = {TRUE, FALSE}
SPECIFICATION Spec
INVARIANTS
    TypeOK
    OnePipeline
    Bounded
    ResultKept
CHECK_DEADLOCK FALSE
