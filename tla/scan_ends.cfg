CONSTANTS
    Handlers = {h}
    MaxScans = 2
    MaxInMemory = 1
    ScansKeep = 1
    ChanCap = 1
    Reports = 1
    SameSecond = TRUE
    Timeouts = TRUE
    SourcesFail = TRUE
    ServiceFails = FALSE
    WritesFail = TRUE
    SkipActive = {TRUE}
    UserSwitches = {TRUE}
SPECIFICATION FairSpec
INVARIANTS
    OnePipeline
    Bounded
    ResultKept
    PauseEnds
    Findable
PROPERTIES
    ScansEnd
CHECK_DEADLOCK FALSE
