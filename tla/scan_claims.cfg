CONSTANTS
    Handlers = {h, i}
    MaxScans = 2
    MaxInMemory = 2
    ScansKeep = 2
    ChanCap = 2
    Reports = 1
    SameSecond = FALSE
    Timeouts = TRUE
    SourcesFail = FALSE
    ServiceFails = FALSE
    WritesFail = FALSE
    SkipActive = {TRUE, FALSE}
    UserSwitches = {}
SPECIFICATION Spec
INVARIANT OnePipeline
\* or: INVARIANT BusyMeansRunning
\* or: PROPERTY OnlyRestores
\* or: INVARIANT PausedWhileScanning
CHECK_DEADLOCK FALSE
