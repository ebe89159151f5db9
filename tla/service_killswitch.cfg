CONSTANTS
    Requests = {p, q}
    Killable = {}
    Hotplug = hotplug
    Boot = boot
    NoCaller = nobody
    Concurrency = 2
    MaxEvents = 0
    Enabled = TRUE
    SwitchFunc = "none"
    CheckResults = {TRUE}
    Rules = {}
    PowerCuts = FALSE
SPECIFICATION Spec
INVARIANT NeverStaleBlackhole
\* or: PROPERTY NoLeakWindow
