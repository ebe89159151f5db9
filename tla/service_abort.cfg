CONSTANTS
    Requests = {p}
    Killable = {p}
    Hotplug = hotplug
    Boot = boot
    NoCaller = nobody
    Concurrency = 1
    MaxEvents = 0
    Enabled = TRUE
    SwitchFunc = "none"
    CheckResults = {TRUE}
    Rules = {}
    PowerCuts = FALSE
SPECIFICATION Spec
INVARIANTS
    TunnelRouted
