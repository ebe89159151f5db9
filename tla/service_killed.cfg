CONSTANTS
    Requests = {p}
    Killable = {p}
    Hotplug = hotplug
    Boot = boot
    NoCaller = nobody
    Concurrency = 3
    MaxEvents = 2
    Enabled = TRUE
    SwitchFunc = "xray"
    CheckResults = {TRUE, FALSE}
    Rules = {wg}
    PowerCuts = TRUE
SPECIFICATION Spec
INVARIANTS
    TypeOK
    SwitchOffStops
