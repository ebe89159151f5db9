CONSTANTS
    Requests = {}
    Killable = {}
    Hotplug = hotplug
    Boot = boot
    NoCaller = nobody
    Concurrency = 3
    MaxEvents = 2
    Enabled = TRUE
    SwitchFunc = "xray"
    CheckResults = {TRUE}
    Rules = {}
    PowerCuts = FALSE
SPECIFICATION FairSpec
PROPERTIES
    SwitchOnStarts
    SwitchOffFrees
