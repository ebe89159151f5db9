CONSTANTS
    Requests = {p, q}
    Killable = {}
    Hotplug = hotplug
    Boot = boot
    NoCaller = nobody
    Concurrency = 3
    MaxEvents = 1
    Enabled = TRUE
    SwitchFunc = "none"
    CheckResults = {TRUE, FALSE}
    Rules = {}
    PowerCuts = TRUE
SPECIFICATION Spec
SYMMETRY Symmetry
INVARIANTS
    TunnelRouted
    GuardedTunnel
    NoStaleBlackhole
