CONSTANTS
    Handlers = {h}
    System = system
    Nobody = nobody
    Ops = {"side_on", "side_off", "toggle_on", "toggle_off"}
    Concurrency = 1
    Rules = {a, b}
    HomeFunc = "vpn"
    FreeStock = TRUE
    Faults = {}
    Aborts = FALSE
    PowerCuts = FALSE
SPECIFICATION Spec
SYMMETRY Symmetry
INVARIANTS
    NativeKept
