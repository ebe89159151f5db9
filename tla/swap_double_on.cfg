CONSTANTS
    Handlers = {h, i}
    System = system
    Nobody = nobody
    Ops = {"side_on", "toggle_on", "toggle_off", "bind_on", "bind_off", "restart"}
    Concurrency = 3
    Rules = {a}
    HomeFunc = "vpn"
    FreeStock = TRUE
    Faults = {}
    Aborts = TRUE
    PowerCuts = FALSE
SPECIFICATION Spec
SYMMETRY Symmetry
INVARIANTS
    ClaimRemembered
