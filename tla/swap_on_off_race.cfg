CONSTANTS
    Handlers = {h, i}
    System = system
    Nobody = nobody
    Ops = {"side_on", "side_off"}
    Concurrency = 2
    Rules = {a}
    HomeFunc = "vpn"
    FreeStock = FALSE
    Faults = {}
    Aborts = FALSE
    PowerCuts = FALSE
SPECIFICATION Spec
SYMMETRY Symmetry
INVARIANTS
    ClaimRemembered
