CONSTANTS
    Handlers = {h}
    System = system
    Nobody = nobody
    Ops = {"side_on", "side_off", "toggle_on", "toggle_off", "native_stop", "native_restore",
           "bind_on", "bind_off", "start", "stop", "restart"}
    Concurrency = 1
    Rules = {a, b}
    HomeFunc = "vpn"
    FreeStock = FALSE
    Faults = {"read", "write", "restart"}
    Aborts = FALSE
    PowerCuts = TRUE
SPECIFICATION Spec
SYMMETRY Symmetry
INVARIANTS
    TypeOK
    NativeKept
    NothingStaged
    OneTunnel
PROPERTY FuncRestored
