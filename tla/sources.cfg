CONSTANTS
    Requests = {r1, r2}
    Presets = {preset}
    Ids = {a}
    Versions = {v1, v2}
    Ops = {"add", "add_off", "enable", "disable", "delete", "refresh", "refresh_one", "scan"}
    MaxRequests = 3
    MaxChanges = 1
    Crashes = TRUE
    Torn = Torn
    None = None
SPECIFICATION Spec
SYMMETRY Symmetry
INVARIANTS
    StoreKept
    UnchangedTrue
CHECK_DEADLOCK FALSE
