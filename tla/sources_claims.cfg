CONSTANTS
    Requests = {r1, r2}
    Presets = {preset}
    Ids = {a}
    Versions = {v1}
    Ops = {"add", "add_off", "enable", "disable", "delete", "refresh_one"}
    MaxRequests = 3
    MaxChanges = 0
    Crashes = FALSE
    Torn = Torn
    None = None
SPECIFICATION Spec
SYMMETRY Symmetry
INVARIANT NoTrampling
\* or: INVARIANT AlwaysReadable
\* or: INVARIANT NoOrphans
CHECK_DEADLOCK FALSE
