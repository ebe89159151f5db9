CONSTANTS
    Clients = {c1, c2}
    StateBlocks = {service, tun}
    TTL = 1
    Deadline = 1
    Tickers = {t}
    Nudgers = {n}
    MaxNow = 2
    MaxAsks = 3
    MaxBytes = 1
    MaxReroutes = 1
    MaxFails = 1
    Never = Never
    Failed = Failed
SPECIFICATION Spec
INVARIANTS
    TypeOK
    RateTrue
PROPERTIES
    Promise
    Answered
    ExitSettles
CHECK_DEADLOCK FALSE
