SPECIFICATION Spec
CONSTANTS
    Clients = {c1, c2}
    Followers = {1, 2}
    BufLines = 1
    InLines = 1
    Chunk = 1
    Backfill = 1
    MaxHalves = 4
    MaxTurns = 1
    MaxOpens = 2
    Combined = FALSE
    Gone = Gone
INVARIANTS InOrder TailExact
PROPERTY Quiet
CHECK_DEADLOCK FALSE
