SPECIFICATION Spec
CONSTANTS
    Clients = {c1, c2}
    Followers = {1, 2}
    BufLines = 2
    InLines = 1
    Chunk = 1
    Backfill = 2
    MaxHalves = 4
    MaxTurns = 1
    MaxOpens = 2
    Combined = TRUE
    Gone = Gone
INVARIANT AtMostOne
\* or: INVARIANT OneVoice, Detects, Gapless, NoRepeat
CHECK_DEADLOCK FALSE
