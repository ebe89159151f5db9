CONSTANTS
    Handlers = {h}
    Ids = {a, b}
    NoId = none
    Fields <- MCFields
    Empty = ""
    Links <- TwoLinks
    Edits <- NoEdits
    Bad <- BadData
    Ops = {"import", "activate"}
    Concurrency = 1
    Flags = {}
    Flaky = FALSE
    Aborts = FALSE
    Blocked = {FALSE}
SPECIFICATION Spec
SYMMETRY Symmetry
INVARIANTS
    AllRendered
