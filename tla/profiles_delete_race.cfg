CONSTANTS
    Handlers = {h, i}
    Ids = {a, b}
    NoId = none
    Fields <- MCFields
    Empty = ""
    Links <- OneLink
    Edits <- NoEdits
    Bad <- BadData
    Ops = {"import", "delete", "activate"}
    Concurrency = 2
    Flags = {}
    Flaky = FALSE
    Aborts = FALSE
    Blocked = {FALSE}
SPECIFICATION Spec
SYMMETRY Symmetry
INVARIANT ActiveSaved
\* or: INVARIANT DeletedGone
