CONSTANTS
    Handlers = {h}
    Ids = {a, b, c}
    NoId = none
    Fields <- MCFields
    Empty = ""
    Links <- OneLink
    Edits <- AllEdits
    Bad <- BadData
    Ops = {"import", "patch", "delete", "activate", "rerender"}
    Concurrency = 1
    Flags = {a, b, c}
    Flaky = FALSE
    Aborts = FALSE
    Blocked = {TRUE, FALSE}
SPECIFICATION Spec
SYMMETRY Symmetry
INVARIANTS
    TypeOK
    TunnelCurrent
    ActiveSelected
    EditsKept
