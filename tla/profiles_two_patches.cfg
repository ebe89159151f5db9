CONSTANTS
    Handlers = {h, i}
    Ids = {a}
    NoId = none
    Fields <- MCFields
    Empty = ""
    Links <- OneLink
    Edits <- FieldEdits
    Bad <- BadData
    Ops = {"import", "patch"}
    Concurrency = 2
    Flags = {}
    Flaky = FALSE
    Aborts = FALSE
    Blocked = {FALSE}
SPECIFICATION Spec
SYMMETRY Symmetry
INVARIANT EditsKept
\* or: INVARIANT ConfigCurrent
\* or: INVARIANT NeverTorn
