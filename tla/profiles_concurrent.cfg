CONSTANTS
    Handlers = {h, i}
    Ids = {a, b}
    NoId = none
    Fields <- MCFields
    Empty = ""
    Links <- OneLink
    Edits <- BadEdit
    Bad <- BadData
    Ops = {"import", "patch", "delete", "activate", "rerender"}
    Concurrency = 2
    Flags = {}
    Flaky = TRUE
    Aborts = TRUE
    Blocked = {FALSE}
SPECIFICATION Spec
SYMMETRY Symmetry
INVARIANTS
    StoreExact
    DefaultExists
    OnlyChecked
