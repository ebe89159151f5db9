CONSTANTS
    Inputs <- TwoLists
    Runs <- PanelDeep
    Workers = {w1, w2}
    Ports = {p1, p2}
    Cap = 1
    MaxDeep = 2
    MaxPerCountry = 1
    MaxMs = 1
SPECIFICATION Spec
INVARIANTS
    FairPicks
