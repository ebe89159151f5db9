CONSTANTS
    Inputs <- TwoLists
    Runs <- CliRun
    Workers = {}
    Ports = {p1, p2}
    Cap = 1
    MaxDeep = 1
    MaxPerCountry = 0
    MaxMs = 1
SPECIFICATION Spec
