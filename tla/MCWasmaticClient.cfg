SPECIFICATION Spec
CONSTANTS
    Client = {c1, c2}
    Endpoint = {e1, e2}
    Name = {n1}
    Digest = {d1, d2}
    Input = {"json", "empty"}
    Json = {"json"}
    MaxFaults = 1
    MaxCommands = 3
    MaxRuns = 1
INVARIANTS
    EndpointsDoAsTold
    WinnerRunsEverywhere
SYMMETRY Symmetry
CHECK_DEADLOCK FALSE
