SPECIFICATION RetrySpec
CONSTANTS
    Client = {c1}
    Endpoint = {e1, e2}
    Name = {n1}
    Digest = {d1}
    Input = {"json", "empty"}
    Json = {"json"}
    MaxFaults = 2
    MaxCommands = 14
    MaxRuns = 1
PROPERTIES
    RetrySucceeds
CHECK_DEADLOCK FALSE
