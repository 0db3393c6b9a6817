SPECIFICATION Spec
CONSTANTS
    None = None
    verifier = verifier
    alice = alice
    bob = bob
    answer = answer
    Address <- MCAddress
    Denom <- MCDenom
    Amount <- MCAmount
    Requested = {None, 2, 3}
    Response = {answer}
    InstantiateMsg <- MCInstantiateMsg
    U64 = 64
    StartTime = 0
    LastCreate = 0
    LastTime = 1
    MaxTasks = 3
    Client = {alice, bob}
    Body = {"{}", ""}
    Json = {"{}"}
    MaxFaults = 1
CONSTRAINT
    InScope
INVARIANTS
    ReportsOwnTasks
    QueueTakesWhatClientSends
CHECK_DEADLOCK FALSE
