SPECIFICATION TimelySpec
CONSTANTS
    None = None
    verifier = verifier
    requestor = requestor
    o1 = o1
    o2 = o2
    o3 = o3
    VerifierAddr = verifier
    Address <- MCAddress
    Denom <- MCDenom
    Amount <- MCAmount
    Requested = {None, 2}
    Response <- HonestResponse
    InstantiateMsg <- MCInstantiateMsg
    U64 = 64
    StartTime = 0
    LastCreate = 1
    LastTime = 3
    MaxTasks = 1
    One = 100
    MaxAtomics = 300
    Operator <- MCOperator
    OperatorLists <- TwoTasksLists
    Result <- HonestResult
    PriceOf <- HonestPriceOf
    Settings <- HonestSettings
PROPERTIES
    TimelyTasksComplete
CHECK_DEADLOCK FALSE
