SPECIFICATION Spec
CONSTANTS
    None = None
    verifier = verifier
    requestor = requestor
    o1 = o1
    o2 = o2
    o3 = o3
    VerifierAddr = verifier
    Address <- MCAddress
    Denom <- MCDenom
    Amount <- MCAmount
    Requested = {None, 2}
    Response <- MCResponse
    InstantiateMsg <- MCInstantiateMsg
    U64 = 64
    StartTime = 0
    LastCreate = 0
    LastTime = 1
    MaxTasks = 1
    One = 100
    MaxAtomics = 230
    Operator <- MCOperator
    OperatorLists <- TwoTasksLists
    Result <- MCResult
    PriceOf <- MCPriceOf
    Settings <- EverybodySettings
INVARIANTS
    PublishedPriceMeetsThreshold
CHECK_DEADLOCK FALSE
