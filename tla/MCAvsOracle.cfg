SPECIFICATION Spec
CONSTANTS
    None = None
    verifier = verifier
    requestor = requestor
    o1 = o1
    o2 = o2
    o3 = o3
    VerifierAddr = verifier
    Address <- MCAddress
    Denom <- MCDenom
    Amount <- MCAmount
    Requested = {None, 2}
    Response <- MCResponse
    InstantiateMsg <- MCInstantiateMsg
    U64 = 64
    StartTime = 0
    LastCreate = 1
    LastTime = 3
    MaxTasks = 2
    One = 100
    MaxAtomics = 230
    Operator <- MCOperator
    OperatorLists <- MCLists
    Result <- MCResult
    PriceOf <- MCPriceOf
    Settings <- MCSettings
CONSTRAINT
    InScope
INVARIANTS
    TypeOK
    VerifierAgreesWithQueue
    TalliesMatchVotes
    SlashedExactlyOutliers
    PublishedPriceIsMedian
    QuorumBeforeCompletion
    StalledOnlyByOutlier
    QuorumWithinReach
PROPERTIES
    VotesAreFinal
    KeepsPromise
CHECK_DEADLOCK FALSE
