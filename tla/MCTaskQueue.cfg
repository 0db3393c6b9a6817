SPECIFICATION FairSpec
CONSTANTS
    None = None
    verifier = verifier
    requestor = requestor
    stranger = stranger
    Address <- MCAddress
    Denom <- MCDenom
    Amount <- MCAmount
    Requested <- MCRequested
    Response <- MCResponse
    InstantiateMsg <- MCInstantiateMsg
    U64 = 16
    StartTime = 3
    LastCreate = 4
    LastTime = 7
    MaxTasks = 2
INVARIANTS
    TypeOK
    ResultExactlyWhenCompleted
    DeadlineSeparates
    LifetimeWithinLimits
    OpenEverywhereTheSame
PROPERTIES
    ClosedTasksAreFinal
    ImplementsLifecycle
    EveryTaskCloses
CHECK_DEADLOCK FALSE
