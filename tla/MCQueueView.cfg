SPECIFICATION ViewSpec
CONSTANTS
    None = None
    verifier = verifier
    requestor = requestor
    answer = answer
    Address <- MCAddress
    Denom <- MCDenom
    Amount <- MCAmount
    Requested = {None, 3}
    Response = {answer}
    InstantiateMsg <- MCInstantiateMsg
    U64 = 64
    StartTime = 0
    LastCreate = 2
    LastTime = 4
    MaxTasks = 3
    StartAfter = {None, 3}
    ViewLimit = {None, 1}
    PageLimit = {1, 2}
INVARIANTS
    NoTaskFallsBetween
    ShownTwiceWhenCompletedMeanwhile
    PagerSeesEveryOpenTask
CHECK_DEADLOCK FALSE
