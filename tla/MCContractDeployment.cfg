SPECIFICATION FairSpec
CONSTANTS
    Address <- MCAddress
    Endpoints <- MCEndpoints
    Arguments <- MCArguments
    MaxFaults = 2
    MaxRuns = 2
INVARIANTS
    TypeOK
    ContractsFitTogether
PROPERTIES
    GoodRunsDeploy
CHECK_DEADLOCK FALSE
