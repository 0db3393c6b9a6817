SPECIFICATION Spec
CONSTANTS
    Run = {r1, r2}
    Price = {1, 4}
    Window = 1
    Limit = 2
    U64 = 16
    StartTime = 3
    LastTime = 5
    MaxStepBack = 2
    MaxRecords = 3
INVARIANTS
    TypeOK
    FileIsNewestRecorded
    ReportsHourlyAverage
    
    OwnPriceCounts
SYMMETRY Symmetry
CHECK_DEADLOCK FALSE
