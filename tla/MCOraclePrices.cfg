SPECIFICATION Spec
CONSTANTS
    One = 100
    MaxAtomics = 24
    Operator = {o1, o2, o3, o4}
    Price = {0, 2, 3, 10, 12, 24}
    Power = {1, 3}
    Spread = {1, 10, 20, 50, 100}
    Threshold = {1, 25, 33, 50, 100}
SYMMETRY Symmetry
INVARIANTS
    MedianOfSortedList
    MajorityHoldsTheMedian
    ValidNeverSlashable
    ThresholdIsExact
    HalfRangeNeverOverflows
CHECK_DEADLOCK FALSE
