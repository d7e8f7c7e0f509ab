SPECIFICATION MCSpec
CONSTANTS
    Inputs = {i1, i2}
    Outputs = {0, 1}
    None = None
    MaxQueueLen = 2
    BatchSize = 3
    DispatchFirst = TRUE
    NumIterations = 2
INVARIANTS
    BitmapsAgree
    ApprovedAfterMatch
PROPERTIES
    BatchSpec
    LargestGetsCurrentSlot
    Drains
