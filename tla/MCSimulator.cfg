SPECIFICATION Spec
CONSTANTS
    Inputs = {0, 1}
    Outputs = {o1, o2}
    None = None
    LeastEffort = 3
    MostEffort = 4
    DelayThreshold = 1
    MaxQueueLen = 2
INVARIANTS
    StallsCounted
    ServedInOrder
    DelaysMatchQueueLengths
PROPERTIES
    LengthsSpec
