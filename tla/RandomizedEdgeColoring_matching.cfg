SPECIFICATION Spec
CONSTANTS
    Inputs = {0, 1}
    Outputs = {0, 1}
    None = None
    MaxQueueLen = 2
    BatchSize = 2
    MaxEdges = 3
INVARIANTS
    HandsOutMatchings
CHECK_DEADLOCK FALSE
