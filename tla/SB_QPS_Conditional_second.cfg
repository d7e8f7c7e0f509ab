SPECIFICATION CondSpec
CONSTANTS
    Inputs = {i1, i2}
    Outputs = {0, 1}
    None = None
    MaxQueueLen = 2
    BatchSize = 2
    DispatchFirst = TRUE
    NumIterations = 1
PROPERTIES
    SecondIsSaved
