SPECIFICATION MCSpec
CONSTANTS
    Inputs = {0, 1}
    Outputs = {0, 1}
    None = None
    MaxQueueLen = 2
    BatchSize = 2
    MaxEdges = 3
INVARIANTS
    WaitingAreColored
    AbortsOnlyIfCrowded
PROPERTIES
    DrainsIfOneOutput
CHECK_DEADLOCK FALSE
