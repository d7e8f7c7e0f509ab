SPECIFICATION BatchSpec
CONSTANTS
    Inputs = {i1, i2}
    Outputs = {o1, o2}
    None = None
    MaxQueueLen = 2
    BatchSize = 2
    DispatchFirst = TRUE
SYMMETRY PortSymmetry
INVARIANTS
    BatchTypeOK
    QueuesAccountedFor
    SlotsAreMatchings
    GrantsHavePackets
PROPERTIES
    NoPlacementLost
