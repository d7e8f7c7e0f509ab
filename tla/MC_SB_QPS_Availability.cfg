SPECIFICATION AvSpec
CONSTANTS
    Inputs = {i1, i2}
    Outputs = {o1, o2}
    None = None
    MaxQueueLen = 2
    BatchSize = 3
    DispatchFirst = TRUE
    Classes = {"AvailabilityAware", "Adaptive", "MI", "ThreeThird", "MA", "MA_MI"}
SYMMETRY PortSymmetry
INVARIANTS
    AvailabilityAgrees
    BitsCover
    NeverCountedTwice
    GrantsHavePackets
PROPERTIES
    ImplementsBatch
    NoPlacementLost
CHECK_DEADLOCK FALSE
