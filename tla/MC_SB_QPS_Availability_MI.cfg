SPECIFICATION AvSpec
CONSTANTS
    Inputs = {i1, i2}
    Outputs = {o1, o2}
    None = None
    MaxQueueLen = 2
    BatchSize = 3
    DispatchFirst = TRUE
    Classes = {"MI"}
SYMMETRY PortSymmetry
INVARIANTS
    SlotsAreMatchings
CHECK_DEADLOCK FALSE
