SPECIFICATION AvSpec
CONSTANTS
    Inputs = {i1, i2, i3}
    Outputs = {o1, o2}
    None = None
    MaxQueueLen = 2
    BatchSize = 3
    DispatchFirst = TRUE
    Classes = {"AvailabilityAware"}
SYMMETRY PortSymmetry
INVARIANTS
    NeverAborts
CHECK_DEADLOCK FALSE
