SPECIFICATION MCSpec
CONSTANTS
    Inputs = {0, 1}
    Outputs = {0, 1}
    None = None
    MaxQueueLen = 3
    Iterations = 2
INVARIANTS
    StatusAgrees
    PairPerIteration
PROPERTIES
    SwitchSpec
    NoStarvation
    Desynchronises
