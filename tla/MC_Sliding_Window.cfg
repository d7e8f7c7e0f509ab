SPECIFICATION MCSpec
CONSTANTS
    Inputs = {0, 1}
    Outputs = {0, 1}
    None = None
    MaxQueueLen = 2
    BatchSize = 3
    DispatchFirst = FALSE
    MaxAccepts = 2
INVARIANTS
    WindowAgrees
    QueueOfEntriesAgrees
PROPERTIES
    BatchSpecOfMode
    RoomIsUsedInMode
    Drains
