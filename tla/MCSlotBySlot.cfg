SPECIFICATION MCSpec
CONSTANTS
    Inputs = {0, 1}
    Outputs = {0, 1, 2}
    None = None
    MaxQueueLen = 2
    Iterations = 3
    Policies = {"longest_first", "shortest_first", "smallest_first", "earliest_first", "random"}
INVARIANTS
    AccountAgrees
    EdgesIndexed
    SamplersInProportion
    MaximalMatching
    PolicyObeyed
PROPERTIES
    SwitchSpec
    Drains
