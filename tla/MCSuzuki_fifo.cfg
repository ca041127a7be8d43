SPECIFICATION Spec
CONSTANTS
    nodes_count = 3
    Net <- SeveralHosts
    max_concurrent_proc = 3
    fixed_concurent_num = FALSE
    OutOfBounds <- AnyBehindNodes
    MaxTests = 2
INVARIANTS
    MutualExclusion
    TokenUnique
    EventsMatchState
    TokenIsWanted
    ServedAreCounted
CHECK_DEADLOCK FALSE
