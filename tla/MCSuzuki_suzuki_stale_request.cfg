SPECIFICATION Spec
CONSTANTS
    nodes_count = 3
    Net <- SeveralHosts
    max_concurrent_proc = 3
    fixed_concurent_num = FALSE
    OutOfBounds <- QuietBehindNodes
    MaxTests = 2
INVARIANTS
    SupervisorGetsSupMessages
CHECK_DEADLOCK FALSE
