SPECIFICATION Spec
CONSTANTS
    nodes_count = 5
    Net <- SeveralHosts
    max_concurrent_proc = 5
    fixed_concurent_num = TRUE
    OutOfBounds <- QuietBehindNodes
    MaxTests = 1
    NsecPerSec = 100
    Uint32 = 500
    SyncroInstant = 0
    Instants <- EveryInstant
    LongestPause = 0
    DistinctReadings = TRUE
ACTION_CONSTRAINT
    Scheduled
INVARIANTS
    NobodyForgotten
CHECK_DEADLOCK FALSE
