SPECIFICATION Spec
CONSTANTS
    nodes_count = 2
    Net <- OneHost
    max_concurrent_proc = 2
    fixed_concurent_num = FALSE
    OutOfBounds <- QuietBehindNodes
    MaxTests = 3
    NsecPerSec = 2
    Uint32 = 5
    SyncroInstant = 1
    Instants <- EveryInstant
    LongestPause = 0
    DistinctReadings = FALSE
INVARIANTS
    MutualExclusion
CHECK_DEADLOCK FALSE
