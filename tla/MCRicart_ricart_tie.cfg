SPECIFICATION FairSpec
CONSTANTS
    nodes_count = 2
    Net <- OneHost
    max_concurrent_proc = 2
    fixed_concurent_num = FALSE
    OutOfBounds <- QuietBehindNodes
    MaxTests = 1
    NsecPerSec = 2
    Uint32 = 50
    SyncroInstant = 0
    Instants <- EveryInstant
    LongestPause = 0
    DistinctReadings = FALSE
PROPERTIES
    Served
CHECK_DEADLOCK FALSE
