SPECIFICATION Spec
CONSTANTS
    nodes_count = 3
    Net <- Overtaking
    max_concurrent_proc = 2
    fixed_concurent_num = FALSE
    OutOfBounds <- QuietBehindNodes
    MaxTests = 2
    NsecPerSec = 2
    Uint32 = 50
    SyncroInstant = 0
    Instants <- EveryInstant
    LongestPause = 0
    DistinctReadings = FALSE
INVARIANTS
    RepliesAreExpected
    DeferredAreWaiting
    OnlyTiesBlock
PROPERTIES
    MutexSpec
CHECK_DEADLOCK FALSE
