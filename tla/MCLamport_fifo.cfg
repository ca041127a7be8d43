SPECIFICATION Spec
CONSTANTS
    nodes_count = 3
    Net <- SeveralHosts
    max_concurrent_proc = 3
    fixed_concurent_num = FALSE
    OutOfBounds <- QuietBehindNodes
    MaxTests = 2
    NsecPerSec = 2
    Uint32 = 50
    SyncroInstant = 3
    Instants <- OneSideOfASecond
    LongestPause = 2
    DistinctReadings = FALSE
INVARIANTS
    OwnRequestQueued
    OwnRequestAtHead
    RepliesAreExpected
    QueuesDrained
    NobodyForgotten
    EpochKnown
PROPERTIES
    MutexSpec
CHECK_DEADLOCK FALSE
