SPECIFICATION Spec
CONSTANTS
    nodes_count = 3
    Net <- SeveralHosts
    max_concurrent_proc = 3
    fixed_concurent_num = FALSE
    OutOfBounds <- QuietBehindNodes
    MaxTests = 2
    NsecPerSec = 2
    Uint32 = 50
    SyncroInstant = 3
    Instants <- EveryInstant
    LongestPause = 0
    DistinctReadings = FALSE
INVARIANTS
    OneAsksTheOther
    FlagsAgree
    InsideIsAsked
    NobodyForgotten
PROPERTIES
    MutexSpec
CHECK_DEADLOCK FALSE
