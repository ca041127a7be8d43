SPECIFICATION FairSpec
CONSTANTS
    nodes_count = 3
    Net <- OneHost
    max_concurrent_proc = 3
    fixed_concurent_num = FALSE
    OutOfBounds <- QuietBehindNodes
    MaxTests = 2
INVARIANTS
    TypeOK
    TokenKept
    NoFalseAlarm
    NoPeerFatal
    ResponsesFit
    WantFindsIdle
PROPERTIES
    Served
    TestsEnd
    MutexSpec
