SPECIFICATION Spec
CONSTANTS
    MAX_TIMERS = 2
    nodes_count = 3
    max_concurrent_proc = 3
    fixed_concurent_num = TRUE
    election_interval = 5
    NsecPerSec = 3
    Pauses <- ShortAndLong
    MaxTests = 2
INVARIANTS
    PeriodicAlive
    DelaysDisjoint
PROPERTIES
    AverageExact
    SupervisorSpec
CHECK_DEADLOCK FALSE
