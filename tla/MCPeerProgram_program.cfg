SPECIFICATION Spec
CONSTANTS
    MAX_TIMERS = 2
    Incoming <- AnyPacket
    MaxPackets = 4
    MaxEarly = 1
    PeerOptions <- PeerLines
    SupervisorOptions <- SupervisorLines
    Files <- AllFiles
INVARIANTS
    RecordsInPlace
    ElectionDefined
    SlotsMatchTimers
    SignalsCoverSocket
    EventsMatchPhase
PROPERTIES
    EventLoopSpec
CHECK_DEADLOCK FALSE
