SPECIFICATION MCSpec
CONSTANTS
    NONE = NONE
    Callers = {"control", "scan"}
    Starters = {"control", "scan"}
    Retrying = {"control"}
    Ports = {"port1", "port2"}
    FAULTS = 2
    Producers = {"control"}
    Loggers = {"main"}
    Guarded = {}
    QUEUE_SIZE = 1
    MAX_EVENTS = 1
    ROOM = 1
    EVENTS = 2
PROPERTIES
    RecoversOrKilled
    OnlineIsConnected
    NoPortLost
    OneReader
    QueueDrains
INVARIANTS
    LossIsNoted
    LimitKept
CHECK_DEADLOCK FALSE
