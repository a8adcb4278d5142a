SPECIFICATION FairSpec
CONSTANTS
    e1 = e1
    e2 = e2
    bad = bad
    th1 = th1
    th2 = th2
    Events <- MCEvents
    Unserializable <- MCBad
    Threads <- MCThreads
    Daemon = Daemon
    AtExit = AtExit
    NetFaults = TRUE
INVARIANTS
    TypeOK
    OnePlace
PROPERTIES
    ChannelSpec
    EventsTakenUp
    ShutdownDrains
CHECK_DEADLOCK FALSE
