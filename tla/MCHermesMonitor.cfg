SPECIFICATION FairSpec
CONSTANTS
    e1 = e1
    e2 = e2
    bad = bad
    th1 = th1
    t1 = t1
    s1 = s1
    Events <- MCEvents
    Unserializable <- MCBad
    Threads <- MCThreads
    Daemon = Daemon
    AtExit = AtExit
    NetFaults = TRUE
    Traces <- MCTraces
    NoTrace = NoTrace
    Sessions <- MCSessions
    NoSession = NoSession
    BadSession = BadSession
    LockFaults = TRUE
    MaxEvents = 3
    MaxRequests = 2
    Content <- MCContent
INVARIANTS
    TypeOK
    HeardOfIsSettled
PROPERTIES
    StoredOnceAtMost
    EventsSettle
CHECK_DEADLOCK FALSE
