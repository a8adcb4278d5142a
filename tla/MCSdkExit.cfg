SPECIFICATION Spec
CONSTANTS
    e1 = e1
    e2 = e2
    bad = bad
    th1 = th1
    th2 = th2
    Events <- MCSoundEvents
    Unserializable = {}
    Threads <- MCOneThread
    Daemon = Daemon
    AtExit = AtExit
    NetFaults = FALSE
INVARIANT
    ExitReportsAll
CHECK_DEADLOCK FALSE
