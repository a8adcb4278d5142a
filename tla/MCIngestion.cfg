SPECIFICATION Spec
CONSTANTS
    t1 = t1
    s1 = s1
    Traces <- MCTraces
    NoTrace = NoTrace
    Sessions <- MCSessions
    NoSession = NoSession
    BadSession = BadSession
    LockFaults = TRUE
    MaxEvents = 3
    MaxRequests = 2
INVARIANTS
    TypeOK
    AckedEventsStored
    AllOrNothing
    SessionCountsUpserts
CHECK_DEADLOCK FALSE
