SPECIFICATION Spec
CONSTANTS
    Calls <- MCCalls
    Day = 2
    Start = 3
    Trend = 2
    PageSize = 1
    MaxLimit = 3
    MaxHour = 6
    MaxRows = 3
INVARIANTS
    TypeOK
    PagesMissNothing
    TrendComplete
CHECK_DEADLOCK FALSE
