SPECIFICATION Spec
CONSTANTS
    s1 = s1
    s2 = s2
    Senders <- MCSenders
    Arrivals <- MCArrivals
    RouteReads = {TRUE, FALSE}
    pollBatch = 3
    MaxRows = 3
    MaxFaults = 1
INVARIANTS
    TypeOK
    NothingSkipped
    RepeatedOnlyIfSuspect
CHECK_DEADLOCK FALSE
