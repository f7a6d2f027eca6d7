SPECIFICATION ClientLiveSpec
CONSTANTS
    p1 = p1
    p2 = p2
    Payload = {p1, p2}
    MaxReceived = 2
    MaxConn = 3
INVARIANTS
    NothingRunsAfterStop
    StopLosesOnlyTheQueue
PROPERTIES
    RefinesLink
    StopReturns
    StopReturnsOrHangs
\* Once stop has returned nothing is left to do.
CHECK_DEADLOCK FALSE
