SPECIFICATION HandoffLiveSpec
CONSTANTS
    p1 = p1
    p2 = p2
    Payload = {p1, p2}
    MaxReceived = 4
INVARIANTS
    NothingLost
    NeverSleepsOnWork
PROPERTIES
    EveryMessageDealt
    StopEndsAwakeWorker
    ImplementsFifo
\* Once stop has returned nothing is left to do.
CHECK_DEADLOCK FALSE
