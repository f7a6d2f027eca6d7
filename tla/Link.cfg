SPECIFICATION LinkLiveSpec
CONSTANT MaxConn = 5
INVARIANTS
    StatusMatchesConnection
    OpenIsSubscribed
PROPERTIES
    KeepsTrying
    StopJoinsWithoutOrphans
\* The main thread is at rest once stop has joined, or waits for ever.
CHECK_DEADLOCK FALSE
