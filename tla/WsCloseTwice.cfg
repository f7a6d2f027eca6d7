SPECIFICATION ConnectionSpec
CONSTANTS
    MainCloses = TRUE
    BadExtensions = FALSE
    MaxQueue <- MCMaxQueue
CHECK_DEADLOCK FALSE
INVARIANT
    ClosedOnce
