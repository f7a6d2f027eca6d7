SPECIFICATION ConnectionSpec
CONSTANTS
    MainCloses = FALSE
    BadExtensions = TRUE
    MaxQueue <- MCMaxQueue
CHECK_DEADLOCK FALSE
INVARIANT
    OpenOrFail
