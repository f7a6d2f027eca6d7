SPECIFICATION ConnectionSpec
CONSTANTS
    MainCloses = FALSE
    BadExtensions = FALSE
    MaxQueue <- MCMaxQueue
CHECK_DEADLOCK FALSE
PROPERTIES
    ImplementsLifecycle
    ClosedDrains
