SPECIFICATION ConnectionSpec
CONSTANTS
    MainCloses = TRUE
    BadExtensions = TRUE
    MaxQueue <- MCMaxQueue
CHECK_DEADLOCK FALSE
INVARIANTS
    NoForgottenWrite
    OnlyClosesBehindClose
PROPERTIES
    AttemptEnds
    ClosingEnds
