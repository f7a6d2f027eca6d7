SPECIFICATION MCSpec
CONSTANTS
    MaxHeader = 40
    MaxMessage = 127
    MaskKeys <- MCKeys
INVARIANTS
    NothingHeldBack
    HandshakeDecided
PROPERTY ImplementsFrameSession
\* All has been read, or the reading has stopped.
CHECK_DEADLOCK FALSE
