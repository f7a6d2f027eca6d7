SPECIFICATION MCSpec
CONSTANTS
    MaxHeader = 40
    MaxMessage = 127
    MaskKeys <- MCKeys
INVARIANT TextEndsOnCodePoint
\* All has been read, or the reading has stopped.
CHECK_DEADLOCK FALSE
