SPECIFICATION MCSpec
CONSTANTS
    MaxStreams = 3
    RoundMod = 3
    Schemas = {"rtsp", "rtmp"}
    MaxEvents = 5
INVARIANTS
    OnePushPerWorker
    FramesReachMedium
PROPERTIES
    EveryClientServed
    InterruptEndsProcess
    SourceGetsPushed
\* The process ends.
CHECK_DEADLOCK FALSE
