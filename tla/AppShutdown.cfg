SPECIFICATION MCSpec
CONSTANTS
    MaxStreams = 3
    RoundMod = 3
    Schemas = {"rtsp", "rtmp"}
    MaxEvents = 5
INVARIANT CleanShutdown
\* The process ends.
CHECK_DEADLOCK FALSE
