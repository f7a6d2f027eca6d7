SPECIFICATION Spec
CONSTANTS
    s1 = s1
    s2 = s2
    ParamSets = {s1, s2}
    MaxDealt = 3
    Buffers <- MCBuffers
    Junks <- MCJunks
    IntHalf = 16
    LongHalf = 128
    Mantissa = 64
    DoubleMax = 3000
    MaxExp = 12
    MaxDigits = 3
    Keys <- MCKeys
INVARIANTS
    KeyFramesMatchStream
    EveryFramePushed
    AbortsForLackOnly
    ScanFindsSets
    ReadsJson
    ParsersAgree
    StringsExact
    NumbersExact
    Base64Exact
    PayloadArrives
    ConfigLoads
PROPERTY ScanTerminates
\* The functions return, and the bound on the messages ends a session.
CHECK_DEADLOCK FALSE
