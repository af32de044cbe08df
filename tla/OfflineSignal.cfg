SPECIFICATION SystemFairSpec
CONSTANTS
    MaxConns = 2
    Entities = 0
    Streams = {s1}
    Cap = 1
    MaxEvents = 1
INVARIANTS SystemTypeOK OnlyLateStreamsSurvive
PROPERTIES LossEndsStreams
CHECK_DEADLOCK FALSE
