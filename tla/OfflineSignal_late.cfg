SPECIFICATION SystemSpec
CONSTANTS
    MaxConns = 2
    Entities = 0
    Streams = {s1}
    Cap = 1
    MaxEvents = 1
INVARIANTS OfflineMeansNoStreams
CHECK_DEADLOCK FALSE
