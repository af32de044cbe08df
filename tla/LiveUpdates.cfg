SPECIFICATION LiveSpec
CONSTANTS
    Streams = {s1}
    Cap = 3
    MaxEvents = 3
    MaxMessages = 3
    ModeTopic = "mode"
    ItemTopics <- RoomAndLights
INVARIANTS LiveTypeOK Converged ModeSeeded
CHECK_DEADLOCK FALSE
