SPECIFICATION FairSpec
CONSTANTS
    Streams = {s1, s2}
    Cap = 2
    MaxEvents = 4
INVARIANTS TypeOK NoDoubleClose NoSendOnClosed EveryChannelReleased InOrder NothingMissed
PROPERTIES ImplementsFeed ClosedStreamEnds
CHECK_DEADLOCK FALSE
