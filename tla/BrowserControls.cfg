SPECIFICATION FairSpec
CONSTANTS
    Rooms <- TwoRooms
    Bulbs = {b1, b2}
    RoomReports <- TwoReports
    BulbReports <- FourStates
    DragValues = {21}
    MaxQueue = 1
INVARIANTS TypeOK AgreesWithAPI LightsAsDocumented
PROPERTIES Corrected
CHECK_DEADLOCK FALSE
