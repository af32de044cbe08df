SPECIFICATION Spec
CONSTANTS
    Rooms <- TwoRooms
    Bulbs = {b1, b2}
    RoomReports <- TwoReports
    BulbReports <- FourStates
    DragValues = {21}
    MaxQueue = 1
INVARIANTS ChoiceStands
CHECK_DEADLOCK FALSE
