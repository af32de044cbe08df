SPECIFICATION Spec
CONSTANTS
    Rooms <- TwoRooms
    Requests = {q1, q2}
    Scenes <- OneScene
    Temps = {"19", "22"}
SYMMETRY Symmetry
INVARIANTS ModeChangeTurnsOff
CHECK_DEADLOCK FALSE
