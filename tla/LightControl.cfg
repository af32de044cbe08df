SPECIFICATION Spec
CONSTANTS
    Entities <- TwoBulbs
    Dimmable = {"lamp"}
    Levels = {0, 100}
    Requests = {q1, q2}
    MaxDisturbances = 1
INVARIANTS TypeOK EveryBulbKnown TurnedOnIsOn
PROPERTIES SliderTurnsNothingOn
CHECK_DEADLOCK FALSE
