SPECIFICATION Spec
CONSTANTS
    Rooms <- TwoRooms
    Requests = {q1, q2}
    Scenes <- OneScene
    Temps = {"19", "22"}
SYMMETRY Symmetry
INVARIANTS TypeOK CacheCoherent PowerMatchesMode ZoneUniform AnswerIsTruthful RestWasSent
CHECK_DEADLOCK FALSE
