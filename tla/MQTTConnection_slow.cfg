SPECIFICATION Spec
CONSTANTS
    MaxConns = 2
    Entities = 1
INVARIANTS NeverStuck
CHECK_DEADLOCK FALSE
