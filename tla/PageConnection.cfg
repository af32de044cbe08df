SPECIFICATION FairSpec
INVARIANTS TypeOK NeverStranded
PROPERTIES BackToLife GapIsFlagged
CHECK_DEADLOCK FALSE
