SPECIFICATION FairSpec
CONSTANTS
    MaxConns = 2
    Entities = 1
INVARIANTS TypeOK OneCurrentWorker StatsConsistent QuietMeansServing
PROPERTIES StaleFlagHealed Recovery ShutdownQuiesces
CHECK_DEADLOCK FALSE
