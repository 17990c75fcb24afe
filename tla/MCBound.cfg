\* The analysis stops.
CHECK_DEADLOCK FALSE
SPECIFICATION FairSpec
CONSTANTS
    Apps <- MCApps
    Slices <- MCSlices
    RepVec <- MCRepVec
INVARIANTS
    TilesServeOneFiring
    ReadyListsExact
    ThroughputIsScheduledCycle
PROPERTIES
    PeriodicPartComplete
    Terminates
