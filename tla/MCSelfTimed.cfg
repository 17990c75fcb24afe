\* The analysis may stop: at "returned".
CHECK_DEADLOCK FALSE
SPECIFICATION AnalyzeSpec
CONSTANTS
    TDTIME_MAX = 1000
    Graphs <- MCGraphs
    RepVec <- computeRepetitionVector
INVARIANTS
    ThroughputIsPeriod
    ThroughputIsCriticalCycle
PROPERTIES
    ImplementsTimedDataflow
    Terminates
