\* One computation per graph.
CHECK_DEADLOCK FALSE
SPECIFICATION MCSpec
CONSTANTS
    N = 4
    MaxLength = 9
    Graphs <- TestedGraphs
    INT_MAX = 1000000
    MAX_NIterations = 1000
    HomogeneousGraphs <- Homogeneous
    RepVec <- computeRepetitionVector
INVARIANTS
    SmallestOrZero
    MarksEveryKnot
    MinimizeKeepsSequence
    FreeIffNoTokenFreeCycle
    CycleMeansAgree
    ReturnsCycleMean
