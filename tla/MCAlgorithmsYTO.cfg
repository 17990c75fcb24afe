\* The result of Young, Tarjan and Orlin on two graphs.
CHECK_DEADLOCK FALSE
SPECIFICATION MCSpec
CONSTANTS
    N = 1
    MaxLength = 1
    Graphs <- TestedGraphs
    INT_MAX = 1000000
    MAX_NIterations = 1000
    HomogeneousGraphs <- TwoTokens
    RepVec <- computeRepetitionVector
INVARIANT ReturnsMaximum
