\* The search stops: pc = "done".
CHECK_DEADLOCK FALSE
SPECIFICATION FairSearchSpec
CONSTANTS
    Graphs <- MCGraphs
    RepVec <- MCRepVec
    Sizes <- MCSizes
    StorageDependencies <- MCStorageDependencies
    Searches <- MCSearches
    MaxThroughput <- MCMaxThroughput
INVARIANTS
    NothingMissed
    OnlyTradeOffs
    PointsInOrder
PROPERTIES
    Terminates
