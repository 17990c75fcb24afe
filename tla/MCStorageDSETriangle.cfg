\* The search stops: pc = "done".
CHECK_DEADLOCK FALSE
SPECIFICATION SearchSpec
CONSTANTS
    Graphs <- Triangle
    RepVec <- MCRepVec
    Sizes <- MCSizes
    StorageDependencies <- MCStorageDependencies
    Searches <- MCSearches
    MaxThroughput <- MCMaxThroughput
INVARIANTS
    NothingMissed
