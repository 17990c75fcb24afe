\* The analysis may stop: phase "done".
CHECK_DEADLOCK FALSE
SPECIFICATION FairSpec
CONSTANTS
    Graphs <- MCGraphs
    RepVec <- MCRepVec
    Sizes <- MCSizes
    StorageDependencies <- MCStorageDependencies
INVARIANTS
    StorageConserved
    DependenciesComplete
PROPERTIES
    ImplementsSelfTimed
    Terminates
