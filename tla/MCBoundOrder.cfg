\* The analysis stops.
CHECK_DEADLOCK FALSE
SPECIFICATION Spec
CONSTANTS
    Apps <- MCApps
    Slices <- MCSlices
    RepVec <- MCRepVec
INVARIANTS
    CompleteCycles
