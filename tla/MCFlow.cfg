\* The flow stops: completed, failed or with an exception.
CHECK_DEADLOCK FALSE
SPECIFICATION FairSpec
CONSTANTS
    Constraint = 2
    Points <- MCPoints
INVARIANTS
    InStep
    NoneSkipped
PROPERTIES
    Terminates
