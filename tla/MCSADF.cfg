\* The exploration ends with the exception of a deadlock.
CHECK_DEADLOCK FALSE
SPECIFICATION Spec
CONSTANTS
    Graphs <- MCGraphs
    Never <- MCNever
INVARIANTS
    ReservedByWriter
    WorksOnFront
    StepsToNextEnd
    PolicyHasNoEffect
