\* The scheduler stops: solved, failed, or left by an exception.
CHECK_DEADLOCK FALSE
SPECIFICATION Spec
CONSTANTS
    SlotTableSize = 4
    Period = 8
    FlitSize = 2
    PacketHeaderSize = 1
    ReconfigurationTimeNI = 1
    Width = 6
    MaxDetour = 1
    MaxNrRipups = 3
    Links <- MCLinks
    Problems <- MCProblems
INVARIANTS
    TablesMatchEntities
    InTimeAndOrder
PROPERTIES
    LeavesLess
