SPECIFICATION AllocationSpec
CONSTANTS
  Actors <- MCActors
  Channels <- MCChannels
  Src <- MCSrc
  Dst <- MCDst
  Tiles <- MCTiles
  None = None
  Platforms <- MCPlatforms
  Demands <- MCDemands
  NewSizes = {1, 3}
  Finest = 8
INVARIANTS
    ClaimsOfBound
    WholeOrNothing
    MoveFindsTile
    AnswerIsRight
PROPERTIES
    ImplementsBinding
    Returns
CHECK_DEADLOCK FALSE
