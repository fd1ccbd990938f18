CONSTANTS
  Length = 8
  Speed = 1
  Margin = 2
  Box = {b}
  Walker = {w}
  Position <- MCPosition
  Chunk <- MCPosition
  Moves <- MCMoves
  Inside = {}
  Surface = {1,2,3,5,6,7,8}
  Touch <- MCTouch
  Near <- MCNear
  Around <- MCAround
  MaxSteps = 2
  KeepSteps = 2
  Settled = TRUE
SPECIFICATION FairSpec
INVARIANTS
  GroundIsThere
  ChunksExact
  SleepersKeepGround
PROPERTIES
  ImplementsSolidGround
  HeldAreAdded
