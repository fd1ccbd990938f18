CONSTANTS
  p1 = p1
  p2 = p2
  Index <- MCIndex
  MaxGeneration = 2
  PoolId <- MCPool
  None = None
  Sizes = {1, 2, 3}
  Budget = 2
  FramesInFlight = 2
SPECIFICATION FairSpec
INVARIANTS
  FramesDrawTheirMeshes
  HeldOnce
PROPERTIES
  MeshesComeAndGo
