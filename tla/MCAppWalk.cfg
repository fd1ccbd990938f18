CONSTANTS
  None = None
  Scripts <- MCScripts
  Sizes = {1, 2}
  JitterCount = 2
  MaxFrames = 3
  MaxMoves = 2
  MaxFaults = 1

SPECIFICATION Spec

CHECK_DEADLOCK FALSE

PROPERTIES
  WalkGoesAsFar
