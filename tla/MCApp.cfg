CONSTANTS
  None = None
  Scripts <- MCScripts
  Sizes = {1, 2}
  JitterCount = 2
  MaxFrames = 3
  MaxMoves = 3
  MaxFaults = 1

SPECIFICATION FairSpec

CHECK_DEADLOCK FALSE

INVARIANTS
  ChainFollowsTheWindow
  CapturesHold
  EventsAreHeeded
PROPERTIES
  StepsEndWhereTheySay
  ScenarioEnds
