CONSTANTS
  Optional <- All
  FramesInFlight = 2
  MaxBuilds = 2

SPECIFICATION LifeSpec

CHECK_DEADLOCK FALSE

INVARIANTS
  LifetimesNest
  AllIsUnmade
  UsersKeepTheirs
