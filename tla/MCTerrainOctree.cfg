CONSTANTS
  r = r
  a = a
  b = b
  c = c
  Node <- MCNode
  Above <- MCAbove
  Surface <- MCNode
  Hollow = {c}
  Finest <- MCFinest
  Coarse <- MCCoarse
  Mesh = {1, 2, 3}
  None = 0
  Copy = {1}
  PoolSize = 2
  Unhurried = TRUE
SPECIFICATION FairSpec
INVARIANTS
  NoOverlap
  SceneIsExact
  MeshesExact
  JobsExact
  CoarseMapped
  SettledIsExact
PROPERTIES
  NoHoles
  ComesToIdle
