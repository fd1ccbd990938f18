CONSTANTS
  r = r
  a = a
  b = b
  Node <- MCNode
  Above <- MCAbove
  Surface <- MCNode
  Hollow = {b}
  Finest <- MCFinest
  Coarse <- MCCoarse
  Mesh = {1, 2, 3}
  None = 0
  Copy = {1, 2}
  PoolSize = 2
  Unhurried = FALSE
SPECIFICATION Spec
INVARIANTS
  HiddenNodesGo
