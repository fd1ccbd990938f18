CONSTANTS
  hull = hull
  still = still
  deck = deck
  lamp = lamp
  stray = stray
  gone = gone
  person = person
  Walker = person
  box1 = box1
  box2 = box2
  null = null
  Entity <- MCEntity
  Null = null
  MaxDepth = 3
  Orders <- MCOrders
  Ships <- MCShips
  Boxes <- MCBoxes
  Hulled = {hull}
  Volumes <- MCVolumes
  Scenery <- MCScenery
  Places <- MCPlaces
  Gravity <- MCGravity
  BoxRadius = 1
  WalkerRadius = 1
  WalkerMiddle = 1
  Hysteresis = 1
  ShipMaxBodies = 1
  MaxSteps = 4
SPECIFICATION Spec
INVARIANT EachInOneSpace
PROPERTIES
  CrossingKeepsMotion
  DrawnWhereItIs
  NoChatter
