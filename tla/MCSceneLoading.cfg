CONSTANTS
  ship = ship
  seat = seat
  hull = hull
  cloth = cloth
  tiles = tiles
  map = map
  Model = {ship, seat}
  Image = {hull, cloth}
  Baked = {map}
  Set = {tiles}
  Maps <- MCMaps
  Files <- MCFiles
  MaxJobs = 5
  Script <- MCScript
  Palette <- MCPalette
SPECIFICATION FairSpec
INVARIANTS
  DecodedInOrder
  SettledIsLoaded
  ModelsKept
PROPERTIES
  LoadingEnds
