CONSTANTS
  NoAir = NoAir
  dry = dry
  hazy = hazy
  Air <- MCAir
  Level <- MCLevel
  UiTextures <- MCUiTextures
  Scenes <- MCScenes
  MaxHandles = 3
  Slots = 2
SPECIFICATION Spec
INVARIANTS
  Synchronised
  ReadsFresh
  HandlesHold
