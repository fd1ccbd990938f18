CONSTANTS
  Axis <- MCAxis
  Land <- MCLand
  Bare <- MCBare
SPECIFICATION MasksSpec
INVARIANTS
  MasksMatch
