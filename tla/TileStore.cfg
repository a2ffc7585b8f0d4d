SPECIFICATION Spec
CONSTANTS
  Layers <- OneLayer
  Tiles = 2
  Slots = 5
  Pixels <- MCPixels
  Blank = "blank"
  Hash <- MCHash
  Decoded <- MCDecoded
  Home <- TwoDirectories
  None = none
  SweepsAlone = TRUE
  MaxPaints = 3
  MaxSaves = 2
INVARIANTS SavedTilesRight SavedTilesPresent MemoSound
CHECK_DEADLOCK FALSE
