SPECIFICATION Spec
CONSTANTS
  Layers <- TwoLayers
  Tiles = 2
  Slots = 5
  Pixels <- MCPixels
  Blank = "blank"
  Hash <- MCHash
  Decoded <- MCDecoded
  Home <- OneDirectory
  None = none
  SweepsAlone = TRUE
  MaxPaints = 2
  MaxSaves = 3
INVARIANTS SavedTilesRight
CHECK_DEADLOCK FALSE
