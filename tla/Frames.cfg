CONSTANTS
  Contents <-SharedContents
  Layers <-SharedLayers
  Inputs <-SharedInputs
  IdentityOps = {}
  Timed = {"leaf"}
  Cells <- MCCells
  Tiles <- MCTiles
  CellsOf <- MCCellsOf
  Coarser <- MCCoarser
  Views <- MCViews
  NoTile = "-"
  Editable <- LeafEdits
  ConcurrentWriter = FALSE
  HonoursCancel = FALSE
  MaxEvents = 2
SPECIFICATION FairSpec
INVARIANTS IdleIsCurrent QueueSound ExactIsCurrent
PROPERTIES NoRegress Quiesces
