SPECIFICATION Spec
CONSTANTS
  NumSlots = 3
  ChunkSlots = 2
  MaxVersion = 2
  MaxGen = 2
  MaxCrashes = 1
  CrashOn = {}
INVARIANTS KillRecovers PowerCutRecovers CleanSceneIsOnDisk
PROPERTY KeepsDocument
CHECK_DEADLOCK FALSE
