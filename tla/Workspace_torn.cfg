SPECIFICATION Spec
CONSTANTS
  NumSlots = 2
  ChunkSlots = 2
  MaxVersion = 3
  MaxGen = 2
  MaxCrashes = 1
  CrashOn = {"torn"}
INVARIANT NeverCorrupt
CHECK_DEADLOCK FALSE
