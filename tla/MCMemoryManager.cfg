SPECIFICATION Spec
CONSTANTS
  FrameCount = 10
  MemoryMaps <- MCMemoryMaps
  kHeapFrames = 2
  MaxRun = 3
INVARIANTS
  BlocksDisjoint
  OnlyAvailable
  BitsAreBlocks
  ScanFindsFirstFit
