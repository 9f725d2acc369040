SPECIFICATION Spec
CONSTANTS
  Name = {"a", "b", "long"}
  Stored <- MCStored
  Compared <- MCCompared
  LastCluster = 6
  ClusterBytes = 2
  ClusterEntries = 2
  Chunk = 2
  ReadCounts = {9}
  WriteCounts = {1, 3}
  x = x
  y = y
  Fd <- MCFd
  MaxWrites = 3
  MaxFiles = 3
SYMMETRY Symmetry
INVARIANTS
  VolumeConsistent
  ContentsKept
  ImageIsFile
PROPERTY
  FilesStay
CHECK_DEADLOCK FALSE
