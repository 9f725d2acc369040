SPECIFICATION Spec
CONSTANTS
  Name = {"a", "b", "long"}
  Stored <- MCStored
  Compared <- MCCompared
  LastCluster = 6
  ClusterBytes = 2
  ClusterEntries = 2
  Chunk = 2
  ReadCounts = {1}
  WriteCounts = {3}
  x = x
  y = y
  Fd <- MCFd
  MaxWrites = 2
  MaxFiles = 3
INVARIANT
  ListAtIndex
CHECK_DEADLOCK FALSE
