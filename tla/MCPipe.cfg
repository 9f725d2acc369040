SPECIFICATION FairSpec
CONSTANTS
  Slot = 2
  Counts = {0, 1, 3}
  MaxBytes = 3
  MaxBusy = 1
  MaxZero = 2
INVARIANTS
  BytesInOrder
  WriteMeansRead
  EndMeansClosed
PROPERTY
  CallsReturn
CHECK_DEADLOCK FALSE
