SPECIFICATION Spec
CONSTANTS
  app1 = app1
  app2 = app2
  Task <- MCTask
  FrameCount = 12
  Entries = 4
  ElfPages = 1
  StackPages = 2
  MaxDemand = 1
  Touched <- MCTouched
SYMMETRY Symmetry
INVARIANTS
  FramesAccounted
  Isolation
  NoForeignData
  WritableIsPrivate
CHECK_DEADLOCK FALSE
