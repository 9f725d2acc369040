SPECIFICATION Spec
CONSTANTS
  MaxTask = 4
  kMaxLevel = 3
  Credit = 3
INVARIANTS
  TypeOK
  NoLostWakeup
  OnlyStartedTasksRun
PROPERTY
  ImplementsTaskManager
