SPECIFICATION Spec
CONSTANTS
  MaxTask = 4
  kMaxLevel = 2
INVARIANTS
  TypeOK
  RunQueueIntegrity
  CurrentExists
  NoMissedPreemption
  WaitersAlive
PROPERTY
  SwitchRunsHighest
