SPECIFICATION Spec
CONSTANTS
  a = a
  b = b
  Task <- MCTask
  Ms = {0, 10, 25, 41}
  Arg2 <- MCArg2
  Word = 4096
  IntMax = 7
  MaxTick = 5
  MaxTimers = 2
SYMMETRY Symmetry
INVARIANTS
  PreemptionKeepsPace
  NeverEarly
  NeverLate
  OnceAndInOrder
CHECK_DEADLOCK FALSE
