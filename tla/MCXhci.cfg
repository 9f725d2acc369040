SPECIFICATION Spec
CONSTANTS
  MaxPorts = 2
  MaxSlots = 2
  CmdSize = 3
  EvtSize = 3
  Kinds <- MCKinds
  Keys = {1}
  MaxFaults = 1
INVARIANTS
  OneAtDefaultAddress
  RingsAreQueues
  OneReportAtATime
  NoDeviceLeftBehind
CHECK_DEADLOCK FALSE
