\* One pause and the reconciler, without a fault.
SPECIFICATION Spec
CONSTANTS
  Keys <- MCKeysInterlock
  MaxTries = 2
  RepairLimit = 1
  FaultKinds = {}
  MaxFaults = 0
INVARIANTS PauseInterlock
CHECK_DEADLOCK FALSE
