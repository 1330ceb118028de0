\* Repairs, the idle scan, a resume, a delete and a purge of one project cross.
SPECIFICATION Spec
CONSTANTS
  Keys <- MCKeysCrossing
  MaxTries = 1
  RepairLimit = 1
  FaultKinds = {}
  MaxFaults = 0
INVARIANTS TypeOK UsableIsComplete DeletionWins PausedIsRestorable
CHECK_DEADLOCK FALSE
