\* One fault of any kind anywhere between the creation and the purge.
SPECIFICATION FairSpec
CONSTANTS
  Keys <- MCKeysEnds
  MaxTries = 2
  RepairLimit = 0
  FaultKinds = {"throw", "crash", "dies"}
  MaxFaults = 1
PROPERTIES ImplementsContract ZombiesStopped PurgeFinishes
CHECK_DEADLOCK FALSE
