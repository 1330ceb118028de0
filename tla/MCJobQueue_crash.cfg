\* One job, two runners, crashes, Redis losses, database errors and one retry.
SPECIFICATION Spec
CONSTANTS
  Jobs = {1}
  Unregistered = {}
  r1 = r1
  r2 = r2
  Runners = {r1, r2}
  NumSteps = 2
  Substrate = {1}
  MaxAttempts = 1
  BullAttempts = 2
  MaxStalls = 1
  BatchSize = 1
  MaxRetries = 1
  FaultKinds = {"crash", "redis", "db"}
  MaxFaults = 1
SYMMETRY RunnerSymmetry
INVARIANTS OneExecutor CheckpointHonest FailedHasDeadBuild
PROPERTIES ImplementsContract
CHECK_DEADLOCK FALSE
