\* One job, two runners: crashes and stalls, and every job is answered.
SPECIFICATION FairSpec
CONSTANTS
  Jobs = {1}
  Unregistered = {}
  r1 = r1
  r2 = r2
  Runners = {r1, r2}
  NumSteps = 1
  Substrate = {}
  MaxAttempts = 2
  BullAttempts = 1
  MaxStalls = 1
  BatchSize = 1
  MaxRetries = 0
  FaultKinds = {"crash", "stall"}
  MaxFaults = 1
INVARIANTS SuccessIsComplete
PROPERTIES EventuallyAnswered
CHECK_DEADLOCK FALSE
