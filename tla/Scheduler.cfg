SPECIFICATION Spec
CONSTANTS
  NumTasks = 2
  Workers = {w1, w2}
  System = system
  OtherKeys = {}
  AcquireKeys = {1, 2}
  MaxAttempts <- Attempts12
  AttemptLimit = 2
  RetryBase = 1
  RetryMax = 1
  SweepLimit = 1
  MaxTTL = 1
  MaxFence = 2
  MayCrash = {}
  RunStates = {"ready", "running"}
  Controls = {"suspended", "resume", "blocked"}
SYMMETRY WorkerSymmetry
INVARIANTS TypeOK AttemptLedger ClaimsFenced RetryBudget SettledBySuccess ReplayVerifies
PROPERTIES AttemptOutcomeFinal TakeoverFenced
CHECK_DEADLOCK FALSE
