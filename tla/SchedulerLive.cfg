SPECIFICATION FairSpec
CONSTANTS
  NumTasks = 1
  Workers = {w1, w2}
  System = system
  OtherKeys = {r}
  AcquireKeys = {r}
  MaxAttempts <- Attempts2
  AttemptLimit = 2
  RetryBase = 1
  RetryMax = 2
  SweepLimit = 1
  MaxTTL = 2
  MaxFence = 2
  MayCrash = {w1, w2}
  RunStates = {"ready", "running", "suspended", "evidence_pending", "blocked_capability"}
  Controls = {"suspended", "resume", "blocked", "canceled", "deleted", "retired"}
PROPERTY CrashedWorkReturns
CHECK_DEADLOCK FALSE
