SPECIFICATION FairSpec
CONSTANTS
  NumTasks = 1
  Workers = {w1, w2}
  System = system
  OtherKeys = {}
  AcquireKeys = {1}
  MaxAttempts <- Attempts2
  AttemptLimit = 2
  RetryBase = 1
  RetryMax = 2
  SweepLimit = 1
  MaxTTL = 2
  MaxFence = 2
  MayCrash = {}
  RunStates = {"ready", "running", "suspended", "evidence_pending", "blocked_capability"}
  Controls = {"suspended", "resume", "blocked", "canceled", "deleted", "retired"}
PROPERTY ResumeKeepsClaim
CHECK_DEADLOCK FALSE
