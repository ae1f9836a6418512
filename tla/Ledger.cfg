SPECIFICATION Spec
CONSTANTS
  t = t
  boss = boss
  ops = ops
  Tasks = {t}
  Sessions = {boss, ops}
  SessionRoles <- RolesOf
  ExpiresAt <- Expiry
  Keys = {k1, k2}
  RunEvents = {"missing_state_detected"}
  TaskTargets = {"leased", "retry_pending", "failed", "blocked", "ready"}
  Faulty = {"run", t}
  MaxNow = 1
  MaxEvents = 6
  MaxFaults = 1
SYMMETRY Symmetric
INVARIANTS TypeOK LedgerReplays AttemptsNotForgotten HistoryVerifies AnswersApplied
CHECK_DEADLOCK FALSE
