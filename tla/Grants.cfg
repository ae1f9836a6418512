SPECIFICATION Spec
CONSTANTS
  olive = olive
  pat = pat
  ta = ta
  tb = tb
  qa = qa
  qb = qb
  provider = provider
  Principals = {olive, pat}
  Sessions = {s1, s2}
  RoleSets <- OfferedRoles
  MaxVersion <- Versions
  Tasks = {ta, tb}
  Requests = {qa, qb}
  TaskOf <- TasksOf
  CapabilityOf <- Provider
  TargetOf <- OneTarget
  Bound = {ta}
  Contracts = {qa}
  GoalBudget = 1
  GoalCalls = 1
  TaskBudget <- TaskBudgets
  TaskCalls <- TaskBudgets
  Approvals = {a1, a2}
  GrantIds = {g1, g2}
  Keys = {k1}
  Makers = {pat}
  Decisions <- DecisionsMade
  ApprovalTTLs = {1}
  GrantTTLs = {1, 2}
  Limits <- OneLimit
  Costs = {1}
  NoOne = NoOne
  Start <- StartStates
  Moves <- MovesMade
SYMMETRY Symmetric
INVARIANTS TypeOK OwnerRemains GrantsWithinApproval GoalReservation TaskNeverOverspends
PROPERTIES DeadSessionsStayDead
CHECK_DEADLOCK FALSE
