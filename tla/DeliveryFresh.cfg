SPECIFICATION Spec
CONSTANTS
  a = a
  b = b
  maker = maker
  checker = checker
  probe = probe
  Tasks = {a}
  Target <- TargetOf
  EvaluatorRequired = {a}
  IntegrationRequired = {}
  Stepped = {}
  GateOf <- Merged
  GoalStates = {"runtime"}
  GoalEvaluator = TRUE
  Surfaces = {surface}
  MaxTTL = 2
  MaxIterations = 1
  Principals = {maker, checker, probe}
  RolesOf <- RolesHeld
  Items = {}
  Signatures = {up, down}
  Healthy = {up}
  Skew = 1
  ArtifactInputs <- Reports
  ClaimInputs <- AllClaims
  MaxClaims = 1
  MaxRows = 2
  ProbeStates = {"integration_pending", "runtime_check_pending", "runtime_fresh", "delivered"}
  ItemStates = {"review_pending", "delivered", "superseded"}
  WorkMoves <- Moves
  RunStates = {"compiled", "ready", "running", "evidence_pending", "integration_pending", "suspended", "deploy_dir_updated", "runtime_check_pending", "runtime_fresh", "runtime_stale", "delivered", "improvement_pending"}
PROPERTIES FreshDelivery
CHECK_DEADLOCK FALSE
