SPECIFICATION Spec
CONSTANTS
  a = a
  b = b
  maker = maker
  checker = checker
  probe = probe
  Tasks = {a, b}
  Target <- TargetOf
  EvaluatorRequired = {a}
  IntegrationRequired = {a}
  Stepped = {a}
  GateOf <- Ungated
  GoalStates = {"runtime"}
  GoalEvaluator = TRUE
  Surfaces = {}
  MaxTTL = 1
  MaxIterations = 1
  Principals = {maker, checker}
  RolesOf <- RolesHeld
  Items = {i1, i2}
  Signatures = {up, down}
  Healthy = {up}
  Skew = 0
  ArtifactInputs <- Reports
  ClaimInputs <- OnTargetClaims
  MaxClaims = 1
  MaxRows = 2
  ProbeStates = {}
  ItemStates = {"delivered"}
  WorkMoves <- Moves
  RunStates = {"compiled", "ready", "running", "evidence_pending", "integration_pending", "delivered", "improvement_pending"}
SYMMETRY ItemSymmetry
INVARIANTS TypeOK DeliveredTaskStands MakerIsNotChecker SealedRun
CHECK_DEADLOCK FALSE
