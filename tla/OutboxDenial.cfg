SPECIFICATION FairSpec
CONSTANTS
  e1 = e1 e2 = e2 e3 = e3 g1 = g1 g2 = g2 s1 = s1 s2 = s2 t1 = t1 w1 = w1
  Tasks = {t1}
  Steps = {s1, s2}
  Effects = {e1}
  Grants = {g1, g2}
  Workers = {w1}
  System = system
  NoHolder = none
  Callers = {}
  Recoverers = {r1}
  DirectKeys = {}
  TaskOf <- MCTaskOf
  StepOf <- MCStepOf
  GrantOf <- MCGrantOf
  PrincipalOf <- MCPrincipalOf
  Integration = {g2}
  MaxUses <- MCMaxUses
  ScanLimit = 2
  MaxCrashes = 1
  MayVoid = {}
  MayDisable = {}
  TaskStates = {"blocked", "canceled"}
  RunStates = {"running"}
PROPERTY DenialsAreReal
CHECK_DEADLOCK FALSE
