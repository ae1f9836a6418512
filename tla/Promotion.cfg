SPECIFICATION Spec
CONSTANTS
  p = p
  m = m
  other = other
  cy = cy
  dana = dana
  ed = ed
  olga = olga
  d1 = d1
  d2 = d2
  d3 = d3
  Proposals = {p}
  Memories = {m}
  CandidateOf <- Candidate
  Others = {other}
  Evals = {e1, e2, e3, e4}
  Datasets = {d1, d2, d3}
  Approvals = {a1, a2}
  Principals = {cy, dana, ed, olga}
  RolesOf <- RolesHeld
  Custodians = {cy, olga}
  EvalInputs <- Inputs
  Requesters = {dana}
  MaxSubjects = 1
  MaxWaiting = 1
  MaxDelivered = 2
SYMMETRY Symmetric
INVARIANTS TypeOK FourEyes ActiveOnFreshData RecordsReadBack
PROPERTIES LimitedOnce
CHECK_DEADLOCK FALSE
