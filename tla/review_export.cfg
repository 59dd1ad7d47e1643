CONSTANTS
  b1 = b1  b2 = b2  r1 = r1  r2 = r2  e1 = e1  e2 = e2
  None = None
  Batches = {b1, b2}
  PlanOrder <- FirstThenSecond
  Reviewers = {r1, r2}
  Exporters = {e1, e2}
  MaxDecisions = 3
SPECIFICATION Spec
INVARIANTS StatusFollowsDecisions CitesApproval
PROPERTY ExportIsFinal
SYMMETRY Requests
CHECK_DEADLOCK FALSE
