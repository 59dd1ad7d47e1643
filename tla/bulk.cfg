CONSTANTS
  w1 = w1  w2 = w2
  NoPlan = NoPlan
  Jobs = {1, 2, 3}
  Rows = {1, 2, 3, 4, 5, 6}
  JobOf <- ThreeJobs
  Sku <- Products
  DryRuns = {3}
  Flaw <- Flawed
  Workers = {w1, w2}
  MaxPlans = 6
  MaxCrashes = 1
  MaxOverruns = 0
SPECIFICATION Spec
INVARIANTS OneExecutedPlan QueuedRowsHaveBatches VerdictIsTrue RowsFailForCause
PROPERTIES ResultsStay JobsFinish
CHECK_DEADLOCK FALSE
