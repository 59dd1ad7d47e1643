CONSTANTS
  Steps = {s1}
  Workers = {w1, w2}
  Nothing = Nothing
  MaxConcurrency = 1
  MaxHints = 1
  MaxFaults = 1
SPECIFICATION FairSpec
INVARIANTS KeyVouchesForHint LeasesHaveExecutions
PROPERTY EveryStepEnds
CHECK_DEADLOCK FALSE
