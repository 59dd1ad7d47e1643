CONSTANTS
  w1 = w1  w2 = w2  t1 = t1  t2 = t2  s1 = s1  s2 = s2  p1 = p1
  None = None
  Steps = {s1, s2}
  Workers = {w1, w2}
  Tasks = {t1, t2}
  WorkerOf <- OneTaskEach
  Kind <- EditAndChecked
  Providers = {p1}
  ProviderOf <- OneProvider
  ProviderLimit <- OneAtATime
  MaxConcurrency = 2
  MaxAttempts = 2
  MaxStalls = 0
  MaxFaults = 0
SPECIFICATION FairSpec
INVARIANTS SingleExecution BatchFollowsStep
PROPERTIES CompletedStaysCompleted EventuallySettled
CHECK_DEADLOCK FALSE
