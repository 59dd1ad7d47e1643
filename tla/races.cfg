CONSTANTS
  w1 = w1  w2 = w2  t1 = t1  t2 = t2  s1 = s1  s2 = s2  p1 = p1
  None = None
  Steps = {s1}
  Workers = {w1, w2}
  Tasks = {t1, t2}
  WorkerOf <- OneTaskEach
  Kind <- CheckedStep
  Providers = {p1}
  ProviderOf <- OneProvider
  ProviderLimit <- NoProviderLimit
  MaxConcurrency = 2
  MaxAttempts = 2
  MaxStalls = 1
  MaxFaults = 1
SPECIFICATION FairSpec
INVARIANTS LeaseMatchesStatus AttemptsAreCounted AttemptsWithinLimit
PROPERTIES LeaseOnlyClaimable KeepsLedger StepsFinish
CHECK_DEADLOCK FALSE
