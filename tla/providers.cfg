CONSTANTS
  ProviderNames = {"generic_http", "comfyui"}
  ModelIds = {m1, m2}
  Secrets = {s1}
  None = None
  Requests = {r1, r2}
  References = 1
  MaxPolls = 2
  MaxAttempts = 2
  MaxUpdates = 2
SPECIFICATION Spec
INVARIANT ResultsAreOwn
PROPERTIES KeyLostOnlyByRace CallsEnd
CHECK_DEADLOCK FALSE
