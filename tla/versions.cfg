CONSTANTS
  Requests = {r1, r2}
  Skus = {k1, k2}
  Slugs = {p1, p2}
  Presets = {p1, p2}
  Categories = {c1}
  Pictures = {f1}
  Rules = {r}
  MaxVersions = 2
SPECIFICATION Spec
INVARIANT SeedIsWhole
PROPERTIES AnchorsAreLogs RulesAreLogs
SYMMETRY Symmetry
CHECK_DEADLOCK FALSE
