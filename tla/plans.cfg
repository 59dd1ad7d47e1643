CONSTANTS
  Views = {"front", "side"}
  PlatformSlots <- Slots
  CategoryViews <- Category
  BrandCopy = {"hero", "feature"}
  Items = {1, 2, 3, 4}
  Requests = {r1, r2}
  None = None
  Deleted = Deleted
  MaxEdits = 2
  MaxSingles = 1
  MaxBatches = 2
SYMMETRY Requestors
SPECIFICATION PlanSpec
INVARIANTS OneExecution StrictViewsAreCited
CHECK_DEADLOCK FALSE
