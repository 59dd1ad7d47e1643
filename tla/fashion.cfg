CONSTANTS
  Profiles = {p1}
  Requested <- Lists
  ProductViews <- Beginnings
  Types = {"system_virtual", "brand_authorized"}
  Statuses = {"not_required", "valid", "expired"}
  Views = {"front", "side"}
  None = None
  LastDay = 2
  MaxBatches = 2
SPECIFICATION Spec
INVARIANTS DeliveredUnderAuthorization CompiledIsProvable
CHECK_DEADLOCK FALSE
