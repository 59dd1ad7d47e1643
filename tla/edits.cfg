CONSTANTS
  Pictures = {p0, p1, p2}
  Masks = {m1}
  Root = p0
  LayerIds = {1, 2, 3}
  Requests = {r1, r2}
  Executions = {e1, e2}
  None = None
  Absent = Absent
  Deleted = Deleted
  MaxRequests = 4
SYMMETRY Symmetry
SPECIFICATION Spec
INVARIANTS NumbersAreGivenOnce SourceIsParentsOutput LineageIsWitnessed ReordersFit
PROPERTY ReadyRevisionsStay
CHECK_DEADLOCK FALSE
