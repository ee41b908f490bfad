SPECIFICATION Spec
CONSTANTS
  Id = {i1}
  Org = {"o1", "o2"}
  Facility = {"f1", "f2"}
  Zone = {"z1", "z2"}
  OrgOf <- MCOrgOf
  FacilityOf <- MCFacilityOf
  Request = {r1, r2}
  Upload = {u1}
  Unwatched = {"o2"}
  MaxTime = 2
  MaxReadings = 1
  MaxEdits = 3
  Null = Null
SYMMETRY Slots
INVARIANT PlacementsFit WindowsAreOwn
PROPERTY AuditTellsTheTruth
CHECK_DEADLOCK FALSE
