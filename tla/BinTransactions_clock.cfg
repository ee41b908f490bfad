\* The clock runs between the steps of two requests; one bin, two cycles, so that
\* a cycle is on time or late, and one starts after another is over.
CONSTANTS
  Bin = {b1}
  Cycle = {c1, c2}
  Facility = {plant}
  Rendering = {plant}
  User = {drv}
  Org = {o1}
  Request = {r1, r2, r3}
  Granted = {}
  MaxTime = 2
  d1 = d1
  plant = plant
  far = far
  adm = adm
  drv = drv
  o1 = o1
  o2 = o2
  Null = Null
  BinOrg <- MCBinOrg
  FacilityOrg <- MCFacilityOrg
  Home <- MCHome
  DkHours <- MCDkHours
  Decommissioned = {}
  FirstMember <- MCFirstMember
  FirstAccess <- MCFirstAccess

SPECIFICATION Spec
SYMMETRY Symmetry
CHECK_DEADLOCK FALSE

INVARIANTS
  EventLogReplaysCycle
PROPERTIES
  HistoryIsFrozen
