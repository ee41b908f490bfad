\* Two requests at a time on a registered bin and a bin made up on the fly, two
\* tenants, administrators at work; the clock stands still.
CONSTANTS
  Bin = {b1, d1}
  Cycle = {c1, c2}
  Facility = {plant, far}
  Rendering = {plant, far}
  User = {adm, drv}
  Org = {o1, o2}
  Request = {r1, r2}
  Granted = {}
  MaxTime = 0
  d1 = d1
  plant = plant
  far = far
  adm = adm
  drv = drv
  o1 = o1
  o2 = o2
  Null = Null
  BinOrg <- MCBinOrg
  FacilityOrg <- MCFacilityOrg
  Home <- MCHome
  DkHours <- MCDkHours
  Decommissioned = {}
  FirstMember <- MCFirstMember
  FirstAccess <- MCFirstAccess

SPECIFICATION Spec
SYMMETRY Symmetry
\* Every cycle id may be used up and every facility removed.
CHECK_DEADLOCK FALSE

INVARIANTS
  TypeOK
  BinMirrorsCycle
  TenantsStayApart
  OneCyclePerDynamicBin
PROPERTIES
  AssignedDriverDelivers
  ImplementsLifecycle
