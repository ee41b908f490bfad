\* Liveness: one bin and one cycle, whose driver the ADMIN may demote or remove;
\* roles are only taken away, never handed back and forth for ever.
CONSTANTS
  Bin = {b1}
  Cycle = {c1}
  Facility = {plant}
  Rendering = {plant}
  User = {adm, drv}
  Org = {o1}
  Request = {r1, r2}
  Granted = {"WORKER"}
  MaxTime = 0
  d1 = d1
  plant = plant
  far = far
  adm = adm
  drv = drv
  o1 = o1
  o2 = o2
  Null = Null
  BinOrg <- MCBinOrg
  FacilityOrg <- MCFacilityOrg
  Home <- MCHome
  DkHours <- MCDkHours
  Decommissioned = {}
  FirstMember <- MCFirstMember
  FirstAccess <- MCFirstAccess

SPECIFICATION FairSpec
CHECK_DEADLOCK FALSE

PROPERTIES
  NoCycleStranded
