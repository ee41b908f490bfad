\* Two modals of one tenant, each on a date range that holds every delivery or one
\* that holds none, and two cycles, which may be another tenant's.
CONSTANTS
  Bin = {b1, b2}
  Cycle = {c1, c2}
  Facility = {f1, f2}
  Rendering = {f1, f2}
  User = {u1}
  Org = {o1, o2}
  Instant = {0}
  Modal = {m1, m2}
  Tx = {t1, t2}
  b1 = b1
  b2 = b2
  f1 = f1
  f2 = f2
  o1 = o1
  o2 = o2
  m1 = m1
  m2 = m2
  m3 = m3
  Null = Null
  BinOrg <- MCBinOrg
  FacilityOrg <- MCFacilityOrg
  Home <- MCHome
  DkHours <- MCDkHours
  ModalOrg <- MCModalOrg
  Window <- MCWindow

SPECIFICATION ASpec
SYMMETRY Symmetry

INVARIANTS
  AnchorsAreGenuine
  SuccessLeavesNoneBehind
  RootsHoldOneTenant
PROPERTIES
  AnchorsArePermanent
