\* What the comment on confirmAnchor says, against one modal and one cycle.
CONSTANTS
  Bin = {b1}
  Cycle = {c1}
  Facility = {f1}
  Rendering = {f1}
  User = {u1}
  Org = {o1}
  Instant = {0}
  Modal = {m1}
  Tx = {t1}
  b1 = b1
  b2 = b2
  f1 = f1
  f2 = f2
  o1 = o1
  o2 = o2
  m1 = m1
  m2 = m2
  m3 = m3
  Null = Null
  BinOrg <- MCBinOrg
  FacilityOrg <- MCFacilityOrg
  Home <- MCHome
  DkHours <- MCDkHours
  ModalOrg <- MCModalOrg
  Window <- MCWindow

SPECIFICATION ASpec

PROPERTY
  MarkedAfterConfirmation
