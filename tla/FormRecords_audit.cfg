\* Two administrators, each of whom corrects the submission once.
CONSTANTS
  Admin = {a1, a2}
  MaxCorrections = 1
SPECIFICATION Spec
INVARIANT AuditChains
CHECK_DEADLOCK FALSE
