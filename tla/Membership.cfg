\* Two accounts, one organization, one invitation that may be rotated once, two
\* requests.
CONSTANTS
  Account = {ann, bob}
  Org = {o1}
  Invitation = {i1}
  Request = {r1, r2}
  Offered = {"ADMIN", "WORKER"}
  MaxMail = 2
  Null = Null
SPECIFICATION Spec
INVARIANTS
  RolesAreChosen
  AccessNeedsMembership
PROPERTY JoinsSpendInvitations
CHECK_DEADLOCK FALSE
