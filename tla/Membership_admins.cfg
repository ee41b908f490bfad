\* Two ADMINs and two requests: the rails of updateMemberRole and removeMember
\* against each other.
CONSTANTS
  Account = {ann, bob}
  Org = {o1}
  Invitation = {i1}
  Request = {r1, r2}
  Offered = {"ADMIN", "WORKER"}
  MaxMail = 1
  Null = Null
SPECIFICATION Spec
PROPERTY AnAdminRemains
CHECK_DEADLOCK FALSE
