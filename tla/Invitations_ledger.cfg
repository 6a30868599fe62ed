SPECIFICATION Spec
CONSTANTS
  Invitations = {i1, i2}
  Secrets = {s1, s2}
  Users = {u1, u2}
  Logins = {l1}
  Roles = {1}
  RolesOf <- MCRolesOf
  Requests = {r1, r2, r3}
  Lifetime = 1
  MaxTime = 2
  None = None
SYMMETRY Symmetry
CHECK_DEADLOCK FALSE
INVARIANTS TypeOK CompletedWithCurrentSecret RevocationAnswer AcceptedInTime
PROPERTIES LedgerSpec
