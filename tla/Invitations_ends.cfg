SPECIFICATION FairSpec
CONSTANTS
  Invitations = {i1, i2}
  Secrets = {s1, s2}
  Users = {u1, u2}
  Logins = {l1, l2}
  Roles = {1, 2}
  RolesOf <- MCRolesOf
  Requests = {r1, r2}
  Lifetime = 1
  MaxTime = 0
  None = None
CHECK_DEADLOCK FALSE
INVARIANTS NoCircularWait
PROPERTIES EveryRequestEnds
