SPECIFICATION Spec
CONSTANTS
  Users = {u1, u2}
  Logins = {l1, l2}
  Roles = {r1, r2}
  StandardRoles = {r1}
  Fields = {f1}
  Values = {v1}
  OnAnyKey = TRUE
  Requests = {q1, q2}
  MaxWork = 2
  None = None
  Empty = Empty
SYMMETRY Symmetry
CHECK_DEADLOCK FALSE
INVARIANTS TypeOK NoOrphans RolesFromForms
PROPERTIES RoleStaysDisabled KeptUnlessEntered
