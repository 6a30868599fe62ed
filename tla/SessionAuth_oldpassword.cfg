SPECIFICATION Spec
CONSTANTS
  Users = {u1}
  Logins = {l1}
  Fallbacks = {}
  Passwords = {p1, p2}
  Plain = {p1, p2}
  Secrets = {s1}
  Tokens = {t1, t2}
  Requests = {r1}
  EditLimit = 2
  None = None
SYMMETRY Symmetry
CHECK_DEADLOCK FALSE
INVARIANTS NoSessionFromOldPassword
