SPECIFICATION Spec
CONSTANTS
  Users = {u1}
  Logins = {l1}
  Fallbacks = {}
  Passwords = {p1}
  Plain = {p1}
  Secrets = {s1}
  Tokens = {t1}
  Requests = {r1}
  EditLimit = 3
  None = None
SYMMETRY Symmetry
CHECK_DEADLOCK FALSE
PROPERTIES InvalidatedStaysInvalid
