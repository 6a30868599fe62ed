SPECIFICATION Spec
CONSTANTS
  Users = {u1}
  Logins = {l1}
  Fallbacks = {}
  Passwords = {p1}
  Plain = {p1}
  Secrets = {}
  Tokens = {t1, t2, t3}
  Requests = {r1, r2}
  EditLimit = 1
  None = None
SYMMETRY Symmetry
CHECK_DEADLOCK FALSE
INVARIANTS ExchangedOnce
