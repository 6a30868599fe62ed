SPECIFICATION Spec
CONSTANTS
  Users = {u1, u2}
  Logins = {l1}
  Fallbacks = {f1}
  Passwords = {p1, p2}
  Plain = {p1, p2}
  Secrets = {s1}
  Tokens = {t1, t2}
  Requests = {r1}
  EditLimit = 3
  None = None
SYMMETRY Symmetry
CONSTRAINT FormsExplored
CHECK_DEADLOCK FALSE
INVARIANTS TypeOK AuthenticatedKnowsPassword AuthenticatedHasSecondFactor
PROPERTIES PasswordChangeRevokes RequirementKept
