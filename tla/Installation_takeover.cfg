SPECIFICATION Spec
CONSTANTS
  site = site
  sub = sub
  a = a
  b = b
  c = c
  d = d
  r1 = r1
  r2 = r2
  None = None
  Folders = {site, sub}
  Parent <- MCParent
  Selected = {site, sub}
  Tables = {a, b, c, d}
  Namings <- MCNamings
  InvNamings <- MCInvNamings
  Legacies <- NoLegacies
  Requests = {r1, r2}
  MaxStops = 0
  MaxWork = 2
SYMMETRY Symmetry
CHECK_DEADLOCK FALSE
INVARIANTS NoTakeover
