SPECIFICATION Spec
CONSTANTS
  site = site
  sub = sub
  a = a
  b = b
  c = c
  d = d
  r1 = r1
  r2 = r2
  None = None
  Folders = {site, sub}
  Parent <- MCParent
  Selected = {site, sub}
  Tables = {a, b, c, d}
  Namings <- MCNamings
  InvNamings <- MCInvNamings
  Legacies <- MCLegacies
  Requests = {r1, r2}
  MaxStops = 1
  MaxWork = 3
SYMMETRY Symmetry
CONSTRAINT ChangesExplored
CHECK_DEADLOCK FALSE
INVARIANTS TypeOK RuntimeWhole OldLoginOff TablesOwn InvitationTablesOwn
PROPERTIES CustomKept RecordKept SetupSpec
