SPECIFICATION Spec
CONSTANTS
  ann = ann
  bob = bob
  s1 = s1
  s2 = s2
  c1 = c1
  c2 = c2
  here = here
  None = None
  User = {ann, bob}
  SessionId = {s1, s2}
  Address = {here}
  Here = here
  Call = {c1, c2}
  AccessTicks = 1
  RefreshTicks = 2
  WindowTicks = 1
  MaxFailures = 1
  MaxCount = 1
SYMMETRY Symmetric
CHECK_DEADLOCK FALSE
PROPERTY UsableSessionRenewed
