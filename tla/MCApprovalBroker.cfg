SPECIFICATION Spec
CONSTANTS
  Ids = {i1, i2}
  s1 = s1
  s2 = s2
  c1 = c1
  c2 = c2
  Sessions = {s1, s2}
  Calls = {c1, c2}
  SessionOf <- MCSessionOf
  Revisions = {1}
  Capabilities = {k1}
  Waiters = {w1, w2}
  None = None
  Unresolved = Unresolved
  NotFound = NotFound
SYMMETRY IdSymmetry
CHECK_DEADLOCK FALSE
INVARIANTS
  CanceledSessionsAreQuiet
  NoWaiterStranded
  AwaitReportsResolution
  GrantSpentOnce
PROPERTIES
  AllowedInTime
