SPECIFICATION Spec
CONSTANTS
  SessionIds = {a, b}
  Clients = {c1, c2}
  Runs = {r1}
  ManualRun = manual
  Tools = {t1}
  Requests = {q1}
  Evidence = {e1, e2}
  MaxRevision = 4
  MaxMessages = 1
  MaxIncarnations = 1
  Absent = Absent
  None = None
SYMMETRY Symmetry
CHECK_DEADLOCK FALSE
INVARIANTS
  EveryFileLoads
PROPERTIES
  NoLostUpdate
  GuardHolds
