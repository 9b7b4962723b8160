SPECIFICATION Spec
CONSTANTS
  SessionIds = {a}
  Runs = {r1, r2, r3}
  ManualRun = manual
  Tools = {t1, t2}
  Requests = {q1, q2}
  Evidence = {e1}
  MaxRevision = 5
  MaxMessages = 2
  MaxIncarnations = 2
  Absent = Absent
  None = None
SYMMETRY Symmetry
CHECK_DEADLOCK FALSE
INVARIANTS
  EffectsGuarded
PROPERTIES
  NoRepeatedExecution
  ImplementsLedger
