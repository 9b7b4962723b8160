SPECIFICATION Spec
CONSTANTS
  Runs = {r1, r2}
  Operators = {o1, o2}
  Definitions <- TwoDefinitions
  MaxRevision = 6
  MaxAttempts = 2
  NoPlan = NoPlan
  NoRun = NoRun
  NoDefinition = NoDefinition
SYMMETRY Symmetry
CHECK_DEADLOCK FALSE
INVARIANTS
  ExecutorHoldsStage
  AcceptanceIsEarned
  ValidationAgrees
  ExecutedAsApproved
PROPERTIES
  HistoryKept
  ImplementsLifecycle
