SPECIFICATION Spec
CONSTANTS
  Handlers = {h1, h2, h3}
  MaxConcurrent = 2
  Configs = {c1, c2}
  NoConfig = NoConfig
CHECK_DEADLOCK FALSE
INVARIANTS
  SlotsConserved
  DrainedIsFinal
  ConfigStable
