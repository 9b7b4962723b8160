\* The exit code of a one-shot run against its result row.
SPECIFICATION Spec
CONSTANTS
  Off = Off
  a1 = a1
  a2 = a2
SYMMETRY Symmetry
CHECK_DEADLOCK FALSE
INVARIANT
  ExitCodeIsResult
