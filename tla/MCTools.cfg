\* The tools of a run: gates, processes, servers, web.
SPECIFICATION Spec
CONSTANTS
  Off = Off
  k1 = k1
  k2 = k2
  c1 = c1
  c2 = c2
  c3 = c3
SYMMETRY Symmetry
CHECK_DEADLOCK FALSE
INVARIANTS
  ToolsAdmitted
  ProcessesContained
  AnswersAreOwn
