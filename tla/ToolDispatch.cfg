\* Turns of two calls: a search that may run beside others, an edit, and a
\* plugin that asks.  What a tool returns may change once, and the user
\* approves once.
SPECIFICATION Spec
CONSTANTS
  Actions = {grep, edit, plugin}
  Concurrent = {grep}
  Ask = {plugin}
  Bound = {plugin}
  Turn = 2
  Limit = 2
  Values = {1, 2}
  MaxChanges = 1
  MaxApprovals = 1
CHECK_DEADLOCK FALSE
INVARIANTS
  RepetitionBounded
  SerialAlone
PROPERTIES
  CanceledIsFinal
