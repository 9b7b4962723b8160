\* The agent kernel and the proxy: loop, files, recovered calls,
\* context, accounts, streams.
SPECIFICATION Spec
CONSTANTS
  Off = Off
  f1 = f1
  f2 = f2
  w1 = w1
  w2 = w2
  t1 = t1
  t2 = t2
  c1 = c1
  c2 = c2
  report = report
  read = read
  edit = edit
  r1 = r1
  r2 = r2
  q1 = q1
  q2 = q2
SYMMETRY Symmetry
CHECK_DEADLOCK FALSE
INVARIANTS
  RunsAreHonest
  EditsAreKept
  CallsAsWritten
  RequestsFit
  ProxyIsFaithful
PROPERTIES
  TelemetryStands
