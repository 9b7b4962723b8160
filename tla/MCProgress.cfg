SPECIFICATION FairSpec
CONSTANTS
  Off = Off
  Nobody = Nobody
  NotYet = NotYet
  Missing = Missing
  i1 = i1
  i2 = i2
  w1 = w1
  grep = grep
  edit = edit
  r1 = r1
  r2 = r2
  o1 = o1
  c1 = c1
  c2 = c2
  s1 = s1
  s2 = s2
CHECK_DEADLOCK FALSE
PROPERTIES
  WorkEnds
  WaitsEnd
