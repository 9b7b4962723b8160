\* Teams, records, services and profiles.
SPECIFICATION Spec
CONSTANTS
  Off = Off
  Nobody = Nobody
  p1 = p1
  p2 = p2
  w1 = w1
  w2 = w2
  c1 = c1
  c2 = c2
  c3 = c3
  i1 = i1
  i2 = i2
  o1 = o1
  n1 = n1
  n2 = n2
  v1 = v1
  s1 = s1
  s2 = s2
  e1 = e1
  e2 = e2
CHECK_DEADLOCK FALSE
INVARIANTS
  TeamSound
  RecordsTrue
PROPERTIES
  NothingUndone
