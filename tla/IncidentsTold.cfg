SPECIFICATION Spec
CONSTANTS
  w1 = w1
  w2 = w2
  p1 = p1
  p2 = p2
  c1 = c1
  c2 = c2
  c3 = c3
  m1 = m1
  m2 = m2
  Workers = {w1, w2}
  Profiles = {p1, p2}
  Calls = {c1, c2, c3}
  Messages = {m1, m2}
  Home <- MCHome
  ProfileOf <- MCProfileOf
  SeverityOf <- MCSeverityOf
  WithSession = {c1}
  Threshold <- MCThreshold
  MaxId = 3
  Failing = {c2, m2}
  Restarts = {w1}
  Erasable = {p1}
INVARIANTS TypeOK SevereNeverSilent AlertIsAboutTheChild NotifiedIsTold
CHECK_DEADLOCK FALSE
