SPECIFICATION FairSpec
CONSTANTS
  k1 = k1
  k2 = k2
  k3 = k3
  Calls = {k1, k2, k3}
  FailureThreshold = 2
  SuccessThreshold = 2
  HalfOpenMax = 2
INVARIANTS TypeOK SlotsAreHeld
PROPERTIES HealsUnlessWedged
