SPECIFICATION FairSpec
CONSTANTS
  c1 = c1
  c2 = c2
  Checks = {c1}
  Probe = Probe
  Messages <- OnLoop
  Required = FALSE
  Flaky = FALSE
PROPERTIES AutoRecovers
CHECK_DEADLOCK FALSE
