SPECIFICATION Spec
CONSTANTS
  c1 = c1
  c2 = c2
  Checks = {c1, c2}
  Probe = Probe
  Messages <- Streamed
  Required = TRUE
  Flaky = TRUE
INVARIANTS TypeOK NoDroppedMatch FailClosed
SYMMETRY MCSymmetry
CHECK_DEADLOCK FALSE
