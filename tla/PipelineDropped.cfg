SPECIFICATION Spec
CONSTANTS
  c1 = c1
  c2 = c2
  Checks = {c1}
  Probe = Probe
  Messages <- Race
  Required = FALSE
  Flaky = FALSE
INVARIANTS NoDroppedMatch
CHECK_DEADLOCK FALSE
