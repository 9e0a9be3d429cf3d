SPECIFICATION Spec
CONSTANTS
  Turns = {t1}
  Features = {}
INVARIANTS SuffixServed
CHECK_DEADLOCK FALSE
