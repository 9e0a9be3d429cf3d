SPECIFICATION Spec
CONSTANTS
  c1 = c1
  c2 = c2
  Children = {c1}
  Imported = {}
  AgeEdits = {}
  Workers = {w1, w2}
  NumTurns = 2
  Verifies = {v1}
  Ends = {e1}
  ChildOf <- OnlyChild
  ByAdmin = {}
  MaxPerDay = 1
  Keep = 0
  MaxDay = 1
SYMMETRY MCSymmetry
INVARIANTS TypeOK SessionLimits ConsentOnRecord
PROPERTIES RecentIsKept
CHECK_DEADLOCK FALSE
