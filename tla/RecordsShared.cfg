SPECIFICATION Spec
CONSTANTS
  c1 = c1
  c2 = c2
  Children = {c1, c2}
  Imported = {c2}
  AgeEdits = {c1}
  Workers = {w1, w2}
  NumTurns = 2
  Verifies = {}
  Ends = {}
  ChildOf <- Siblings
  ByAdmin = {2}
  MaxPerDay = 1
  Keep = 0
  MaxDay = 1
SYMMETRY MCSymmetry
INVARIANTS ErasureIsTotal ConsentOnRecord
PROPERTIES RecentIsKept
CHECK_DEADLOCK FALSE
