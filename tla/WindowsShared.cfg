SPECIFICATION Spec
CONSTANTS
  w1 = w1
  w2 = w2
  Workers = {w1, w2}
  Isolated = {}
  NumTurns = 4
  MaxOpen = 2
  MaxNow = 3
  Limit = 2
  Window = 3
  Ttl = 2
  Interval = 2
  Idle = 1
  NoRates = {2}
  NoState = {2}
SYMMETRY MCSymmetry
INVARIANTS TypeOK LimitHolds ReminderOnTime
PROPERTIES HistoryExact
CHECK_DEADLOCK FALSE
