SPECIFICATION FairSpec
CONSTANTS
  w1 = w1
  w2 = w2
  t1 = t1
  t2 = t2
  t3 = t3
  t4 = t4
  Workers = {w1, w2}
  Turns = {t1, t2, t3, t4}
  Home <- MCHome
  Slots = 1
  MaxQueue = 1
  CanOutlive = {t1}
  MaxDepth = 1
  Faults = {"crash", "cancel", "dberror"}
VIEW MCView
INVARIANTS TypeOK BoxCapacity WaitingExact NoLostWakeup PermitsAddUp
PROPERTIES EveryTurnAnswered
CHECK_DEADLOCK FALSE
