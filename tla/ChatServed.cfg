SPECIFICATION FairSpec
CONSTANTS
  Turns = {t1, t2}
  Features = {"live", "enforcer", "adjudicator", "topic", "sycophancy", "wording"}
INVARIANTS TypeOK VettedOnly LedgerIsWhatWasSent ReminderShips ResourceReaches
PROPERTIES KeepsTheGate
CHECK_DEADLOCK FALSE
