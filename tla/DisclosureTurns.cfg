SPECIFICATION FairSpec
CONSTANTS
  d1 = d1
  d2 = d2
  Turns = {d1, d2}
  Kinds <- MCKinds
  Alerting <- MCAlerting
  Rerouted <- MCRerouted
  NumWorkers = 1
  MaxSize = 1
  WritesFail = TRUE
INVARIANTS TypeOK OneDisclosureAlert EveryFindingRecorded UpgradeReachesParent
  UrgencyKept
PROPERTIES VerdictSettles
