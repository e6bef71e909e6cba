SPECIFICATION FairSpec
CONSTANTS
  w1 = w1
  w2 = w2
  bankSync = bankSync
  pruneJobs = pruneJobs
  i1 = i1
  i2 = i2
  i3 = i3
  NoDefault = NoDefault
  Workers <- MCWorkers
  Defaults <- MCDefaults
  Global = {pruneJobs}
  Period <- MCPeriod
  Ids <- MCIds
  MaxTime = 2
  Scenarios <- MCScenarios
INVARIANTS
  TypeOK
  NoFiringIsPassedOver
  FiringsAreOfTheCadence
PROPERTIES
  DueIsAdvanced
  EveryDefaultIsInstalled
CHECK_DEADLOCK FALSE
