SPECIFICATION CountedSpec
CONSTANTS
  w1 = w1
  w2 = w2
  j1 = j1
  j2 = j2
  NoKey = NoKey
  NoWorker = NoWorker
  Workers <- MCWorkers
  Jobs <- MCJobs
  KeyOf <- PlainKeys
  Priority <- PlainPriority
  Unknown = {j2}
  MaxAttempts = 2
  BatchSize = 2
  MaxCrashes = 1
  MaxPresses = 2
SYMMETRY WorkerSymmetry
INVARIANTS
  TypeOK
  HolderOwnsRow
  ExclusiveUntilExpiry
  RepeatsAreAccountedFor
  SucceededMeansDone
  AttemptsWithinLimit
PROPERTY SettledStaysSettled
CHECK_DEADLOCK FALSE
