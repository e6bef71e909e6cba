SPECIFICATION CountedSpec
CONSTANTS
  w1 = w1
  w2 = w2
  j1 = j1
  j2 = j2
  NoKey = NoKey
  NoWorker = NoWorker
  Workers <- MCWorkers
  Jobs <- MCJobs
  KeyOf <- PlainKeys
  Priority <- PlainPriority
  Unknown = {}
  MaxAttempts = 1
  BatchSize = 1
  MaxCrashes = 2
  MaxPresses = 0
SYMMETRY WorkerSymmetry
INVARIANT OutOfAttemptsIsNotRetried
CHECK_DEADLOCK FALSE
