SPECIFICATION OutboxFairSpec
CONSTANTS
  w1 = w1
  w2 = w2
  e1 = e1
  notify = notify
  deposit = deposit
  j1 = j1
  j2 = j2
  NoKey = NoKey
  NoWorker = NoWorker
  NoEvent = NoEvent
  Workers <- MCWorkers
  Kinds <- MCKinds
  Events <- OneEvent
  Jobs <- TwoJobs
  KeyOf <- TwoJobKeys
  Subscribers <- OneEventSubscribers
  Priority <- NoPriority
  Unknown = {j2}
  MaxAttempts = 2
  BatchSize = 2
  MaxCrashes = 1
  MaxPresses = 0
  MaxRelayErrors = 1
INVARIANTS
  OutboxTypeOK
  RelayedMeansEnqueued
PROPERTIES
  DeliversOnlyWhatHappened
  EveryEventIsDealtWith
  EveryRowSettles
CHECK_DEADLOCK FALSE
