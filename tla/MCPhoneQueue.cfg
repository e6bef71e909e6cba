SPECIFICATION PhoneFairSpec
CONSTANTS
  e1 = e1
  e2 = e2
  categorize = categorize
  attach = attach
  Entities = {e1, e2}
  Operations = {categorize, attach}
  Superseding = {categorize}
  MaxAttempts = 2
  MaxRequests = 2
  MaxOps = 2
  MaxHands = 2
  MaxPresses = 1
  Scenarios <- MCScenarios
INVARIANTS
  PhoneTypeOK
  AtMostOnce
  LeavesOnlyWhenDone
  InTheOrderDecided
  SendingIsBeingSent
PROPERTY
  EveryEntrySettles
\* The person stops deciding: everything queued has been sent or parked.
CHECK_DEADLOCK FALSE
