SPECIFICATION PhoneSpec
CONSTANTS
  e1 = e1
  e2 = e2
  categorize = categorize
  attach = attach
  Entities = {e1, e2}
  Operations = {categorize, attach}
  Superseding = {categorize}
  MaxAttempts = 2
  MaxRequests = 2
  MaxOps = 2
  MaxHands = 1
  MaxPresses = 0
  Scenarios <- LostScenarios
INVARIANT
  NothingIsDropped
CHECK_DEADLOCK FALSE
