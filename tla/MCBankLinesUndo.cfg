SPECIFICATION BankSpec
CONSTANTS
  paid = paid
  owed = owed
  received = received
  checking = checking
  savings = savings
  None = None
  Lines = {paid, owed, received}
  Outgoing = {paid, owed}
  AccountOf <- MCAccountOf
  RecAccount = checking
  People = {p1, p2}
  Recs = {r1}
  Figures = {1, 2}
  FirstFigure = 1
  MaxEvents = 3
  Scenarios <- MCScenarios
INVARIANT
  UndoReachesBack
CHECK_DEADLOCK FALSE
