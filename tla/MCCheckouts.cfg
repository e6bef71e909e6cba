SPECIFICATION Spec
CONSTANTS
  sweep = sweep
  web1 = web1
  web2 = web2
  invoice1 = invoice1
  p1 = p1
  p2 = p2
  c1 = c1
  Cash = Cash
  NoInvoice = NoInvoice
  NoPayment = NoPayment
  NoCharge = NoCharge
  Sessions <- MCSessions
  Sweeper = sweep
  Invoices <- MCInvoices
  Total = 2
  Payments <- MCPayments
  Charges <- OneCharge
  MaxOutages = 1
  MaxKills = 1
SYMMETRY WebSymmetry
INVARIANTS
  TypeOK
  ChargedOnce
  NothingIsGuessed
  BalanceIsWhatIsLeft
PROPERTY ClaimStands
CHECK_DEADLOCK FALSE
