SPECIFICATION FairSpec
CONSTANTS
  sweep = sweep
  web1 = web1
  web2 = web2
  invoice1 = invoice1
  p1 = p1
  p2 = p2
  c1 = c1
  Cash = Cash
  NoInvoice = NoInvoice
  NoPayment = NoPayment
  NoCharge = NoCharge
  Sessions <- MCSessions
  Sweeper = sweep
  Invoices <- MCInvoices
  Total = 2
  Payments <- OnePayment
  Charges <- OneCharge
  MaxOutages = 0
  MaxKills = 0
PROPERTY ProcessorHasTheLastWord
CHECK_DEADLOCK FALSE
