SPECIFICATION Spec
CONSTANTS
  e1 = e1
  e2 = e2
  e3 = e3
  s1 = s1
  s2 = s2
  invoice = invoice
  c1 = c1
  NoEntry = NoEntry
  NoDoc = NoDoc
  NoSession = NoSession
  Entries <- MCEntries
  Sessions <- MCSessions
  Docs <- MCDocs
  Dates <- MCDates
  Today = 2
  EntryDates = {1}
  Closings <- MCClosings
  Spans <- MCSpans
SYMMETRY SessionSymmetry
PROPERTY ClosedMeansClosed
