CONSTANTS
  Clients = {c1, c2}
  Payments = {p1}
  Documents = {d1}
  Invoices = {d1}
  Notes = {n1}
  Handled = {d1}
  NoDocument = NoDocument
  MaxAmount = 2
  MaxShare = 1
  MaxEntries = 2
  MaxTroubles = 1
SPECIFICATION Spec
SYMMETRY Symmetry
INVARIANT BookedOnce
CHECK_DEADLOCK FALSE
