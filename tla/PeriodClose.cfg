CONSTANTS
  Clients = {c1, c2}
  Accounts = {income}
  MaxDate = 2
  MaxAmount = 1
  LockIds = {l1, l2}
SPECIFICATION Spec
SYMMETRY Symmetry
INVARIANTS
  TypeOK
  ClosedIsZero
