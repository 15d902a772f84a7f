CONSTANTS
  r1 = r1
  r2 = r2
  e1 = e1
  e2 = e2
  None = None
  Requests = {r1, r2}
  Entries = {e1, e2}
  Accounts <- Chart
  Templates <- PlainAndTaxed
  Modes <- ImmutableMode
  Ops <- AllOps
  Overrides <- NoOverride
  MaxDate = 2
  MaxDrafts = 1
  MaxVersion = 2
  MaxLocks = 0
SYMMETRY Symmetry
SPECIFICATION Spec
PROPERTY PostedNeverEdited
CHECK_DEADLOCK FALSE
