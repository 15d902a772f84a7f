CONSTANTS
  r1 = r1
  e1 = e1
  e2 = e2
  None = None
  Requests = {r1}
  Entries = {e1, e2}
  Accounts <- Chart
  Templates <- PlainAndTaxed
  Modes <- AllModes
  Ops <- CoreOps
  Overrides <- NoneAndOverride
  MaxDate = 2
  MaxDrafts = 1
  MaxVersion = 4
  MaxLocks = 1
SYMMETRY EntrySymmetry
SPECIFICATION Spec
INVARIANTS
  ReversedCancels
  VersionCountsLog
PROPERTIES
  KeepsLedger
  ClosedPeriodGate
CHECK_DEADLOCK FALSE
