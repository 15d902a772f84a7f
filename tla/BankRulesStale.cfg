CONSTANTS
  l1 = l1
  l2 = l2
  e1 = e1
  e2 = e2
  m1 = m1
  r1 = r1
  r2 = r2
  None = None
  Requests = {r1, r2}
  Lines = {l1, l2}
  Entries = {e1, e2}
  Amount <- Cents
  Tolerance = 2
  MatchIds = {m1}
  MaxTroubles = 0
SPECIFICATION Spec
PROPERTY RulesSkipMatched
CHECK_DEADLOCK FALSE
