CONSTANTS
  l1 = l1
  e1 = e1
  e2 = e2
  m1 = m1
  m2 = m2
  r1 = r1
  r2 = r2
  None = None
  Requests = {r1, r2}
  Lines = {l1}
  Entries = {e1, e2}
  Amount <- Cents
  Tolerance = 2
  MatchIds = {m1, m2}
  MaxTroubles = 1
SPECIFICATION Spec
SYMMETRY Symmetry
INVARIANTS
  TypeOK
  NeverOverMatched
  JunctionFollowed
  BookedForOnce
CHECK_DEADLOCK FALSE
