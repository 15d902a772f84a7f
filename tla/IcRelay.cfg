CONSTANTS
  t1 = t1
  t2 = t2
  d1 = d1
  d2 = d2
  h1 = h1
  h2 = h2
  None = None
  Txns = {t1, t2}
  Tokenless = {t2}
  Dispatchers = {d1, d2}
  Handlers = {h1, h2}
  MaxAttempts = 3
  Window = 2
  Base = 1
  Cap = 2
  MaxCrashes = 1
SPECIFICATION FairSpec
INVARIANTS
  TypeOK
  OneReciprocalLeg
  AckedIsPosted
  BoundedSends
PROPERTIES
  SettledForever
  EventuallySettled
