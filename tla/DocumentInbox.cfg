CONSTANTS
  Requests = {r1}
  Jobs = {s1}
  Docs = {d1, d2}
  MaxAttempts = 2
  MaxTroubles = 1
  MaxRecords = 2
SPECIFICATION FairSpec
INVARIANTS
  TypeOK
  PublishedOnce
  ReadyIsComplete
  ExtractingIsClaimed
  BlobKept
PROPERTY EventuallySettled
CHECK_DEADLOCK FALSE
