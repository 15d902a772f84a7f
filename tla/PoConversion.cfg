CONSTANTS
  c1 = c1
  c2 = c2
  k1 = k1
  l1 = l1
  l2 = l2
  NoKey = NoKey
  Clients = {c1, c2}
  Keys = {k1}
  Lines = {l1}
  Spellings = {"3"}
  Quantities <- OneLine
  MaxVersion = 4
  MaxRows = 1
  MaxBills = 3
SPECIFICATION Spec
SYMMETRY Symmetry
INVARIANTS
  TypeOK
  ReceivedIsRecorded
  OneBillPerBatch
  KeyMintsOnce
  AnsweredIsRecorded
  StatusAgrees
PROPERTY TerminalForever
CHECK_DEADLOCK FALSE
