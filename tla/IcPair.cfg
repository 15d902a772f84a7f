CONSTANTS
  Clients = {c1, c2}
  Pairs = {p1}
  Remotes = {e1}
  MaxReversals = 1
  MaxEnables = 2
SPECIFICATION Spec
SYMMETRY Symmetry
INVARIANTS
  TypeOK
  PairAgrees
  ReversedIsReversed
  RelayVerifies
