SPECIFICATION Spec
CONSTANTS
  Members = {1, 2}
  Stations = {k}
  c0 = c0
  w1 = w1
  m1 = m1
  m2 = m2
  Addrs <- MCAddrs
  AddrsOf <- MCAddrsOf
  TQ <- MCTQ
  TTL = 2
  StaleTTL = 3
  MaxId = 4
  MaxChanges = 1
  Combined = FALSE
  None = None
INVARIANTS AliveWhileHeard
