SPECIFICATION Spec
CONSTANTS
  Conns = {c1, c2}
  Fds = {f1, f2}
  NLoops = 2
  Timeout = 1
  MaxNow = 2
  Http = TRUE
  KeepAlive = TRUE
  None = None
CHECK_DEADLOCK FALSE
SYMMETRY ConnFdSymmetry
INVARIANTS
  TypeOK
  TableIsExact
  OwnLoopOnly
  GuardedByOwnTimer
  NeverDeaf
  OnlyTheContextKeeps
