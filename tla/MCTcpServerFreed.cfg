SPECIFICATION Spec
CONSTANTS
  Conns = {c1}
  Fds = {f1}
  NLoops = 1
  Timeout = 1
  MaxNow = 1
  Http = FALSE
  KeepAlive = FALSE
  None = None
CHECK_DEADLOCK FALSE
INVARIANTS
  NoEventOnFreedChannel
