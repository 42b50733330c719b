SPECIFICATION Spec
CONSTANTS
  Conns = {c1, c2}
  Fds = {f1, f2}
  NLoops = 1
  Timeout = 1
  MaxNow = 2
  Http = FALSE
  KeepAlive = FALSE
  None = None
CHECK_DEADLOCK FALSE
PROPERTIES
  HangupsAreReleased
  
