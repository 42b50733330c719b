SPECIFICATION OutSpec
CONSTANTS
  Room = 2
  MaxBuffers = 3
  MaxMessages = 12
  None = None
  RollSize = 3
  CheckEveryN = 2
  FlushInterval = 0
  RollPerSeconds = 2
  MaxTime = 5
CHECK_DEADLOCK FALSE
INVARIANTS
  SparesReturn
  NothingLost
  OneFilePerName
  
PROPERTIES
  
  FullBuffersAreWritten
