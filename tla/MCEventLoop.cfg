SPECIFICATION Spec
CONSTANTS
  Threads = {main, other}
  Owner = main
  LoopThread = loop
  MaxTasks = 2
CHECK_DEADLOCK FALSE
INVARIANTS
  NoLostWakeup
PROPERTIES
  ImplementsSerialExecutor
  TasksRun
  DestructorReturns
