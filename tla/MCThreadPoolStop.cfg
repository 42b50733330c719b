SPECIFICATION Spec
CONSTANTS
  Workers = {w1, w2}
  Callers = {main}
  Owner = main
  MaxTasks = 1
  None = None
CHECK_DEADLOCK FALSE
PROPERTIES
  DestructorReturns
