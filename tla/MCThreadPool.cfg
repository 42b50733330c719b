SPECIFICATION Spec
CONSTANTS
  Workers = {w1, w2, w3}
  Callers = {main, other}
  Owner = main
  MaxTasks = 1
  None = None
CHECK_DEADLOCK FALSE
INVARIANTS
  NeverTakesFromEmpty
  TasksInOrder
  WorkConserving
PROPERTY
  QueuedTasksStart
