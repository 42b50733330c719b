SPECIFICATION QSpec
CONSTANTS
  Fds <- MCFds
  Times <- MCTimes
  Delay <- MCDelay
  MaxNow = 2
  ClockMayStepBack = FALSE
CHECK_DEADLOCK FALSE
INVARIANTS
  RefIsInverse
  RootIsMinimum
PROPERTIES
  NoneLeftBehind
  ImplementsTimers
  DueTimersGo
  OperationsEnd
