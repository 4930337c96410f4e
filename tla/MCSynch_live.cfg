SPECIFICATION FairSpec
CONSTANTS
  Thread = {main, idle, a}
  initial_thread = main
  NULL = NULL
  TIME_SLICE = 1
  Sema = {}
  monitor = monitor
  tid_lock = tid_lock
  Lock = {monitor, tid_lock}
  Cond = {c}
  CondLock <- MCCondLock
  MaxValue = 1
  MaxTid = 4
  USERPROG = TRUE
PROPERTIES
  ReadyRuns SleepersWake
