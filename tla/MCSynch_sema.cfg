SPECIFICATION Spec
CONSTANTS
  Thread = {main, idle, a, b, d}
  initial_thread = main
  NULL = NULL
  TIME_SLICE = 2
  Sema = {s}
  monitor = monitor
  tid_lock = tid_lock
  Lock = {tid_lock}
  Cond = {}
  CondLock <- MCCondLock
  MaxValue = 2
  MaxTid = 5
  USERPROG = FALSE
INVARIANTS
  UniqueTids ListsSound NoLostWakeup
