SPECIFICATION BothSpec
CONSTANTS
  Thread = {main, idle}
  initial_thread = main
  NULL = NULL
  TIME_SLICE = 1
  Sema = {}
  monitor = monitor
  tid_lock = tid_lock
  Lock = {monitor, tid_lock}
  Cond = {c}
  CondLock <- MCCondLock
  MaxValue = 1
  MaxTid = 4
  USERPROG = FALSE
  Process = {p1, p2}
  Name = {x, y}
  Node = {n1, n2, n3, n4}
  File = {f1}
  Length = {0, 1}
  SectorCnt = 8
  EntryCnt = 2
  MallocFails = {FALSE}
  MaxCrashes = 0
INVARIANTS OneInodePerSector
