SPECIFICATION BothSpec
CONSTANTS
  Thread = {main, idle, a, b}
  initial_thread = main
  NULL = NULL
  TIME_SLICE = 1
  Sema = {}
  monitor = monitor
  tid_lock = tid_lock
  Lock = {monitor, tid_lock}
  Cond = {c}
  CondLock <- MCCondLock
  MaxValue = 1
  MaxTid = 4
  USERPROG = FALSE
  Process = {p1}
  Name = {x, y, z}
  Node = {n1, n2, n3}
  File = {f1}
  Length = {0, 1}
  SectorCnt = 7
  EntryCnt = 2
  MallocFails = {TRUE, FALSE}
  MaxCrashes = 1
SYMMETRY Symmetry
INVARIANTS
  TypeOK MutualExclusion WaitersSound DiskSound OpenFilesSound
PROPERTIES
  ImplementsMonitor
