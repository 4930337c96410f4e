SPECIFICATION BothSpec
CONSTANTS
  main = main
  Thread = {main, a, b}
  KPages = 14
  Frames = 4
  File = {f, g}
  MaxTid = 3
  MaxFd = 1
  NULL = NULL
  Caller = {t1, t2}
  KernelPages = 3
  UserPages = 1
  PGSIZE = 10
  ARENA = 6
  MinBlock = 2
  Size = {2, 14}
  SIZE_MAX = 39
  MaxBlocks = 2
SYMMETRY BothSymmetry
INVARIANTS CallocGivesAll
