SPECIFICATION FairSpec
CONSTANTS
  main = main
  Thread = {main, a, b}
  KPages = 14
  Frames = 4
  File = {f, g}
  MaxTid = 3
  MaxFd = 1
  NULL = NULL
CHECK_DEADLOCK FALSE
PROPERTIES WaitReturns
