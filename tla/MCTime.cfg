SPECIFICATION TimeSpec
CONSTANTS
  Thread = {t1, t2}
  Byte = {a}
  NULL = NULL
  INTQ_BUFSIZE = 2
  MaxDepth = 1
  MaxPrinted = 0
  KernelReader = {{}}
  HALF = 3
  MaxTicks = 8
  TIMER_FREQ = 100
  Asked <- MCAsked
  RealTime <- MCRealTime
INVARIANTS
  ConsoleSafe SleepsFully
PROPERTIES
  WaitersProceed SleepEnds
