SPECIFICATION CastSpec
CONSTANTS
  Thread = {t1, t2}
  Byte = {a, b}
  NULL = NULL
  INTQ_BUFSIZE = 3
  MaxDepth = 0
  MaxPrinted = 1
  KernelReader = {{}, {t1, t2}}
CHECK_DEADLOCK FALSE
SYMMETRY Symmetry
INVARIANTS
  WaitsSound
PROPERTIES
  ChannelsAreFifo
