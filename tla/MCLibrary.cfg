SPECIFICATION Spec
CONSTANTS
  e1 = e1
  e2 = e2
  e3 = e3
  e4 = e4
  Elem = {e1, e2, e3, e4}
  Lists = {l, k}
  Value <- MCValue
  NULL = NULL
  Item = {1, 2, 3, 4, 6, 8}
  Key <- MCKey
  HashOf <- MCHashOf
  MinBuckets = 1
  BEST_ELEMS_PER_BUCKET = 1
  NoElem = NoElem
  ELEM_BITS = 4
  BitCnt = {5}
  BuddyMax = 4
  MemSize = 5
  Char = {1, 2}
  Num = {1, 2, 3}
  MaxCnt = 6
  TextChar = {" ", "-", "+", "1", "2", "8"}
  MaxText = 4
  INT_MAX = 127
  W = 4
  Bits <- MCBits
  BufSize = 8
  PerLine = 4
  Conversion <- MCConversion
  Arg <- MCArg
  Room = {0, 5}
  PageSize = 4
  UserEnd = 16
  SPACE = 32
  Executable <- MCExecutable
  Frames = 3
  Letter = {1, 2}
  MaxLine = 6
  Top = 1000
  NameLen = 4
  OctLen = 5
  MaxName = 4
  Sizes = {0, 511}
  ULong = 1023
  IntMax = 511
  Byte = {0, 32, 47, 49, 55}
  Files <- MCFiles
  SectorBytes = 2
  ScratchLen = 7
  MaxBoots = 3
CHECK_DEADLOCK FALSE
SYMMETRY MCSymmetry
INVARIANTS
  ListCorrect HashCorrect BitmapCorrect StringsCorrect StdlibCorrect
  DivisionCorrect PrintingCorrect ProgramLoaded UserPagesOnly ArchivesCorrect
