SPECIFICATION RtcSpec
CONSTANTS
  t1 = t1
  t2 = t2
  Thread = {t1, t2}
  Main = t1
  CHANNEL_CNT = 2
  Attached <- MCAttached
  Sector = {0}
  Data = {0, 1}
  NoThread = NoThread
  NoAccess = NoAccess
  MaxSpurious = 1
  Machine <- MCMachine
  WORD = 16
  MaxCapacity = 8
  MaxDepth = 4
  BdevName <- MCBdevName
  NoName = NoName
  Process = {1, 2}
  BLOCK_SECTOR_SIZE = 2
  Start = 1
  Length = 3
  SectorCnt = 4
  Size = {1, 3}
  Position = {0, 1, 3}
  UINT = 128
  FIRST = 8
  SHIFT = 3
  KILO = 10
  FREQ = 7
  Delays <- MCDelays
  PIT_HZ = 1193180
  Frequencies <- MCFrequencies
  Instants <- MCInstants
  MaxPasses = 3
  COL_CNT = 3
  ROW_CNT = 2
  TAB = 2
  Glyph = {"a"}
  OldRows <- MCOldRows
  MaxRows = 4
  Scancode = {42, 57400, 29, 57373, 58, 30, 3, 83, 57372}
  MaxKeys = 1
CHECK_DEADLOCK FALSE
INVARIANTS SecondsSinceEpoch
