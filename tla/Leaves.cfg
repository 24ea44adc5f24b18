SPECIFICATION LSpec
\* each part may come to its end
CHECK_DEADLOCK FALSE
CONSTANTS
  Modulus = 8
  UsecNum = 2
  TickNum = 3
  TicksPerUsec = 1
  Usecs = {0, 1, 2, 5, 7}
  TIMEOUT = 3
  LoopGaps = {1, 3, 7, 8}
  IdleGaps = {1, 6, 8, 17}
  LastCall = 34
  LastTick = 48
  WordBytes = 2
  FifoBytes = 4
  WriteLens = {0, 1, 2, 3, 4, 5, 6, 7, 8, 9, 13}
  ReadLens = {0, 1, 3, 4, 5, 8, 9}
  Base = 1024
  Limit = 64
  IoSize = 8
  RealSizes = {8, 16, 32, 64, 128}
  Contents = {0, 1032, 1040, 1056}
  Word = 256
  Align = 4
  PtrSize = 2
  MemBase = 128
  TableSize = 5
  PageCacheSizes = {5, 12}
  PayloadSizes = {0, 1, 2, 7, 8, 15, 20, 200}
  ProbsSizes = {3, 9, 24}
  Bits = 4
  ByteBits = 2
  SumBits = 5
  Powers = {0, 2, 3}
  Unroll = 2
  SumLens = {0, 1, 2, 3, 5}
  Buffers <- MCBuffers
  Formats <- MCFormats
  Strings <- MCStrings
  UintLimit = 256
  TmpDec = 3
  TmpHex = 3
  Values = {0, 9, 10, 16, 99, 100, 255}
INVARIANTS
  ElapsedIsRight
  DelaysLast
  NoEarlyTimeout
  WaitsNoLonger
  TransfersAreRight
  SizeIsRight
  MemoryIsKept
  BlocksApart
  ArithmeticIsRight
  ShowsWhatIsMeant
PROPERTIES
  LeavesTheControllerAlone
