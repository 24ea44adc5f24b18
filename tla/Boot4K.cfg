SPECIFICATION Spec
\* stage 2 has taken over
CHECK_DEADLOCK FALSE
CONSTANTS
  PageSize = 8
  PagesPerBlock = 2
  FlashPages = 4
  Planes = 2
  LineSize = 2
  L2Size = 32
  BootCopy = 4
  Stage1Sizes = {3, 5, 8}
  LoadAddrs = {32, 38}
  Sizes = {16}
  MaxUncorr = 1
INVARIANTS
  Stage1IsWhole
