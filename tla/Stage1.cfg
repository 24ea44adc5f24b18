SPECIFICATION Spec
\* stage 2 has taken over
CHECK_DEADLOCK FALSE
CONSTANTS
  PageSize = 4
  PagesPerBlock = 2
  FlashPages = 4
  Planes = 2
  LineSize = 2
  L2Size = 16
  BootCopy = 4
  Stage1Sizes = {4}
  LoadAddrs = {32, 38}
  Sizes = {1, 2, 3, 4, 5, 6, 7, 8, 9, 10, 11, 12}
  MaxUncorr = 1
INVARIANTS
  Stage2IsWhole
  HandsOverTheChip
PROPERTIES
  ReachesStage2
