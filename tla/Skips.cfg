SPECIFICATION Spec
CONSTANTS
  WriteSize = 2
  OobSize = 2
  PagesPerBlock = 2
  BlocksPerDie = 2
  Planes = 1
  NDies = 2
  Addrs = {3}
  Sizes = {0, 4}
  MaxUncorr = 0
INVARIANTS
  SkipsOnlyBadBlocks
