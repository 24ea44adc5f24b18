SPECIFICATION MSpec
\* control stays in stage 3, or in the endless loop of stage2_main
CHECK_DEADLOCK FALSE
CONSTANTS
  WriteSize = 2
  OobSize = 2
  PagesPerBlock = 2
  BlocksPerDie = 2
  Planes = 1
  NDies = 2
  Addrs = {}
  Sizes = {}
  MaxUncorr = 0
  Offsets = {3}
  HdrSize = 2
  BreedHdrSize = 1
  Headers <- MCPlain
  ImageHeaders <- MCPlain
INVARIANTS
  LoadsImageAtOffset
