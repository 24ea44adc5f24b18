SPECIFICATION Spec
CONSTANTS
  WriteSize = 2
  OobSize = 2
  PagesPerBlock = 2
  BlocksPerDie = 2
  Planes = 2
  NDies = 2
  Addrs = {3, 6}
  Sizes = {1, 7}
  MaxUncorr = 1
INVARIANTS
  NoCommandWhileBusy
  ReadsTheRequestedPage
  LoadsTheImage
  UncorrectableIsPrinted
  NoByteFromMarkedBlock
PROPERTIES
  SkipsForAReason
  LoadsAsPromised
