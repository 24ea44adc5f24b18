SPECIFICATION Spec
\* the code entered does not return
CHECK_DEADLOCK FALSE
CONSTANTS
  LineSize = 2
  LineCount = 3
  Bases = {0, 1, 2, 3}
  Sizes = {0, 1, 2, 3}
  MaxStores = 1
INVARIANTS
  EntersWhatWasStored
  NoStoreIsLost
PROPERTIES
  LoopEnds
