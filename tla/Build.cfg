SPECIFICATION Spec
\* no build is started after the last
CHECK_DEADLOCK FALSE
CONSTANTS
  BuffSize = 3
  Word = 64
  Faults = {"open", "read", "write", "close"}
  PageSizes = {4, 8}
  Lengths1 = {1, 4, 5}
  Lengths2 = {1, 4, 7, 8}
  LinkAlign = 2
  MaxBuilds = 2
INVARIANTS
  OutputIsWholeOrGone
  StagesAreInPlace
