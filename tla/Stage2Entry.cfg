SPECIFICATION Spec
\* stage 2 stops when no word may be stored to again
CHECK_DEADLOCK FALSE
CONSTANTS
  LineWords = 2
  L2Lines = 2
  BssStart = 1
  ProgEnd = 3
  MaxStores = 2
INVARIANTS
  ProgramSurvives
  NothingStaysLocked
