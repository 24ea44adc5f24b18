SPECIFICATION Spec
\* the function returns
CHECK_DEADLOCK FALSE
CONSTANTS
  PropsSize = 1
  SizeField = 1
  RcInitSize = 1
  Required = 2
  MatchMinLen = 2
  MatchSpecLenStart = 5
  DicMin = 2
  Word = 8
  CompSizes = {0, 1, 4, 6}
  OutSizes = {0, 3, 5}
  DicSizes = {1, 3, 7}
  Distances = {0, 1, 2, 3}
  Lengths = {0, 1, 2}
INVARIANTS
  StaysInItsBuffers
  WritesWhatIsMeant
  DistancesAreJudgedRight
PROPERTIES
  UnpackEnds
