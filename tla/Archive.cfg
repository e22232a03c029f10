SPECIFICATION Spec
CONSTANTS
  Stamps = {1,2,3}
  Kinds = {x, y}
  FirstSize = 1
  LastSize = 2
  NumSamples = {0, 1}
  FileLimit = 5
  BackInTime = FALSE
  MaxSessions = 3
  MaxReadSessions = 2
  MaxSamples = 3
INVARIANTS TypeOK HeadersTrue CommittedReadable FindIsLatest
PROPERTIES StoredForGood ReadInOrder
SYMMETRY Sym
CHECK_DEADLOCK FALSE
