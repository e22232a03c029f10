SPECIFICATION Spec
CONSTANTS
  M = 3
  Times = {1,2,3,4,5,6,7,8,9}
  Blocks = {a, b, c, d, e}
  Ranges <- MCRanges
  Updates <- MCUpdates
  MaxInserts = 5
  MaxRemoves = 1
INVARIANTS TypeOK SelfTestPasses SearchFinds IterationVisitsAll
PROPERTY ImplementsIndex
SYMMETRY Sym
CHECK_DEADLOCK FALSE
