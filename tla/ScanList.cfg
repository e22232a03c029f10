SPECIFICATION Spec
CONSTANTS
  Items = {m1, m2}
  Periods = {1, 2}
  Callers = {http}
  None = None
  MaxTime = 3
  MaxCalls = 4
INVARIANT SelfProtecting
CHECK_DEADLOCK FALSE
