SPECIFICATION Spec
CONSTANTS
  Values = {1, 2}
  Period = 2
  MaxRepeatCount = 2
  IgnoredFuture = 1
  MaxTime = 5
  MaxCalls = 8
INVARIANTS TypeOK RepeatsTellAll NewValueFollowsRepeat
CHECK_DEADLOCK FALSE
