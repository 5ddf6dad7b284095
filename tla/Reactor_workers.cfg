SPECIFICATION Spec
CONSTANTS
  Workers = {w1, w2}
  Caller = caller
  UseCaller = FALSE
  MaxWork = 1
INVARIANT StopDrains
CHECK_DEADLOCK FALSE
