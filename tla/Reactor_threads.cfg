SPECIFICATION FairSpec
CONSTANTS
  Workers = {w1, w2}
  Caller = caller
  UseCaller = TRUE
  MaxWork = 2
INVARIANTS TypeOK StopDrains
PROPERTIES StartReturns StopReturns TasksAreTaken
CHECK_DEADLOCK FALSE
