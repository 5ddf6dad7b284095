SPECIFICATION FairSpec
CONSTANTS
  Caller = caller
  AnyThread = any
  NoTask = none
  Workers = {w1, w2}
  UseCaller = TRUE
  Tasks = {f1, c1}
  Fibers = {f1}
  Requeue = {"own"}
  Park = FALSE
  MaxYields = 1
INVARIANTS TypeOK ActiveCount QuiescentExit NoFault
PROPERTIES ImplementsTaskPool StopReturns QueuedTaskRuns
