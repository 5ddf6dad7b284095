SPECIFICATION FairSpec
CONSTANTS
  Caller = caller
  AnyThread = any
  NoTask = none
  Workers = {}
  UseCaller = TRUE
  Tasks = {f1, f2, c1}
  Fibers = {f1, f2}
  Requeue = {"own", "any"}
  Park = TRUE
  MaxYields = 2
PROPERTIES ImplementsTaskPool StopReturns
