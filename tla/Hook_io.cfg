SPECIFICATION Spec
CONSTANTS
  Threads = {t1}
  Fibers = {f1}
  NoFiber = none
  Timeout = TRUE
  MaxCalls = 2
INVARIANT NoFault
CHECK_DEADLOCK FALSE
