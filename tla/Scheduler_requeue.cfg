SPECIFICATION Spec
CONSTANTS
  Caller = caller
  AnyThread = any
  NoTask = none
  Workers = {w1, w2, w3}
  UseCaller = FALSE
  Tasks = {c1}
  Fibers = {}
  Requeue = {"any"}
  Park = FALSE
  MaxYields = 1
INVARIANT NoFault
SYMMETRY Symmetry
