SPECIFICATION Spec
CONSTANTS
  Caller = caller
  Workers = {w1}
  Plain = {p1}
  RootFiber = root
  Tasks = {f1, f2}
  Solos = {s1}
  None = none
  Mistakes = {}
INVARIANTS NoFault SelfKnown ControlReturns NothingLost PointersExact
CHECK_DEADLOCK FALSE
