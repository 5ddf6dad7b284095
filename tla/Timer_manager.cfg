SPECIFICATION Spec
CONSTANTS
  Timers = {1, 2}
  Waiters = {w1}
  Intervals = {1, 3}
  BootTime = 0
  MaxTime = 3
  MaxPending = 2
  MaxTimeout = 2
  Hour = 8
  IntRange = 8
  UintRange = 64
CHECK_DEADLOCK FALSE
INVARIANTS TypeOK ArmedIsListed OneShot FrontIsAwaited
PROPERTIES NeverEarly NoneLeftBehind
