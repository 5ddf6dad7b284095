SPECIFICATION Spec
CONSTANTS
  Threads = {h1, h2, u1}
  Hooked = {h1, h2}
  Fds = {2, 4}
  NoCtx = null
  InitialSize = 2
  Infinite = infinite
  Seconds = {2}
  Microseconds = {1500}
  IoctlFlags = {TRUE}
  MaxOpens = 3
INVARIANTS TypeOK TableIsExact  NeverBlocks
CHECK_DEADLOCK FALSE
