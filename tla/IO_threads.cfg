SPECIFICATION FairSpec
CONSTANTS
  NoWaiter = none
  Fds = {fd1}
  Events = {"READ", "WRITE"}
  Waiters = {f1, f2, f3}
  Pollers = {p1, p2}
  SingleThread = FALSE
CHECK_DEADLOCK FALSE
INVARIANTS TypeOK OneContextPerWaiter PendingExact KernelAgrees
PROPERTY ReadyIsHandled
