SPECIFICATION FairSpec
CONSTANTS
  NoWaiter = none
  Fds = {fd1, fd2}
  Events = {"READ"}
  Waiters = {f1, f2}
  Pollers = {p1}
  SingleThread = TRUE
CHECK_DEADLOCK FALSE
PROPERTY ReadyIsHandled
