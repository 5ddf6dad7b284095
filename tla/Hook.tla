-------------------------------- MODULE Hook --------------------------------
(***************************************************************************)
(* The calls of hook.cpp that may suspend a fiber: do_io(), which read(),  *)
(* write(), accept() and the others share, connect_with_timeout() and the  *)
(* sleep functions.  Each fiber has a socket of its own, known to          *)
(* FdManager and not made non-blocking by the user.                        *)
(*                                                                         *)
(* Of IOManager, TimerManager and Scheduler only what the calls see is     *)
(* kept: a registered fiber is scheduled when its event happens or is      *)
(* cancelled, an expired timer runs its callback, and threads take fibers  *)
(* from the list, whose order does not matter here.                        *)
(***************************************************************************)
EXTENDS Naturals, Bags

CONSTANTS
  Threads,
  Fibers,
  NoFiber,     \* a thread without fiber
  Timeout,     \* BOOLEAN: is there a timeout (SO_RCVTIMEO, SO_SNDTIMEO, tcp.connect.timeout)?
  MaxCalls     \* bound: calls of each fiber

VARIABLES
  state,       \* Fiber::m_state
  on,          \* the fiber each thread runs
  m_tasks,     \* fibers in the scheduler's list
  pc,          \* where each fiber is in its code
  call,        \* the call it is in: "read" and "write" are do_io()
  calls,       \* how many calls it has made
  waiting,     \* IOManager: which fibers are registered for which events
  ready,       \* kernel: what the sockets of the fibers are ready for
  timer,       \* of its call: "none", "armed", or "expired": the callback is to
               \* run as a task
  sleepers,    \* fibers that armed timers are going to schedule
  cancelled,   \* TimerInfo::cancelled
  faults       \* failed assertions; the program has aborted

schedVars == <<state, on, m_tasks>>
callVars == <<pc, call, calls>>
vars == <<schedVars, callVars, waiting, ready, timer, sleepers, cancelled, faults>>

Init ==
  /\ state = [f \in Fibers |-> "READY"]
  /\ on = [t \in Threads |-> NoFiber]
  /\ m_tasks = SetToBag(Fibers)
  /\ pc = [f \in Fibers |-> "user"]
  /\ call = [f \in Fibers |-> "read"]
  /\ calls = [f \in Fibers |-> 0]
  /\ waiting = {}
  /\ ready = {}
  /\ timer = [f \in Fibers |-> "none"]
  /\ sleepers = EmptyBag
  /\ cancelled = [f \in Fibers |-> FALSE]
  /\ faults = {}

Schedule(f) == m_tasks' = m_tasks (+) SetToBag({f})

Fault(assertion) == faults' = faults \cup {assertion}

\* f runs and is at that point of its code.
At(f, where) == pc[f] = where /\ \E t \in Threads : on[t] = f

Goto(f, where) == pc' = [pc EXCEPT ![f] = where]

\* A call returns.  Its timer is cancelled; a callback that is in the list already
\* finds the TimerInfo gone and does nothing.
Return(f) ==
  /\ Goto(f, "user")
  /\ timer' = [timer EXCEPT ![f] = "none"]

\* Fiber::yield() and the thread's return to Scheduler::run().
Yield(f, where, newState) ==
  /\ Goto(f, where)
  /\ state' = [state EXCEPT ![f] = newState]
  /\ on' = [t \in Threads |-> IF on[t] = f THEN NoFiber ELSE on[t]]

-----------------------------------------------------------------------------
(* Scheduler::run()                                                        *)

\* It asserts that a fiber it takes is READY.
RunFiber(t, f) ==
  /\ on[t] = NoFiber
  /\ BagIn(f, m_tasks)
  /\ m_tasks' = m_tasks (-) SetToBag({f})
  /\ IF state[f] = "READY"
     THEN /\ state' = [state EXCEPT ![f] = "RUNNING"]
          /\ on' = [on EXCEPT ![t] = f]
          /\ UNCHANGED faults
     ELSE Fault("scheduler.cpp:143") /\ UNCHANGED <<state, on>>
  /\ UNCHANGED <<callVars, waiting, ready, timer, sleepers, cancelled>>

\* The fiber's function returns.
Term(f) ==
  /\ At(f, "user")
  /\ Yield(f, "done", "TERM")
  /\ UNCHANGED <<m_tasks, call, calls, waiting, ready, timer, sleepers, cancelled, faults>>

-----------------------------------------------------------------------------
(* do_io() and connect_with_timeout()                                      *)

\* The event the call waits for, on the fiber's socket.
Event(f) == <<f, IF call[f] = "read" THEN "READ" ELSE "WRITE">>

\* The call begins with a TimerInfo of its own.
Call(f, c) ==
  /\ At(f, "user")
  /\ calls[f] < MaxCalls
  /\ calls' = [calls EXCEPT ![f] = @ + 1]
  /\ call' = [call EXCEPT ![f] = c]
  /\ Goto(f, IF c \in {"read", "write"} THEN "try" ELSE c)
  /\ cancelled' = [cancelled EXCEPT ![f] = FALSE]
  /\ UNCHANGED <<schedVars, waiting, ready, timer, sleepers, faults>>

\* addConditionTimer().  A callback of an earlier attempt that is still to run
\* stands for the new timer, too: they share the TimerInfo.
Arm(f) ==
  timer' = IF Timeout /\ timer[f] = "none" THEN [timer EXCEPT ![f] = "armed"] ELSE timer

\* do_io(): the system call succeeds, and may use up what was ready, or says
\* EAGAIN and the timer is armed.  EINTR only repeats it.
Try(f) ==
  /\ At(f, "try")
  /\ IF Event(f) \in ready
     THEN Return(f) /\ ready' \in {ready, ready \ {Event(f)}}
     ELSE Goto(f, "addEvent") /\ Arm(f) /\ UNCHANGED ready
  /\ UNCHANGED <<schedVars, call, calls, waiting, sleepers, cancelled, faults>>

\* connect_f() succeeds at once, or says EINPROGRESS and the timer is armed.
Connect(f) ==
  /\ At(f, "connect")
  /\ IF Event(f) \in ready THEN Return(f) ELSE Goto(f, "addEvent") /\ Arm(f)
  /\ UNCHANGED <<schedVars, call, calls, waiting, ready, sleepers, cancelled, faults>>

\* iom->addEvent() returns true, which both callers take for an error: do_io()
\* returns -1, connect_with_timeout() goes on to getsockopt(SO_ERROR).  A second
\* registration fails addEvent()'s assertion.
AddEvent(f) ==
  /\ At(f, "addEvent")
  /\ IF Event(f) \in waiting
     THEN Fault("iomanager.cpp:153") /\ UNCHANGED <<waiting, timer, pc>>
     ELSE waiting' = waiting \cup {Event(f)} /\ Return(f) /\ UNCHANGED faults
  /\ UNCHANGED <<schedVars, call, calls, ready, sleepers, cancelled>>

\* iom->addEvent() returns false because epoll_ctl() failed: the fiber yields.
AddEventFails(f) ==
  /\ At(f, "addEvent") /\ Event(f) \notin waiting
  /\ Yield(f, "resumed", "READY")
  /\ UNCHANGED <<m_tasks, call, calls, waiting, ready, timer, sleepers, cancelled, faults>>

\* Resumed, do_io() cancels the timer, too late if the callback is in the list.
\* After a timeout it returns, otherwise it tries again.
Resumed(f) ==
  /\ At(f, "resumed") /\ call[f] # "connect"
  /\ IF cancelled[f] THEN Return(f)
     ELSE /\ Goto(f, "try")
          /\ timer' = IF timer[f] = "armed" THEN [timer EXCEPT ![f] = "none"] ELSE timer
  /\ UNCHANGED <<schedVars, call, calls, waiting, ready, sleepers, cancelled, faults>>

\* connect_with_timeout() returns either way.
ConnectResumed(f) ==
  /\ At(f, "resumed") /\ call[f] = "connect"
  /\ Return(f)
  /\ UNCHANGED <<schedVars, call, calls, waiting, ready, sleepers, cancelled, faults>>

-----------------------------------------------------------------------------
(* sleep(), usleep(), nanosleep()                                          *)

Sleep(f) ==
  /\ At(f, "sleep")
  /\ sleepers' = sleepers (+) SetToBag({f})
  /\ Goto(f, "sleepYield")
  /\ UNCHANGED <<schedVars, call, calls, waiting, ready, timer, cancelled, faults>>

SleepYield(f) ==
  /\ At(f, "sleepYield")
  /\ Yield(f, "slept", "READY")
  /\ UNCHANGED <<m_tasks, call, calls, waiting, ready, timer, sleepers, cancelled, faults>>

Slept(f) ==
  /\ At(f, "slept")
  /\ Return(f)
  /\ UNCHANGED <<schedVars, call, calls, waiting, ready, sleepers, cancelled, faults>>

-----------------------------------------------------------------------------
(* Timers and events.                                                      *)

\* The timer of a sleep schedules the fiber.
Wake(f) ==
  /\ BagIn(f, sleepers)
  /\ sleepers' = sleepers (-) SetToBag({f})
  /\ Schedule(f)
  /\ UNCHANGED <<state, on, callVars, waiting, ready, timer, cancelled, faults>>

TimerExpires(f) ==
  /\ timer[f] = "armed"
  /\ timer' = [timer EXCEPT ![f] = "expired"]
  /\ UNCHANGED <<schedVars, callVars, waiting, ready, sleepers, cancelled, faults>>

\* The callback of a call that has not returned: cancelEvent() schedules the
\* fiber if it is registered.
TimerCallback(f) ==
  /\ timer[f] = "expired"
  /\ timer' = [timer EXCEPT ![f] = "none"]
  /\ IF cancelled[f] THEN UNCHANGED <<cancelled, waiting, m_tasks>>
     ELSE /\ cancelled' = [cancelled EXCEPT ![f] = TRUE]
          /\ waiting' = waiting \ {Event(f)}
          /\ IF Event(f) \in waiting THEN Schedule(f) ELSE UNCHANGED m_tasks
  /\ UNCHANGED <<state, on, callVars, ready, sleepers, faults>>

BecomeReady(f, event) ==
  /\ <<f, event>> \notin ready
  /\ ready' = ready \cup {<<f, event>>}
  /\ UNCHANGED <<schedVars, callVars, waiting, timer, sleepers, cancelled, faults>>

\* idle() schedules the fiber that is registered.
TriggerEvent(f, event) ==
  /\ <<f, event>> \in ready \cap waiting
  /\ waiting' = waiting \ {<<f, event>>}
  /\ Schedule(f)
  /\ UNCHANGED <<state, on, callVars, ready, timer, sleepers, cancelled, faults>>

-----------------------------------------------------------------------------
Next ==
  /\ faults = {}
  /\ \E f \in Fibers :
       \/ \E t \in Threads : RunFiber(t, f)
       \/ Term(f)
       \/ \E c \in {"read", "write", "connect", "sleep"} : Call(f, c)
       \/ Try(f) \/ Connect(f) \/ AddEvent(f) \/ AddEventFails(f)
       \/ Resumed(f) \/ ConnectResumed(f)
       \/ Sleep(f) \/ SleepYield(f) \/ Slept(f)
       \/ Wake(f) \/ TimerExpires(f) \/ TimerCallback(f)
       \/ \E event \in {"READ", "WRITE"} : BecomeReady(f, event) \/ TriggerEvent(f, event)

Spec == Init /\ [][Next]_vars

-----------------------------------------------------------------------------
\* No assertion fails: a fiber that is in a hooked call, or has returned from it,
\* is not scheduled a second time and is not registered twice.
NoFault == faults = {}
=============================================================================
