------------------------------- MODULE Reactor -------------------------------
(***************************************************************************)
(* How the parts of an IOManager work together: start() and the handshake  *)
(* with each new thread, the run loop of Scheduler, IOManager::idle() with *)
(* its timeout and wake-up pipe, timers, events and shutdown.  Tasks,      *)
(* timers and events are only counted here; Scheduler, TimerManager and    *)
(* IOManager model what becomes of each.                                   *)
(*                                                                         *)
(* The point is what IOManager::stopping() does not do: it looks at the    *)
(* timers, the pending events and the scheduler one after the other, while *)
(* other threads turn timers and events into tasks and tasks into timers   *)
(* and events.                                                             *)
(***************************************************************************)
EXTENDS Naturals, FiniteSets, Functions

CONSTANTS
  Workers,     \* the threads start() creates
  Caller,      \* the thread that makes and destroys the IOManager
  UseCaller,   \* does it run tasks inside stop()?
  MaxWork      \* bound: tasks, timers and events ever created

ASSUME ReactorAssumption ==
  /\ IsFiniteSet(Workers) /\ Caller \notin Workers
  /\ UseCaller \in BOOLEAN /\ MaxWork \in Nat

RunThreads == Workers \cup (IF UseCaller THEN {Caller} ELSE {})

VARIABLES
  m_tasks,              \* the number of tasks in the list
  m_activeThreadCount,
  m_idleThreadCount,
  m_stopping,
  timers,               \* the size of m_timers
  due,                  \* how many of them have expired
  m_pendingEventCount,
  claimed,              \* events that a thread has in its batch and will handle
  lost,                 \* events that were reported and that nobody will handle
  tickle,               \* is the pipe on epoll's ready list?
  pc,                   \* where each thread is
  batch,                \* what epoll_wait() gave it and it has not processed
  cbs,                  \* expired callbacks a thread has not scheduled yet
  idleTerm,             \* threads whose idle fiber has returned
  m_semaphore,          \* of the Thread that start() is creating
  callerPc,             \* where the caller is: in start(), in stop() or in "main"
  created,              \* tasks, timers and events created so far
  addedLate             \* history: was a timer or event added after stop() was called?

poolVars == <<m_activeThreadCount, m_idleThreadCount, m_stopping>>
sourceVars == <<timers, due, m_pendingEventCount, claimed, lost>>
idleVars == <<batch, cbs, idleTerm>>
clientVars == <<m_semaphore, callerPc, created, addedLate>>
vars == <<m_tasks, poolVars, sourceVars, tickle, pc, idleVars, clientVars>>

Init ==
  /\ m_tasks = 0
  /\ m_activeThreadCount = 0
  /\ m_idleThreadCount = 0
  /\ m_stopping = FALSE
  /\ timers = 0
  /\ due = 0
  /\ m_pendingEventCount = 0
  /\ claimed = 0
  /\ lost = 0
  /\ tickle = FALSE
  /\ pc = [r \in RunThreads |-> "off"]
  /\ batch = [r \in RunThreads |-> {}]
  /\ cbs = [r \in RunThreads |-> 0]
  /\ idleTerm = {}
  /\ m_semaphore = 0
  /\ callerPc = "start"
  /\ created = 0
  /\ addedLate = FALSE

\* start() holds Scheduler::m_mutex until it has created every thread.
Unlocked == callerPc \notin {"start", "wait"}

Goto(r, from, to) == pc[r] = from /\ pc' = [pc EXCEPT ![r] = to]

\* IOManager::tickle(), when it is called: nothing is written to the pipe
\* unless some thread is in its idle fiber.
Tickle(called) == tickle' = (tickle \/ (called /\ m_idleThreadCount > 0))

\* schedule(): one more task, and a wake-up if the list was empty.
Schedule ==
  /\ m_tasks' = m_tasks + 1
  /\ Tickle(m_tasks = 0)

Create == created < MaxWork /\ created' = created + 1

-----------------------------------------------------------------------------
(* Scheduler::start() and Thread, called by IOManager().                   *)

\* The constructor of Thread: pthread_create(), then it waits.
CreateThread(w) ==
  /\ callerPc = "start"
  /\ Goto(w, "off", "new")
  /\ callerPc' = "wait"
  /\ UNCHANGED <<m_tasks, poolVars, sourceVars, tickle, idleVars, m_semaphore, created,
                 addedLate>>

\* Mutant: notify() comes after cb().
MutThreadRun(w) ==
  /\ Goto(w, "new", "fetch")
  /\ UNCHANGED <<m_tasks, poolVars, sourceVars, tickle, idleVars, clientVars>>

\* Thread::run() in the new thread: m_id is set before notify(), cb() comes last.
ThreadRun(w) ==
  /\ Goto(w, "new", "fetch")
  /\ m_semaphore' = m_semaphore + 1
  /\ UNCHANGED <<m_tasks, poolVars, sourceVars, tickle, idleVars, callerPc, created, addedLate>>

\* m_semaphore.wait() returns; start() knows the thread's id.
ThreadCreated ==
  /\ callerPc = "wait"
  /\ m_semaphore > 0
  /\ m_semaphore' = m_semaphore - 1
  /\ callerPc' = "start"
  /\ UNCHANGED <<m_tasks, poolVars, sourceVars, tickle, pc, idleVars, created, addedLate>>

StartEnd ==
  /\ callerPc = "start"
  /\ \A w \in Workers : pc[w] # "off"
  /\ callerPc' = "main"
  /\ UNCHANGED <<m_tasks, poolVars, sourceVars, tickle, pc, idleVars, m_semaphore, created,
                 addedLate>>

-----------------------------------------------------------------------------
(* What the caller and the tasks ask for.                                  *)

AddTask ==
  /\ Create /\ Schedule
  /\ UNCHANGED <<sourceVars, addedLate>>

\* addTimer(); onTimerInsertedAtFront() is called if it is the first one and no
\* earlier call is unanswered.
AddTimer ==
  /\ Create
  /\ timers' = timers + 1
  /\ addedLate' = (addedLate \/ m_stopping)
  /\ \E atFront \in BOOLEAN : Tickle(atFront)
  /\ UNCHANGED <<m_tasks, due, m_pendingEventCount, claimed, lost>>

AddEvent ==
  /\ Create
  /\ m_pendingEventCount' = m_pendingEventCount + 1
  /\ addedLate' = (addedLate \/ m_stopping)
  /\ UNCHANGED <<m_tasks, timers, due, claimed, lost, tickle>>

CallerAdd ==
  /\ callerPc = "main" /\ ~m_stopping
  /\ AddTask \/ AddTimer \/ AddEvent
  /\ UNCHANGED <<poolVars, pc, idleVars, m_semaphore, callerPc>>

User(r) ==
  /\ pc[r] = "user"
  /\ AddTask \/ AddTimer \/ AddEvent
  /\ UNCHANGED <<poolVars, pc, idleVars, m_semaphore, callerPc>>

\* The task returns or yields: --m_activeThreadCount.
Finish(r) ==
  /\ Goto(r, "user", "fetch")
  /\ m_activeThreadCount' = m_activeThreadCount - 1
  /\ UNCHANGED <<m_tasks, m_idleThreadCount, m_stopping, sourceVars, tickle, idleVars,
                 clientVars>>

-----------------------------------------------------------------------------
(* Scheduler::run()                                                        *)

FetchTask(r) ==
  /\ Goto(r, "fetch", "user")
  /\ Unlocked
  /\ m_tasks > 0
  /\ m_tasks' = m_tasks - 1
  /\ m_activeThreadCount' = m_activeThreadCount + 1
  /\ Tickle(m_tasks > 1)
  /\ UNCHANGED <<m_idleThreadCount, m_stopping, sourceVars, idleVars, clientVars>>

\* An idle fiber that has returned ends the loop, but only when there is no task.
FetchNothing(r) ==
  /\ Goto(r, "fetch", IF r \in idleTerm THEN "exit" ELSE "enter")
  /\ Unlocked
  /\ m_tasks = 0
  /\ UNCHANGED <<m_tasks, poolVars, sourceVars, tickle, idleVars, clientVars>>

EnterIdle(r) ==
  /\ Goto(r, "enter", "timers")
  /\ m_idleThreadCount' = m_idleThreadCount + 1
  /\ UNCHANGED <<m_tasks, m_activeThreadCount, m_stopping, sourceVars, tickle, idleVars,
                 clientVars>>

LeaveIdle(r) ==
  /\ Goto(r, "back", "fetch")
  /\ m_idleThreadCount' = m_idleThreadCount - 1
  /\ UNCHANGED <<m_tasks, m_activeThreadCount, m_stopping, sourceVars, tickle, idleVars,
                 clientVars>>

-----------------------------------------------------------------------------
(* IOManager::stopping(timeout), three looks at shared state.              *)

CheckTimers(r) ==
  /\ Goto(r, "timers", IF timers = 0 THEN "pending" ELSE "wait")
  /\ UNCHANGED <<m_tasks, poolVars, sourceVars, tickle, idleVars, clientVars>>

\* Mutant: pending events do not count.
MutCheckPending(r) ==
  /\ Goto(r, "pending", "scheduler")
  /\ UNCHANGED <<m_tasks, poolVars, sourceVars, tickle, idleVars, clientVars>>

CheckPending(r) ==
  /\ Goto(r, "pending", IF m_pendingEventCount = 0 THEN "scheduler" ELSE "wait")
  /\ UNCHANGED <<m_tasks, poolVars, sourceVars, tickle, idleVars, clientVars>>

\* Scheduler::stopping(), under m_mutex.
SchedulerStopping == m_stopping /\ m_tasks = 0 /\ m_activeThreadCount = 0

CheckScheduler(r) ==
  /\ Goto(r, "scheduler", IF SchedulerStopping THEN "back" ELSE "wait")
  /\ idleTerm' = IF SchedulerStopping THEN idleTerm \cup {r} ELSE idleTerm
  /\ UNCHANGED <<m_tasks, poolVars, sourceVars, tickle, batch, cbs, clientVars>>

-----------------------------------------------------------------------------
(* The rest of IOManager::idle()                                           *)

\* What a thread gets from epoll_wait(): the pipe if it is ready, and any number of
\* events.  It will handle the first of them; the others have been reported, edge
\* triggered, and the loop over the batch does not get to them (TriggerEvent).
Report(r, events) ==
  /\ batch' = [batch EXCEPT ![r] = (IF tickle THEN {"pipe"} ELSE {})
                                     \cup (IF events > 0 THEN {"event"} ELSE {})]
  /\ tickle' = FALSE
  /\ claimed' = IF events > 0 THEN claimed + 1 ELSE claimed
  /\ lost' = IF events > 0 THEN lost + (events - 1) ELSE lost

\* Mutant: epoll_wait() without a timeout.
MutEpollWaitForever(r, events) ==
  /\ Goto(r, "wait", "list")
  /\ tickle \/ events > 0
  /\ claimed + lost + events <= m_pendingEventCount
  /\ Report(r, events)
  /\ UNCHANGED <<m_tasks, poolVars, timers, due, m_pendingEventCount, cbs, idleTerm, clientVars>>

\* Mutant: an event that another thread is about to handle is handled again.
MutEpollWaitShared(r, events) ==
  /\ Goto(r, "wait", "list")
  /\ events <= m_pendingEventCount
  /\ Report(r, events)
  /\ UNCHANGED <<m_tasks, poolVars, timers, due, m_pendingEventCount, cbs, idleTerm, clientVars>>

\* epoll_wait() returns with the pipe if it is ready and with those of the events
\* somebody waits for that have happened, or with nothing when the first timer is
\* due or after MAX_TIMEOUT.  (A signal makes the thread wait once more.)
EpollWait(r, events) ==
  /\ Goto(r, "wait", "list")
  /\ claimed + lost + events <= m_pendingEventCount
  /\ Report(r, events)
  /\ UNCHANGED <<m_tasks, poolVars, timers, due, m_pendingEventCount, cbs, idleTerm, clientVars>>

\* More happens on a descriptor whose event was lost: it will be reported again.
NewEdge ==
  /\ lost > 0
  /\ lost' = lost - 1
  /\ UNCHANGED <<m_tasks, poolVars, timers, due, m_pendingEventCount, claimed, tickle, pc,
                 idleVars, clientVars>>

\* listExpiredCb(): what has expired leaves m_timers and is known only to this
\* thread until it has called schedule().
ListExpiredCb(r) ==
  /\ Goto(r, "list", "schedule")
  /\ cbs' = [cbs EXCEPT ![r] = due]
  /\ timers' = timers - due
  /\ due' = 0
  /\ UNCHANGED <<m_tasks, poolVars, m_pendingEventCount, claimed, lost, tickle, batch,
                 idleTerm, clientVars>>

ScheduleCb(r) ==
  /\ pc[r] = "schedule"
  /\ cbs[r] > 0
  /\ cbs' = [cbs EXCEPT ![r] = @ - 1]
  /\ Schedule
  /\ UNCHANGED <<poolVars, sourceVars, pc, batch, idleTerm, clientVars>>

\* No callback is left: the batch is next.
CbsScheduled(r) ==
  /\ Goto(r, "schedule", "batch")
  /\ cbs[r] = 0
  /\ UNCHANGED <<m_tasks, poolVars, sourceVars, tickle, idleVars, clientVars>>

\* The pipe is read empty, and with it any tickle of the meantime.
DrainPipe(r) ==
  /\ pc[r] = "batch"
  /\ "pipe" \in batch[r]
  /\ batch' = [batch EXCEPT ![r] = @ \ {"pipe"}]
  /\ tickle' = FALSE
  /\ UNCHANGED <<m_tasks, poolVars, sourceVars, pc, cbs, idleTerm, clientVars>>

\* triggerEvent() schedules the waiter, then --m_pendingEventCount; what is left
\* of the batch is dropped because ret has been overwritten.
TriggerEvent(r) ==
  /\ Goto(r, "batch", "triggered")
  /\ "event" \in batch[r]
  /\ batch' = [batch EXCEPT ![r] = {}]
  /\ Schedule
  /\ UNCHANGED <<poolVars, sourceVars, cbs, idleTerm, clientVars>>

DecrementPending(r) ==
  /\ Goto(r, "triggered", "back")
  /\ m_pendingEventCount' = m_pendingEventCount - 1
  /\ claimed' = claimed - 1
  /\ UNCHANGED <<m_tasks, poolVars, timers, due, lost, tickle, idleVars, clientVars>>

\* idle() yields to run().
IdleYield(r) ==
  /\ Goto(r, "batch", "back")
  /\ batch[r] = {}
  /\ UNCHANGED <<m_tasks, poolVars, sourceVars, tickle, idleVars, clientVars>>

\* Time passes.
Expire ==
  /\ due < timers
  /\ due' = due + 1
  /\ UNCHANGED <<m_tasks, poolVars, timers, m_pendingEventCount, claimed, lost, tickle, pc,
                 idleVars, clientVars>>

-----------------------------------------------------------------------------
(* Scheduler::stop(), called by ~IOManager().                              *)

StopCall ==
  /\ callerPc = "main" /\ ~m_stopping
  /\ m_stopping' = TRUE
  /\ Tickle(TRUE)
  /\ callerPc' = IF UseCaller THEN "root" ELSE "join"
  /\ pc' = [r \in RunThreads |-> IF r = Caller THEN "fetch" ELSE pc[r]]
  /\ UNCHANGED <<m_tasks, m_activeThreadCount, m_idleThreadCount, sourceVars, idleVars,
                 m_semaphore, created, addedLate>>

RootEnd ==
  /\ callerPc = "root"
  /\ pc[Caller] = "exit"
  /\ callerPc' = "join"
  /\ UNCHANGED <<m_tasks, poolVars, sourceVars, tickle, pc, idleVars, m_semaphore,
                 created, addedLate>>

Join ==
  /\ callerPc = "join"
  /\ \A w \in Workers : pc[w] = "exit"
  /\ callerPc' = "main"
  /\ UNCHANGED <<m_tasks, poolVars, sourceVars, tickle, pc, idleVars, m_semaphore,
                 created, addedLate>>

Stopped == m_stopping /\ callerPc = "main"

-----------------------------------------------------------------------------
Run(r) ==
  \/ FetchTask(r) \/ FetchNothing(r) \/ EnterIdle(r) \/ LeaveIdle(r)
  \/ CheckTimers(r) \/ CheckPending(r) \/ CheckScheduler(r)
  \/ ListExpiredCb(r) \/ ScheduleCb(r) \/ CbsScheduled(r)
  \/ DrainPipe(r) \/ TriggerEvent(r) \/ DecrementPending(r) \/ IdleYield(r)

Next ==
  \/ \E r \in RunThreads :
       Run(r) \/ User(r) \/ Finish(r) \/ \E events \in 0..MaxWork : EpollWait(r, events)
  \/ \E w \in Workers : CreateThread(w) \/ ThreadRun(w)
  \/ ThreadCreated \/ StartEnd
  \/ CallerAdd \/ Expire \/ NewEdge
  \/ StopCall \/ RootEnd \/ Join

Spec == Init /\ [][Next]_vars

\* Threads run, tasks finish, epoll_wait() returns after its timeout, time
\* passes, and whatever an event waits for happens and is reported.  Nothing more
\* needs to happen on the descriptor of a lost event.
Fairness ==
  /\ \A r \in RunThreads :
       /\ WF_vars(Run(r)) /\ WF_vars(Finish(r))
       /\ WF_vars(\E events \in 0..MaxWork : EpollWait(r, events))
  /\ SF_vars(\E r \in RunThreads, events \in 1..MaxWork : EpollWait(r, events))
  /\ \A w \in Workers : WF_vars(ThreadRun(w))
  /\ WF_vars(\E w \in Workers : CreateThread(w)) /\ WF_vars(ThreadCreated) /\ WF_vars(StartEnd)
  /\ WF_vars(Expire) /\ WF_vars(RootEnd) /\ WF_vars(Join)

FairSpec == Spec /\ Fairness

-----------------------------------------------------------------------------
PcValues == {"off", "new", "fetch", "user", "enter", "timers", "pending", "scheduler", "wait",
             "list", "schedule", "batch", "triggered", "back", "exit"}

TypeOK ==
  /\ m_tasks \in Nat /\ m_activeThreadCount \in Nat /\ m_idleThreadCount \in Nat
  /\ m_stopping \in BOOLEAN /\ tickle \in BOOLEAN /\ addedLate \in BOOLEAN
  /\ timers \in Nat /\ due \in Nat /\ m_pendingEventCount \in Nat
  /\ claimed \in Nat /\ lost \in Nat
  /\ pc \in [RunThreads -> PcValues]
  /\ batch \in [RunThreads -> SUBSET {"pipe", "event"}]
  /\ cbs \in [RunThreads -> Nat]
  /\ idleTerm \subseteq RunThreads
  /\ m_semaphore \in Nat
  /\ callerPc \in {"start", "wait", "main", "root", "join"}
  /\ created \in 0..MaxWork

\* Is anything left to do, wherever it is kept?
Work ==
  \/ m_tasks > 0 \/ timers > 0 \/ m_pendingEventCount > 0
  \/ \E r \in RunThreads : cbs[r] > 0 \/ pc[r] = "user"

\* When stop() returns, and ~IOManager() goes on to close the epoll descriptor,
\* every timer and event added before stop() was called is done with, and so is
\* every task: IOManager::stopping() keeps some thread until then, although it
\* is three looks at shared state and other threads turn timers and events into
\* tasks in between.  (After stop() was called a task may still add a timer or
\* an event that nobody waits for.)
StopDrains == Stopped /\ ~addedLate => ~Work

\* start() returns: it holds m_mutex while it waits for each new thread's
\* notify(), so no thread may need m_mutex before it has notified.
StartReturns == <>(callerPc = "main")

\* stop() returns if the tasks finish, the timers are not recurring and the
\* events happen, unless an event was reported behind another one in the batch of
\* epoll_wait(): the overwritten ret drops it, it stays pending, and stop() waits
\* until more happens on that descriptor.
StopReturns == m_stopping ~> (Stopped \/ lost > 0)

\* The list is emptied again and again, although a tickle may be lost between a
\* thread's look at the list and ++m_idleThreadCount, or be read from the pipe
\* by a thread that was awake already.
TasksAreTaken == (Workers # {}) => []<>(m_tasks = 0)
=============================================================================
