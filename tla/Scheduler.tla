------------------------------ MODULE Scheduler ------------------------------
(***************************************************************************)
(* sylar::Scheduler (scheduler.h, scheduler.cpp): a pool of threads that   *)
(* run fibers and callbacks taken from one FIFO list, and the protocol by  *)
(* which stop() lets every thread leave run().                             *)
(*                                                                         *)
(* Every section of the code that holds m_mutex is one action.  The fiber  *)
(* operations resume() and yield() are split where another thread can see  *)
(* the difference: m_state is written before swapcontext() has saved the   *)
(* stack, so a yielding fiber passes through the program point "switch".   *)
(*                                                                         *)
(* start() holds m_mutex until every worker exists and a worker's first    *)
(* access to shared state needs m_mutex, so start() is one action.  The    *)
(* base class's tickle() only logs.                                        *)
(***************************************************************************)
EXTENDS Naturals, Sequences, FiniteSets, SequencesExt

CONSTANTS
  Workers,     \* the threads start() creates
  Caller,      \* the thread that calls schedule(), start() and stop()
  UseCaller,   \* does the caller run the root fiber inside stop()?
  Tasks,       \* what the client may schedule
  Fibers,      \* the tasks scheduled as Fiber::ptr; the others are callbacks
  AnyThread,   \* m_threadId = -1
  NoTask,      \* run()'s local ScheduleTask after reset()
  Requeue,     \* threads a running fiber may name when it reschedules itself:
               \* a subset of {"own", "any"}
  Park,        \* may a fiber yield and wait for another task to schedule it?
  MaxYields    \* bound: how often one fiber yields

RunThreads == Workers \cup (IF UseCaller THEN {Caller} ELSE {})

ThreadIds == RunThreads \cup {AnyThread}

ASSUME SchedulerAssumption ==
  /\ IsFiniteSet(Workers)
  /\ UseCaller \in BOOLEAN
  /\ Park \in BOOLEAN
  /\ MaxYields \in Nat
  /\ Requeue \subseteq {"own", "any"}
  /\ Fibers \subseteq Tasks
  /\ NoTask \notin Tasks
  /\ Caller \notin Workers
  /\ AnyThread \notin Workers \cup {Caller}

\* ScheduleTask: exactly one of m_fiber and m_cb is set.
ScheduleTask == [id : Tasks, fiber : BOOLEAN, threadId : ThreadIds]

ResetTask == [id |-> NoTask, fiber |-> FALSE, threadId |-> AnyThread]

VARIABLES
  m_tasks,              \* the list of tasks waiting for a thread
  m_activeThreadCount,  \* threads between taking a task and giving it up
  m_idleThreadCount,    \* threads inside their idle fiber
  m_stopping,           \* set by stop(), never reset
  m_state,              \* Fiber::State; "NONE": no Fiber was made for the task
  parked,               \* fibers that yield until another task schedules them
  yields,               \* how often each fiber has yielded
  pc,                   \* where each thread is in run()
  task,                 \* run()'s local variable task
  idleTerm,             \* threads whose idle fiber has returned
  callerPc,             \* the caller: "main", in the root fiber, or joining
  faults                \* a failed SYLAR_ASSERT or a broken context: all is over

vars == <<m_tasks, m_activeThreadCount, m_idleThreadCount, m_stopping, m_state,
          parked, yields, pc, task, idleTerm, callerPc, faults>>

poolVars == <<m_activeThreadCount, m_idleThreadCount, m_stopping>>
fiberVars == <<m_state, parked, yields>>

TaskPcs == {"resume", "user", "yield", "switch", "dec"}
IdlePcs == {"idle", "idleBack"}
PcValues == TaskPcs \cup IdlePcs \cup {"off", "fetch", "noTask", "exit"}

At(points) == {r \in RunThreads : pc[r] \in points}

Init ==
  /\ m_tasks = <<>>
  /\ m_activeThreadCount = 0
  /\ m_idleThreadCount = 0
  /\ m_stopping = FALSE
  /\ m_state = [t \in Tasks |-> IF t \in Fibers THEN "READY" ELSE "NONE"]
  /\ parked = {}
  /\ yields = [t \in Tasks |-> 0]
  /\ pc = [r \in RunThreads |-> "off"]
  /\ task = [r \in RunThreads |-> ResetTask]
  /\ idleTerm = {}
  /\ callerPc = "main"
  /\ faults = {}

\* Thread r goes from one program point to another; nothing moves after an abort.
Step(r, from, to) ==
  /\ faults = {}
  /\ pc[r] = from
  /\ pc' = [pc EXCEPT ![r] = to]

CallerAt(point) == faults = {} /\ callerPc = point

-----------------------------------------------------------------------------
(* schedule() and the client code that calls it.                           *)

Queued(t) == \E i \in DOMAIN m_tasks : m_tasks[i].id = t

OnThread(t) == \E r \in RunThreads : pc[r] \in TaskPcs /\ task[r].id = t

\* A task the client has not scheduled yet.
Fresh(t) ==
  /\ ~Queued(t) /\ ~OnThread(t)
  /\ t \notin parked
  /\ yields[t] = 0
  /\ m_state[t] = IF t \in Fibers THEN "READY" ELSE "NONE"

\* Thread ids a client can name: a worker's id exists once start() made it.
Nameable(id) == id \in Workers => pc[id] # "off"

\* schedule() under m_mutex; scheduleNoLock() appends to the list.
ScheduleNoLock(t, isFiber, id) ==
  m_tasks' = Append(m_tasks, [id |-> t, fiber |-> isFiber, threadId |-> id])

\* The caller schedules a new task; it does so only before it calls stop().
CallerSchedule(t, id) ==
  /\ CallerAt("main")
  /\ ~m_stopping
  /\ Fresh(t) /\ Nameable(id)
  /\ ScheduleNoLock(t, t \in Fibers, id)
  /\ UNCHANGED <<poolVars, fiberVars, pc, task, idleTerm, callerPc, faults>>

Running(r) == faults = {} /\ pc[r] = "user"

\* A running task schedules a new one.
UserSchedule(r, t, id) ==
  /\ Running(r)
  /\ Fresh(t) /\ Nameable(id)
  /\ ScheduleNoLock(t, t \in Fibers, id)
  /\ UNCHANGED <<poolVars, fiberVars, pc, task, idleTerm, callerPc, faults>>

\* Scheduler::GetThis()->schedule(Fiber::GetThis()[, GetThreadId()]), followed
\* by Fiber::GetThis()->yield(): the pattern of tests/test_scheduler.cpp.
UserReschedule(r, where) ==
  /\ Step(r, "user", "yield")
  /\ where \in Requeue
  /\ yields[task[r].id] < MaxYields
  /\ yields' = [yields EXCEPT ![task[r].id] = @ + 1]
  /\ ScheduleNoLock(task[r].id, TRUE, IF where = "own" THEN r ELSE AnyThread)
  /\ UNCHANGED <<poolVars, m_state, parked, task, idleTerm, callerPc, faults>>

\* A fiber whose Fiber::ptr the client keeps yields until it is scheduled
\* again: its pointer is published before it yields.
UserPark(r) ==
  /\ Step(r, "user", "yield")
  /\ Park
  /\ task[r].id \in Fibers
  /\ yields[task[r].id] < MaxYields
  /\ yields' = [yields EXCEPT ![task[r].id] = @ + 1]
  /\ parked' = parked \cup {task[r].id}
  /\ UNCHANGED <<m_tasks, poolVars, m_state, task, idleTerm, callerPc, faults>>

\* A running task schedules a fiber that waits for it.
UserWake(r, t, id) ==
  /\ Running(r)
  /\ t \in parked /\ Nameable(id)
  /\ parked' = parked \ {t}
  /\ ScheduleNoLock(t, TRUE, id)
  /\ UNCHANGED <<poolVars, m_state, yields, pc, task, idleTerm, callerPc, faults>>

-----------------------------------------------------------------------------
(* The loop of run().                                                      *)

\* Mutant: only the head of the list is examined.
MutEligibleHead(r) ==
  {i \in DOMAIN m_tasks : i = 1 /\ m_tasks[i].threadId \in {AnyThread, r}}

\* Mutant: the thread id of a task is ignored.
MutEligibleAll(r) == DOMAIN m_tasks

\* The list positions thread r may take.
Eligible(r) == {i \in DOMAIN m_tasks : m_tasks[i].threadId \in {AnyThread, r}}

\* Mutant: ++m_activeThreadCount is missing.
MutFetchTask(r) ==
  /\ Step(r, "fetch", "resume")
  /\ \E i \in Eligible(r) :
       /\ \A j \in Eligible(r) : i <= j
       /\ task' = [task EXCEPT ![r] = m_tasks[i]]
       /\ m_tasks' = RemoveAt(m_tasks, i)
  /\ UNCHANGED <<poolVars, fiberVars, idleTerm, callerPc, faults>>

\* The first eligible task leaves the list, under m_mutex.
FetchTask(r) ==
  /\ Step(r, "fetch", "resume")
  /\ \E i \in Eligible(r) :
       /\ \A j \in Eligible(r) : i <= j
       /\ faults' = IF m_tasks[i].fiber /\ m_state[m_tasks[i].id] # "READY"
                     THEN {"run: task fiber is READY"}
                     ELSE {}
       /\ task' = [task EXCEPT ![r] = m_tasks[i]]
       /\ m_tasks' = RemoveAt(m_tasks, i)
  /\ m_activeThreadCount' = m_activeThreadCount + 1
  /\ UNCHANGED <<m_idleThreadCount, m_stopping, fiberVars, idleTerm, callerPc>>

FetchNothing(r) ==
  /\ Step(r, "fetch", "noTask")
  /\ Eligible(r) = {}
  /\ UNCHANGED <<m_tasks, poolVars, fiberVars, task, idleTerm, callerPc, faults>>

\* Is another thread still inside the swapcontext() that saves t's stack?
HalfSwitched(r, t) ==
  \E q \in RunThreads \ {r} : task[q].id = t /\ pc[q] \in {"user", "yield", "switch"}

\* Fiber::resume() on the task's fiber; a callback first gets a new Fiber.
Resume(r) ==
  LET t == task[r].id
      before == IF task[r].fiber THEN m_state[t] ELSE "READY"
  IN /\ Step(r, "resume", "user")
     /\ faults' = IF before # "READY" THEN {"resume: fiber is neither TERM nor RUNNING"}
                   ELSE IF HalfSwitched(r, t) THEN {"resume: the context is saved"}
                   ELSE {}
     /\ m_state' = [m_state EXCEPT ![t] = "RUNNING"]
     /\ UNCHANGED <<m_tasks, poolVars, parked, yields, task, idleTerm, callerPc>>

\* Mutant: yield() leaves the state RUNNING.
MutYield(r) ==
  /\ Step(r, "yield", "switch")
  /\ UNCHANGED <<m_tasks, poolVars, fiberVars, task, idleTerm, callerPc, faults>>

\* Fiber::yield() called by the task: READY is visible before the switch.
Yield(r) ==
  /\ Step(r, "yield", "switch")
  /\ m_state' = [m_state EXCEPT ![task[r].id] = "READY"]
  /\ UNCHANGED <<m_tasks, poolVars, parked, yields, task, idleTerm, callerPc, faults>>

\* Mutant: MainFunc() does not mark the fiber TERM, so its last yield makes it
\* READY.
MutFinish(r) ==
  /\ Step(r, "user", "switch")
  /\ m_state' = [m_state EXCEPT ![task[r].id] = "READY"]
  /\ UNCHANGED <<m_tasks, poolVars, parked, yields, task, idleTerm, callerPc, faults>>

\* The task returns: Fiber::MainFunc() sets TERM and yields for the last time.
Finish(r) ==
  /\ Step(r, "user", "switch")
  /\ m_state' = [m_state EXCEPT ![task[r].id] = "TERM"]
  /\ UNCHANGED <<m_tasks, poolVars, parked, yields, task, idleTerm, callerPc, faults>>

\* swapcontext() is done: the thread is back in run(), after resume().
Switched(r) ==
  /\ Step(r, "switch", "dec")
  /\ UNCHANGED <<m_tasks, poolVars, fiberVars, task, idleTerm, callerPc, faults>>

\* --m_activeThreadCount, then the local task is reset.
Deactivate(r) ==
  /\ Step(r, "dec", "fetch")
  /\ m_activeThreadCount' = m_activeThreadCount - 1
  /\ task' = [task EXCEPT ![r] = ResetTask]
  /\ UNCHANGED <<m_tasks, m_idleThreadCount, m_stopping, fiberVars, idleTerm, callerPc,
                 faults>>

\* Nothing to do: resume the idle fiber, or leave run() if it has returned.
EnterIdle(r) ==
  /\ Step(r, "noTask", "idle")
  /\ r \notin idleTerm
  /\ m_idleThreadCount' = m_idleThreadCount + 1
  /\ UNCHANGED <<m_tasks, m_activeThreadCount, m_stopping, fiberVars, task, idleTerm,
                 callerPc, faults>>

LeaveRun(r) ==
  /\ Step(r, "noTask", "exit")
  /\ r \in idleTerm
  /\ UNCHANGED <<m_tasks, poolVars, fiberVars, task, idleTerm, callerPc, faults>>

\* Mutants: running tasks are not waited for; idle threads are.
MutStoppingBusy == m_stopping /\ m_tasks = <<>>

MutStoppingIdle ==
  m_stopping /\ m_tasks = <<>> /\ m_activeThreadCount = 0 /\ m_idleThreadCount = 0

\* stopping(), evaluated under m_mutex.
Stopping ==
  /\ m_stopping
  /\ m_tasks = <<>>
  /\ m_activeThreadCount = 0

\* One round of idle(): the fiber returns if stopping(), otherwise it yields.
IdleRound(r) ==
  /\ Step(r, "idle", "idleBack")
  /\ idleTerm' = IF Stopping THEN idleTerm \cup {r} ELSE idleTerm
  /\ UNCHANGED <<m_tasks, poolVars, fiberVars, task, callerPc, faults>>

\* Mutant: the wrong counter is lowered.
MutLeaveIdle(r) ==
  /\ Step(r, "idleBack", "fetch")
  /\ m_activeThreadCount' = m_activeThreadCount - 1
  /\ UNCHANGED <<m_tasks, m_idleThreadCount, m_stopping, fiberVars, task, idleTerm,
                 callerPc, faults>>

LeaveIdle(r) ==
  /\ Step(r, "idleBack", "fetch")
  /\ m_idleThreadCount' = m_idleThreadCount - 1
  /\ UNCHANGED <<m_tasks, m_activeThreadCount, m_stopping, fiberVars, task, idleTerm,
                 callerPc, faults>>

-----------------------------------------------------------------------------
(* The caller's start() and stop().                                        *)

Start ==
  /\ CallerAt("main")
  /\ ~m_stopping
  /\ \A w \in Workers : pc[w] = "off"
  /\ pc' = [r \in RunThreads |-> IF r \in Workers THEN "fetch" ELSE pc[r]]
  /\ UNCHANGED <<m_tasks, poolVars, fiberVars, task, idleTerm, callerPc, faults>>

\* stop() up to the point where it waits: a call that finds stopping() true
\* returns at once.
StopCall ==
  /\ CallerAt("main")
  /\ ~Stopping
  /\ m_stopping' = TRUE
  /\ callerPc' = IF UseCaller THEN "root" ELSE "join"
  /\ pc' = [r \in RunThreads |-> IF r = Caller /\ pc[r] = "off" THEN "fetch" ELSE pc[r]]
  /\ faults' = IF UseCaller /\ pc[Caller] # "off"
               THEN {"resume: fiber is neither TERM nor RUNNING"}
               ELSE {}
  /\ UNCHANGED <<m_tasks, m_activeThreadCount, m_idleThreadCount, fiberVars, task, idleTerm>>

\* The root fiber has returned from run() and stop() goes on.
RootEnd ==
  /\ CallerAt("root")
  /\ pc[Caller] = "exit"
  /\ callerPc' = "join"
  /\ UNCHANGED <<m_tasks, poolVars, fiberVars, pc, task, idleTerm, faults>>

\* Thread::join() on every worker that was started; stop() returns.
Join ==
  /\ CallerAt("join")
  /\ \A w \in Workers : pc[w] \in {"off", "exit"}
  /\ callerPc' = "main"
  /\ UNCHANGED <<m_tasks, poolVars, fiberVars, pc, task, idleTerm, faults>>

-----------------------------------------------------------------------------
User(r) ==
  \/ \E t \in Tasks, id \in ThreadIds : UserSchedule(r, t, id) \/ UserWake(r, t, id)
  \/ \E where \in {"own", "any"} : UserReschedule(r, where)
  \/ UserPark(r)
  \/ Finish(r)

\* The steps of the library code on thread r, between those of the client.
Run(r) ==
  \/ FetchTask(r) \/ FetchNothing(r)
  \/ Resume(r) \/ Yield(r) \/ Switched(r) \/ Deactivate(r)
  \/ EnterIdle(r) \/ IdleRound(r) \/ LeaveIdle(r) \/ LeaveRun(r)

CallerStep ==
  \/ \E t \in Tasks, id \in ThreadIds : CallerSchedule(t, id)
  \/ Start
  \/ StopCall \/ RootEnd \/ Join

\* stop() has returned.
Stopped == m_stopping /\ callerPc = "main"

\* The program is over; the stutter keeps TLC's deadlock check for the rest.
Terminated == Stopped /\ UNCHANGED vars

Next ==
  \/ \E r \in RunThreads : Run(r) \/ User(r)
  \/ CallerStep
  \/ Terminated

Spec == Init /\ [][Next]_vars

\* The operating system runs every thread, a task that runs makes progress
\* (it yields a bounded number of times), and stop() goes on when it can.
Fairness ==
  /\ \A r \in RunThreads : WF_vars(Run(r)) /\ WF_vars(User(r))
  /\ WF_vars(RootEnd) /\ WF_vars(Join)

FairSpec == Spec /\ Fairness

-----------------------------------------------------------------------------
(* Properties.                                                             *)

TypeOK ==
  /\ m_tasks \in Seq(ScheduleTask)
  /\ m_activeThreadCount \in Nat
  /\ m_idleThreadCount \in Nat
  /\ m_stopping \in BOOLEAN
  /\ m_state \in [Tasks -> {"NONE", "READY", "RUNNING", "TERM"}]
  /\ parked \subseteq Tasks
  /\ yields \in [Tasks -> Nat]
  /\ pc \in [RunThreads -> PcValues]
  /\ task \in [RunThreads -> ScheduleTask \cup {ResetTask}]
  /\ \A r \in RunThreads : pc[r] \in TaskPcs => task[r] \in ScheduleTask
  /\ idleTerm \subseteq RunThreads
  /\ callerPc \in {"main", "root", "join"}

\* m_activeThreadCount, raised under m_mutex and lowered without it, counts the
\* threads that hold a task; m_idleThreadCount those inside the idle fiber.
ActiveCount ==
  /\ m_activeThreadCount = Cardinality(At(TaskPcs))
  /\ m_idleThreadCount = Cardinality(At(IdlePcs))

\* Once one thread's idle fiber has returned there is no work left and none can
\* appear: the list is empty and no thread holds a task that could schedule
\* more.  It makes it safe that the threads leave run() one by one.
QuiescentExit ==
  idleTerm # {} =>
    /\ m_stopping
    /\ m_tasks = <<>>
    /\ m_activeThreadCount = 0

\* The SYLAR_ASSERTs of run() and Fiber::resume() hold, and no thread resumes a
\* fiber that another one is still leaving.
NoFault == faults = {}

\* The pool as its clients see it: a task counts as ready from the moment it is
\* in the list, even while the thread it leaves has not switched away from it.
Phase(t) ==
  CASE Queued(t) -> "ready"
    [] ~Queued(t) /\ t \in parked -> "parked"
    [] ~Queued(t) /\ t \notin parked /\ m_state[t] = "TERM" -> "done"
    [] ~Queued(t) /\ t \notin parked /\ m_state[t] # "TERM" /\ OnThread(t) -> "running"
    [] OTHER -> "new"

Owner(t) ==
  IF Phase(t) = "running"
  THEN CHOOSE r \in RunThreads : pc[r] \in TaskPcs /\ task[r].id = t
  ELSE NoTask

Affinity(t) ==
  IF Queued(t)
  THEN m_tasks[CHOOSE i \in DOMAIN m_tasks : m_tasks[i].id = t].threadId
  ELSE AnyThread

Pool == INSTANCE TaskPool WITH
  Threads <- RunThreads,
  NoThread <- NoTask,
  phase <- [t \in Tasks |-> Phase(t)],
  owner <- [t \in Tasks |-> Owner(t)],
  affinity <- [t \in Tasks |-> Affinity(t)],
  closed <- idleTerm # {}

\* The scheduler implements the task pool, which is closed when the first idle
\* fiber returns: no task is lost, run twice, run on a thread it is not meant
\* for, or still waiting when the pool shuts down.
ImplementsTaskPool == Pool!Spec

\* stop() returns: every thread finds out that the work is done and leaves.
StopReturns == m_stopping ~> Stopped

\* A task in the list is taken as soon as a thread that may run it is in run(),
\* also when it waits behind tasks meant for other threads.
Takeable(t) ==
  \E i \in DOMAIN m_tasks, r \in RunThreads :
    m_tasks[i].id = t /\ m_tasks[i].threadId \in {AnyThread, r} /\ pc[r] # "off"

QueuedTaskRuns == \A t \in Tasks : Takeable(t) ~> ~Queued(t)
=============================================================================
