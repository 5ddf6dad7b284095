# Verification of sylar

sylar is a C++ server library: fibers on top of `ucontext`, a scheduler that
runs them on a pool of threads, timers, an `epoll` reactor, and hooks that turn
blocking system calls into suspensions of a fiber. This directory holds TLA+
modules of its concurrent core and of its start-up (command line, configuration
files, loggers), TLC configurations that check them on small instances, and
TLAPS proofs. `PROJECT.json` maps every definition to the source
lines it models, lists the runs with their properties, the findings, the
hazards of the code and the theorems.

    tlc -workers 2 -config Scheduler_threads.cfg MCScheduler
    tlapm SchedulerProofs.tla

The other runs have the module and the configuration that `PROJECT.json` names;
the other proof modules are `FiberProofs`, `TimerManagerProofs`,
`IOManagerProofs`, `ReactorProofs`, `FdManagerProofs`, `LogFormatterProofs` and
`ConfigProofs`.

## 1. Inventory

| component | state it keeps | operations | depends on |
|---|---|---|---|
| Scheduler (`scheduler.*`) | `m_tasks` (FIFO list with an optional thread per task), `m_activeThreadCount`, `m_idleThreadCount`, `m_stopping`, the threads, the caller's root fiber | `schedule`, `start`, `stop`, `run`, `idle`, `stopping`, `tickle` | Fiber, Thread |
| Fiber (`fiber.*`) | `m_state` (READY, RUNNING, TERM), saved context, stack; per thread the running fiber and the main fiber | constructors, destructor, `GetThis`, `resume`, `yield`, `MainFunc`, `reset` | thread-local pointers, Scheduler |
| Timer, TimerManager (`timer.*`) | `m_timers` ordered by time and address, `m_tickled`, `m_previousTime`; per timer `m_next`, `m_interval`, `m_recurring`, `m_cb` | `addTimer`, `addConditionTimer`, `cancel`, `refresh`, `reset`, `getNextTimer`, `listExpiredCb` | clock, `onTimerInsertedAtFront()` |
| IOManager (`iomanager.*`) | one FdContext per descriptor (`m_events`, a waiter per event), `m_pendingEventCount`, epoll descriptor, wake-up pipe | `addEvent`, `delEvent`, `cancelEvent`, `cancelAll`, `triggerEvent`, `tickle`, `stopping`, `idle`, `contextResize` | is a Scheduler and a TimerManager |
| FdManager, FdCtx (`fd_manager.*`) | a table of FdCtx: socket or not, non-blocking for the system and for the user, two timeouts | `get`, `del`, `init`, the setters | `fstat`, `fcntl` |
| Hook (`hook.*`) | `t_hook_enable`, a TimerInfo per call | the `sleep` family, `do_io` for read/write/accept and relatives, `connect_with_timeout`, `socket`, `close`, `fcntl`, `ioctl`, `setsockopt` | FdManager, IOManager, TimerManager, Fiber |
| Thread, Semaphore (`thread.*`, `mutex.cpp`) | id, name, a semaphore | constructor handshake, `run`, `join` | pthread |
| Locks (`mutex.h`) | pthread locks | scoped lock and unlock | pthread |
| Configuration (`config.*`) | map of ConfigVars, each with a value and listeners; the time of every file that was loaded | `Lookup`, `setValue`, `addListener`, `LoadFromYaml`, `LoadFromConfDir` | yaml-cpp, Environment |
| Logging (`log.*`) | loggers, each with a level and appenders; an appender's formatter with its items | `log`, `addAppender`, `clearAppenders`, `LogFormatter::init`, the configuration listener | Configuration |
| Environment (`env.*`) | `m_args`, the command line as a map | `init`, `add`, `get`, `getAbsolutePath`, `getConfigPath` | |
| Utilities, singleton, macros | clock, listing of directories, backtraces | | |

**How they interact.** An IOManager is a Scheduler and a TimerManager. Its
threads execute `Scheduler::run()`: take a task, resume its fiber, count it;
without a task they resume the idle fiber, `IOManager::idle()`, which waits in
`epoll_wait()` until the first timer is due, a descriptor is ready or a byte
comes through the wake-up pipe, and turns what it finds into tasks. A hooked
call in a fiber arms a timer, registers its fiber for an event and yields; the
event or the timer puts the fiber back into the task list. `stop()` sets
`m_stopping`; every thread leaves when `stopping()` is true for it, and with
`use_caller` the calling thread serves tasks inside `stop()`. A program starts
with `Env::init()` and `Config::LoadFromConfDir()`, which sets variables; the
listeners of `logs` and of `tcp.connect.timeout` rebuild the loggers and set the
timeout of hooked `connect()` calls.

**What is hard.**

- Counters and lists are guarded by different locks or by none, and
  `stopping()` combines several of them.
- A fiber is visible to other threads (in the list, in an EventContext, in a
  timer) before it has left its own thread.
- Batches of `epoll_wait()` are processed while registrations change, and
  edge-triggered reports do not come again.
- Wake-ups through the pipe are sent only if somebody seems to be idle, and are
  suppressed by `m_tickled`.
- The kernel reuses descriptor numbers as soon as `close_f()` returns.
- Timers, timeouts and cancellation race with each other and with the events
  they guard; times are unsigned and narrowed to `int`.
- A fiber has one save area, and where `yield()` goes depends on thread-local
  pointers of the thread that resumed it; its own stack holds a pointer to it.
- `setValue()` calls the listeners under one lock and stores under another;
  files change while they are read, and loggers are changed by difference.

**What makes each part correct.**

- *Fiber*: no stack is lost or on two threads; who resumes a fiber gets control
  back; `GetThis()` is right on every thread; a fiber lives as long as it is
  needed and no longer.
- *Scheduler*: no task lost or run twice or on the wrong thread; one thread per
  fiber; exact counters; no thread leaves while work remains; `stop()` returns.
- *TimerManager*: no callback early, none left behind when due, a one-shot
  callback at most once and never after a successful cancel; nobody sleeps past
  the first timer.
- *IOManager*: EventContexts, `m_events`, `m_pendingEventCount` and the epoll
  set agree; a waiter whose event has happened is scheduled, once.
- *The reactor as a whole*: `start()` and `stop()` return, `stop()` only after
  everything is done, and tasks are taken although wake-ups are lost.
- *FdManager and hooks*: the table describes the files that are open now; what
  the user sets is kept; no hooked call stops a whole thread; a suspended fiber
  is resumed exactly once.
- *Start-up*: command lines and patterns mean what they spell; after a load the
  values are those of the files; loggers and timeout are those of the values.

## 2. Modules

| module | what it models | uses |
|---|---|---|
| `Fiber` | `fiber.*` on threads with and without scheduler | |
| `FiberProofs` | theorems about `Fiber` | `Fiber`, TLAPS |
| `TaskPool` | abstract specification: what clients of a scheduler may rely on | |
| `Scheduler` | `scheduler.*`, with the fibers it runs | `TaskPool` as refinement target |
| `MCScheduler` | symmetry of the workers for TLC | `Scheduler` |
| `SchedulerProofs` | theorems about `Scheduler`; that it implements `TaskPool` | `Scheduler`, TLAPS |
| `TimerManager` | `timer.*` and the waiting part of `idle()` | |
| `TimerManagerProofs` | theorems about `TimerManager` | `TimerManager`, TLAPS |
| `IOManager` | events, EventContexts, epoll set, batches | |
| `IOManagerProofs` | theorems about `IOManager` | `IOManager`, TLAPS |
| `Reactor` | composition: `start()`, threads, run loop, `idle()`, `stopping()`, `stop()`; tasks, timers and events are counted | |
| `ReactorProofs` | theorems about `Reactor` | `Reactor`, TLAPS |
| `FdManager` | `fd_manager.*` under the hooked calls that change it | |
| `FdManagerProofs` | theorems about `FdManager` | `FdManager`, TLAPS |
| `Hook` | `do_io()`, `connect_with_timeout()`, `sleep()` over a small scheduler | |
| `LogFormatter` | `LogFormatter::init()`: from a pattern to its items; the grammar of patterns | |
| `LogFormatterProofs` | that the two agree | `LogFormatter`, TLAPS |
| `Logging` | from YAML to LogDefines, and the listener that configures the loggers | `LogFormatter` |
| `Env` | `Env::init()` and the configuration path | |
| `Config` | composition: start-up, loading, `setValue()`, the two listeners, an editor, another thread | `Logging`, `Env` |
| `MCConfig` | inputs for TLC | `Config` |
| `ConfigProofs` | theorems about `Config` | `Config`, `LogFormatterProofs` |

### Correspondence with the code

Variables carry the names of the members they model; variables without a
counterpart in the code are program counters, kernel state, or are commented
as history. A section of code under a lock is one action; code outside locks is
split at every access to shared state. A failed `SYLAR_ASSERT` adds to
`faults`, and nothing moves after it.

*Fiber.* A context is a save area: `m_ctx[f]` is the flow (the stack) that
continues when fiber f's area is loaded, and `cpu[t]` the flow thread t is on.
`resume()` saves the running flow into the main fiber's or the scheduler fiber's
area, as `run_in_scheduler` says, and loads the fiber's; `yield()` does the
reverse with the thread-local pointers of the thread it is on. `held` and `cur`
are the shared pointers outside and on the fiber's own stack; when the last goes
the destructor runs, with its assertions. The constant `Mistakes` says which
calls clients may get wrong, and the guards of `Resume` and `Drop` keep the others
out: resume a fiber from one that returns to the same
area (`nested`), resume one that is running (`twice`), before the thread has a
main fiber (`noMainFiber`), drop one that has not finished (`dropUnstarted`).
`resumer` is history.

*Scheduler.* `pc[r]` is thread r's place in `run()`: `fetch` (the locked scan
of the list), `resume`, `user` (client code in a fiber), `yield` and `switch`
(the two halves of `Fiber::yield()`: the state is written, then the context is
saved), `dec`, `noTask`, `idle`, `idleBack`, `exit`. `start()` is a single
action because it holds `m_mutex` throughout and workers begin by taking
`m_mutex`; `Reactor` models its inside. Clients schedule fresh tasks, reschedule
themselves (`Requeue`: for their own thread or for any), or wait for another
task (`Park`). They do not call `stop()` twice at once, nor `schedule()` from
outside the pool after `stop()`.

*TimerManager.* A timer is identified by a number that stands for its address,
by which the comparator breaks ties. `addTimer()` is three actions: the clock is
read by the constructor before the lock, and `onTimerInsertedAtFront()` is called
after it. `listExpiredCb()`'s temporary timer may have any address (`addr`).
`IntRange` and `UintRange` keep the widths of the narrowing cast, of the sums of
times (`Later`) and of the roll-over test. `nextTimeout` is what a waiter has given
to `epoll_wait()` and `aim` when that is over; `Interrupted` is the loop around
`epoll_wait()` that calls it again after a signal, with the same timeout. `reset()`
compares `m_interval` before it takes the lock; the comparison may be out of date,
so `Reset` does not rely on it. `armed`, `cancelled`, `ran` and `lost` (the time a
wait had lasted when signals restarted it) are history.

*IOManager.* The kernel's side (`registered`, `interest`, `ready`,
`readyList`) is an edge-triggered epoll set as the code uses it. `batch[p]` is
the part of a thread's `events[]` that has not been processed. `HandleEvent`
empties it: the code assigns the result of `epoll_ctl()` to the bound of the
loop. The error path of that `epoll_ctl()` (lines 394-399) is left out, since
`KernelAgrees` shows that the call does not fail. `AddEventTwice` is `addEvent()`
for an event that is awaited already: the assertion of line 153 fails and the
program is over. `SingleThread` says that clients run only between two batches.

*Reactor.* `stopping()` is three actions (`CheckTimers`, `CheckPending`,
`CheckScheduler`) because the code evaluates its conjuncts one after the other.
`tickle` says that the pipe is on epoll's ready list. `epoll_wait()` may report any
number of events. The first becomes a task and is `claimed` until it does; the rest
of the batch is dropped with the overwritten loop bound and is `lost`: pending, and
not reported again unless more happens on its descriptor (`NewEdge`). Each event is
on a descriptor of its own. A signal that interrupts `epoll_wait()` only lets the
thread stay in it. `pthread_create()` and `sem_wait()` do not fail: the code
throws then, and nobody catches it. The run loop here leaves out what
`Scheduler` covers: identities, affinities and fiber states.

*FdManager.* A descriptor number refers to a `file`; an FdCtx has the number of
the file it was made for, so that a stale entry can be told from a fresh one.
The hooked calls are split at the manager's lock and at the system calls. `socket()`
makes an FdCtx in hooked threads only, `accept()` in every thread (`do_io()` returns
early in the others, but `accept()` goes on to `get(fd, true)`), and `close()` deletes
it in hooked threads only. `managed`, `wanted` (what the user asked for, timeouts in
the two parts of a `timeval`) and `orphaned` (the numbers whose FdCtx an unhooked
`close()` has left behind) are history.

*Hook.* Of the parts below it only what the calls see is kept: a bag of
scheduled fibers, the registrations, a timer per call.

*LogFormatter, Logging, Env.* Pure functions. The two nested loops of
`LogFormatter::init()` are a scanner with one mode per place in the code; `beyond`
stands for the character behind a pattern that ends in `%d`, which the code
reads. Beside it stands the grammar (`Parse`): the items of a pattern, defined from
those of its later parts. `Logs` keeps the first of two LogDefines with one name, as
the `std::set` does. Loops are recursive functions of the number of their rounds:
the scanner, `Env::init()`, and `Subsequence` for the loops that skip elements
(appenders that are not usable, console appenders of a daemon, members that
`ListAllMember()` prunes). The characters of patterns are a constant; `CharactersAssumption`
says that the four the scanner looks for are among them.

*Config.* A file is a sequence of members, in the order of `ListAllMember()`,
or `Broken`. `LoadFromConfDir()` is a loop over listed files: the time is compared
and written down, the file is read, and each member is converted and set.
`setValue()` is two actions for its two locks, in the thread that loads and in
one other thread (`client`). The variables exist from the beginning: they are made by
`Lookup()` in static initialisers, with names that are new and valid, so its other
paths are not in `Init`. `Edit` is an editor that may write between any two
steps. Conversions that throw are caught per file, as in the code.
`tcp.connect.timeout` is an `int` and `s_connect_timeout` a `uint64_t`: a negative
value wraps (`Unsigned`). `setter`, `raced` and `configured` are history.

## 3. Runs

| run | instance | checks | result |
|---|---|---|---|
| `fiber_contexts` | the caller with its root fiber, 1 worker, 1 thread without scheduler; 2 fibers of the scheduler and 1 other | `NoFault`, `SelfKnown`, `ControlReturns`, `NothingLost`, `PointersExact` | hold |
| `scheduler_threads` | 2 workers and the caller; a fiber and a callback; rescheduling for the own thread | `TypeOK`, `ActiveCount`, `QuiescentExit`, `NoFault`, `ImplementsTaskPool`, `StopReturns`, `QueuedTaskRuns` | hold |
| `scheduler_single` | the caller's thread only; 2 fibers and a callback; rescheduling for any thread; waiting | `ImplementsTaskPool`, `StopReturns`, no deadlock (a fault would be one) | hold |
| `scheduler_requeue` | 3 workers; a callback that reschedules its fiber for any thread | `NoFault` | violated |
| `timer_manager` | 2 timers, 1 waiter, intervals 1 and 3, clock up to 3, signals | `TypeOK`, `ArmedIsListed`, `OneShot`, `FrontIsAwaited`, `NeverEarly`, `NoneLeftBehind` | hold |
| `io_threads` | 2 pollers, 1 descriptor, READ, WRITE and hang-up, 3 waiters | `TypeOK`, `OneContextPerWaiter`, `PendingExact`, `KernelAgrees`, `ReadyIsHandled` | hold |
| `io_batch` | 1 thread, 2 descriptors | `ReadyIsHandled` | violated |
| `reactor_threads` | 2 workers and the caller, 2 tasks, timers or events | `TypeOK`, `StopDrains`, `StartReturns`, `StopReturns`, `TasksAreTaken` | hold |
| `reactor_workers` | 2 workers, `use_caller = false` | `StopDrains` | violated |
| `fd_table` | 2 hooked threads and 1 other, 2 descriptors, 3 files | `TypeOK`, `TableIsExact`, `SettingsKept`, `NeverBlocks` | hold |
| `hook_io` | 1 thread, 1 fiber | `NoFault` | violated |
| `start_up` | 2 files in 2 directories, 2 loggers; command lines up to 3 words, patterns up to 5 characters | `TypeOK`, `LoadedIsCurrent`, `ListenersFollow`, `FormattersMean`, `ArgsMean` | hold |

**Bounds.** The threads of `fiber_contexts` are one of each kind the
code knows, and two fibers of the scheduler can change threads past each other.
Two workers and the caller are enough for every pair of roles: one
thread between two steps while another takes the task, leaves, or stops.
`scheduler_requeue` has a third worker to match the pool of
`tests/test_scheduler.cpp`. Two tasks suffice for a task that overtakes another
and a task that schedules another; `MaxYields` lets a fiber come back once or
twice. Two timers are needed for an order between them and for a tie. The clock
and all intervals are small, with `IntRange`, `Hour` and `MaxTimeout` scaled down
so that waits are cut off by `MaxTimeout` and the roll-over test is below an
hour of uptime (`BootTime = 0`); `MaxPending = 2` lets a callback be collected
again before it has run. Sums of times do not wrap around at this scale
(`NoWrap`, below). `fd_table` has numbers on both sides of the
initial size of the table (2 and 4, with size 2), so that it grows, and one more
file than descriptors, so that numbers are reused. `reactor_threads` allows two
pieces of work of any kind: one that is converted (a timer to a task) while the
other is being looked for, and two events that are reported together. `io_threads` has more waiters than events, so that a
context is filled again while a batch still names it. `start_up` has every input
of a few characters or words for the two pure functions, and for the loader a
few scripts of contents with two loads and edits between: names that go and come
back, appenders that change, files that do not parse, values that do not convert, a
negative timeout (`UintRange` is scaled down to 64).

**What the constants and the properties leave out.** `IoctlFlags = {TRUE}`: nobody
makes a socket blocking with `ioctl(FIONBIO, 0)` (it would block the thread).
`TableIsExact`, `SettingsKept` and `NeverBlocks` make an exception for `orphaned`
numbers: an unhooked thread's `close()` leaves the FdCtx of an accepted or a hooked
thread's socket in the table, and the next socket with the number takes it over, with
its settings and without being made non-blocking. `Requeue = {"own"}` in
`scheduler_threads`: with several threads, rescheduling for any thread is the subject
of `scheduler_requeue`. `io_threads` does not ask for `NoFault`: with READ and WRITE on
one descriptor and two threads TLC finds it violated (below), and behaviours end there.
`FrontIsAwaited` allows a waiter to sleep longer by the time it had slept when
signals interrupted it: `idle()` restarts `epoll_wait()` with the whole timeout.
`StopReturns` excepts behaviours in which an event was reported behind another one in
a batch, which finding 2 loses: `stop()` then waits for an event that is not reported
again. Without these two exceptions TLC finds both properties violated.
`Mistakes = {}` in `fiber_contexts`: with `nested` allowed TLC finds
`NothingLost` violated, with each of the other three `NoFault`. `SameSecond =
FALSE` in `start_up`: a file that changes twice in one second of `st_mtime` is
not loaded again, and `LoadedIsCurrent` is violated. `ListenersFollow` makes an
exception for overlapping `setValue()` calls of one variable (`raced`), without
which it is violated; `FormattersMean` leaves out patterns that end in `%d` or
have two dates (`Plain`). These are listed as hazards.

**Symmetry** (of the workers, in `MCScheduler`) is used only in
`scheduler_requeue`, which has no liveness property.

**Deadlock** is checked in the runs of `Scheduler`, where `Terminated` marks
the one state in which the program is meant to be over. In the other modules
the system may stop: clients may have nothing to do, time has a bound, or
`stop()` has returned. There the liveness properties say what must not get
stuck.

### Fairness

- *Scheduler*: weak fairness of each thread's library steps and of each task's
  steps, and of the two waits in `stop()`. The operating system schedules
  every thread, and a task that runs comes to its end or yields.
  `schedule()`, `start()` and `stop()` are the client's choice and not fair.
- *IOManager*: weak fairness of each poller; a thread without tasks goes round
  `idle()` for ever. Readiness of descriptors is not fair.
- *Reactor*: weak fairness of each thread, of the end of a task, of the return
  of `epoll_wait()` (the code always gives it a timeout of at most
  `MAX_TIMEOUT`, and signals do not come for ever), of time and of the steps of `start()` and `stop()`; strong
  fairness of `epoll_wait()` returning events somebody waits for, which
  says that awaited events happen. `NewEdge` is not fair: nobody has to send more
  to a descriptor that has been reported. Without this `stop()` is meant to wait.

### Findings

1. `scheduler_requeue`: a task that schedules its own fiber and then yields can
   be taken by another thread while it is still RUNNING. The assertion of
   `scheduler.cpp:143` fails; a little later the assertion holds but the context
   is not saved yet.
2. `io_batch`: `ret = epoll_ctl(...)` inside the loop over the batch overwrites
   its bound. The rest of the batch is lost, and edge-triggered reports do not
   come again. In `Reactor` this also keeps `stop()` from returning: a lost event
   stays pending.
3. `reactor_workers`: with `use_caller = false`, a worker can combine an old view
   of the timers with a new view of `m_stopping`; `stop()` returns and a timer
   added before it never fires. With `use_caller = true` this cannot happen
   (`reactor_threads`): the caller looks at the timers after it has set
   `m_stopping`.
4. `hook_io`: `addEvent()` returns `true` on success, but the hooks take a
   result other than 0 as failure: a successful registration makes the call
   return while its fiber is registered, and a failed one makes the fiber yield
   for ever.

Beside these: `idle()` calls `triggerEvent()` for every reported event if any of
them is still waited for (`iomanager.cpp:401`), and `assert(m_events & event)` of
`iomanager.cpp:78` fails when the other was handled or deleted by another thread
meanwhile. This takes two threads and a descriptor used in both directions; the
theorems `OneKindSafe` and
`OneThreadSafe` say that it takes both. `Scheduler` shows that threads may leave
`run()` one by one (`QuiescentExit`), and `Reactor` that lost tickles only delay.

## 4. Proofs

The theorems hold for every value of the constants that the named assumption of
the module allows. Each proof module rests on an inductive invariant, whose
parts were model-checked before they were proved, lemmas that go through the
actions, and theorems that read the properties off the invariant.

**`FiberProofs`** (`FiberAssumption`: the kinds of threads and fibers differ;
every theorem assumes `Mistakes = {}`). `FiberInvariant` is
`Spec => []FiberInv`; `FiberSafe`, `CallbackIsItself`, `YieldReturns`,
`FlowsKept` and `FibersCounted` establish `TypeOK` and `NoFault`, `SelfKnown`,
`ControlReturns`, `NothingLost` and `PointersExact` for any threads and fibers.
The invariant says for a thread that is on a fiber where that fiber returns to,
and that exactly the flow that resumed it is saved there (`OnCpu`); for the caller
that its root fiber's area is full while a task of it runs (`RootWaits`); and for
every fiber which of state, area and pointers belong together (`MadeFiber`).
`resume()` and the two ways of leaving a fiber are the steps that move flows
(lemmas `ResumeInv`, `LeaveInv`).

**`SchedulerProofs`** (`SchedulerAssumption`: finitely many workers; the special
values differ from threads and tasks). `SchedulerInvariant` is `Spec => []IInv`
with `IInv == TypeOK /\ ActiveCount /\ QuiescentExit`; `TypeCorrect`,
`CountsExact` and `ExitIsQuiescent` are its parts. None of the three is inductive
alone. A step that lowers a counter keeps `TypeOK` only because the counter is
positive, which `ActiveCount` gives. A thread in client code could schedule after
the first idle fiber has returned; `ActiveCount` makes `m_activeThreadCount`
positive for it while `QuiescentExit` says it is 0, so there is no such thread
(lemma `HolderBlocksExit`). `StepCount` says how one thread's step changes the
number of threads at a set of program points; `ClientStep`, `RunStep` and
`ControlStep` go through the actions.

*The refinement of `TaskPool`* (also `Orderly`: there is one thread, or running fibers
reschedule themselves only on their own thread and nobody wakes a fiber that has
yielded). `OrderlyNeverFaults` establishes `NoFault`, and
`OrderlyImplementsTaskPool` the refinement `ImplementsTaskPool`: initial states map
to initial states, every step to one of `TaskPool`'s or a stutter. The invariant
`Tidy` says who may still touch a fiber. A task is in the list at most once and
held by at most one thread (`Once`); while the thread that leaves a fiber has not
come back to `run()`, the list entry of that fiber can only be taken by that
thread (`Waiting`), which is what rescheduling for another thread breaks, as
`scheduler_requeue` shows; a thread that leaves a fiber has rescheduled it,
parked it or ended it (`Holding`), so no task is lost. The list matters only
through the set of its entries.

**`TimerManagerProofs`** (`TimerAssumption`: times and addresses are natural
numbers). `CancelFindsTimer`, `OneShotRunsOnce` and `NoDueCallbackLeft` establish
`ArmedIsListed`, `OneShot` and `NoneLeftBehind`, and `NoCallbackEarly` establishes
`NeverEarly` if the clock and every interval add up to what a `uint64_t` holds
(`NoWrap`). `OneShot` needs that a cancelled timer never gets its callback
back (`CancelledIsOff`) and that nothing has happened to a timer whose
`addTimer()` has not returned (`Untouched`). `NeverEarly` needs that an armed
timer expires at least its interval after its start (`ArmedInTime`), which also
shows that `m_next - m_interval` in `reset()` does not wrap, and that the clock
does not run back (`ClockForward`): then the wrapping subtraction in
`detectClockRollover()` has no effect, and `listExpiredCb()` takes exactly what is
due, wherever `nowTimer` lies in memory (lemma `ExpiredIsDue`). `ArmedInTime` and
`NotFar` hold together (`Timely`) and need each other: between them they keep
`reset()`'s start between the timer's start and now. `TimerTypes`
establishes `TypeOK`. `FrontAwaited` establishes `FrontIsAwaited` for one waiting
thread (`OneWaiter`), intervals an `int` holds (`IntervalsFit`) and `NoWrap`: no timer is
further away than its interval (`NotFar`), so the cast in `idle()` changes
nothing and `refresh()` only moves timers back, and a thread that waits while
`m_tickled` is set is about to be woken (`TickleIsOnTheWay`), so the wake-up that
`addTimer()` skips is not needed. A signal moves the end of the wait by exactly the
time that had passed (lemma `InterruptedAwaits`). With several waiting threads the one that is
woken need not be the one that sleeps too long.

**`IOManagerProofs`** (`IOManagerAssumption`: finitely many descriptors and
events; the special values differ from them). `EpollSetAgrees`,
`PendingCountExact` and `WaitersOnce` establish `KernelAgrees`, `PendingExact` and
`OneContextPerWaiter`, in both settings of `SingleThread` and for descriptors
used in both directions. The counting properties are proved over sets: the places
that name a waiter (`PlacesOf`) and the awaited events (`Awaited`). The lemma
`Leaving` covers every way in which events leave a descriptor, also the one in
which a stale batch entry names events that are gone. `EventTypes` establishes
`TypeOK`. `OneKindSafe` and `OneThreadSafe` establish `NoFault`, which no run checks, if there is one
kind of event, or if clients run only between batches on one thread: then a
batch entry that still has one of its events has all of them.

**`ReactorProofs`** (`ReactorAssumption`: finitely many workers).
`ReactorInvariant` and `ReactorTypes` establish `TypeOK`: the thread counters are
the numbers of threads at work and inside `idle()` (`Counts`), and the events that
batches claim or have lost are pending, each once (`Claims`), so no unsigned counter is
lowered below zero. `StopIsDrained` establishes `StopDrains` if `UseCaller`.
`stopping()` looks at timers, pending events and tasks one after the other, while
other threads go on. The argument is about the caller's own thread, whose looks all
come after `stop()` has set `m_stopping`: from then on timers and events only become
fewer, so what it has seen empty stays empty (`Seen`); tasks may appear later, but
only from a thread that has not left and takes them (`Drain`). Without
`use_caller` no thread need look that late, and `reactor_workers` shows
`StopDrains` violated.

**`FdManagerProofs`** (`FdManagerAssumption`; no `ioctl(FIONBIO, 0)` in the last
theorem). `FdTypes`, `TableFollows`, `SettingsFollow` and `SocketsNeverBlock` establish
`TypeOK`, `TableIsExact`, `SettingsKept` and `NeverBlocks` for any hooked and unhooked
threads and any descriptors. A descriptor is in at most one call and its file is open
throughout the call (`Calls`); open descriptors have different files (`Files`); so the
entry of a number that is not orphaned is that of its file except between `del()` and
`close_f()` (`Table`), where it is empty and nobody else can have the number yet; the
entry of an orphaned number is one of a file that is open nowhere. `Settings` and
`KernelFlags` follow each call's argument into the FdCtx and into the kernel;
that the milliseconds the FdCtx keeps are those of the microseconds asked for,
rounded down, is arithmetic on `Milliseconds`.

**`LogFormatterProofs`** (`CharactersAssumption`). `FormatterMeant` says that
`LogFormatter::init()` gives every pattern the items and the error of its grammar
(`Meant`), for patterns of any length over any characters. The code reads forward
and keeps a mode, the text so far and the format of the date; the grammar reads an
item and leaves the rest to itself. The invariant (`ScanInv`) has one case per mode.
Between items, the items of the whole pattern are what the scanner has put down
(`Done`) followed by what the grammar makes of the place where the current text began
(`TextInv`); behind a `%`, by what it makes of the `%` (`ItemInv`); behind a `%d` and
within braces, by what it makes of the `%` the date began with (`DatedInv`,
`BracesInv`). The format of the date is one variable for the whole pattern, so a
second date would change the first (`Done` would be lost): hence the hypothesis
`OneDate`, part of `Plain`, whose other part is that the pattern does not end in
`%d`. Both are needed:
without them the code gives other items (the hazard at `log.cpp:256`).

**`ConfigProofs`** (`ConfigAssumption`; `InputsAssumption`: files are `Broken` or
sequences of members, where a timeout is an integer or no number and a logger's node
names a logger or none and has patterns of characters; words are keys or values).
`ListenersAgree` establishes `ListenersFollow`. The invariant is that listeners are ahead of the variable by the
one value that is about to be stored (`LogsInv`, `TimeoutInv`). That the listener of
`logs` works by difference needs that a set of LogDefines has one for each name
(lemma `LogsUnique`) and that it has seen every name the variable holds
(`KnownNames`): then a logger that is not touched was right before (lemma
`ListenerFollows`).

`LoadsAreCurrent` establishes `LoadedIsCurrent` if no file changes twice within a
second (`~SameSecond`). A time that is written down is never ahead of the file's
(`Times`). Of a file whose time is written down and current, `LoadInv` says that it
is about to be read, or that `members` is what lies behind a position in it and
everything before that position has been applied (`Partly`), or that all of it has
been applied. A store from another file or the other thread only takes the claim
away (`AppliedByOthers`); an edit makes the time newer (`EditLoad`), which is where
two changes within one second would break the argument.

`ArgumentsKept` establishes `ArgsMean` for command lines of any length. After `n`
words the map has the keys before the `n`-th, which is pending if it is a key, or
the loop has stopped at the first word that is out of place (`Read`).

`TypeCorrect` establishes `TypeOK`, and `FormattersAreMeant` establishes
`FormattersMean`. `TypeInvariant` carries what they need from the files to the
loggers: the members in hand are those of some file (`Data`), what converts is a set of
LogDefines with levels and patterns, and every appender of a logger was made by
`LogAppender` from one of their patterns (`ValuesOK`, lemmas `FromStrTyped`,
`ListenerTyped`). Then `FormatterMeant` applies to its formatter.

What loops compute, the scanner of `init()`, `Subsequence` (lemma `SubsequenceIs`) and
`Env::init()` (lemma `InitReads`), is proved by induction on their number of
rounds, first that the recursive function exists and then its invariant. The
induction is over a set of numbers (`SetInduction`, from the well-foundedness of
`<`), since the provers cannot instantiate induction over a predicate.

Every invariant and action property of the passing runs is established by a theorem,
some under the hypotheses named above. Model-checked only: liveness (fairness and
ENABLED are out of the prover's reach). `Hook`, and the runs that expect a violation,
have no theorems.

## 5. Not modelled

- Output of log lines and `Logger::log()`'s walk over the appenders, which races
  with the listener that replaces them (`log.cpp:448`): a torn walk has no outcome
  a model could bound.
- `Logger::setLevel()`, `addAppender()` and `delAppender()` called by a program itself,
  as `tests/test_log.cpp` does. `ListenersFollow` is about loggers that only the
  listener of `logs` configures.
- Conversions of configuration values other than those of `logs` and of numbers,
  `toString()`, `Visit()`, `Lookup()` of a name that exists or is not valid, listeners that come and go, two threads that load at
  once.
- Files and strings in `util.*` (other than `ListAllFile()`), backtraces, the help
  texts and environment variables of `Env`, `dlsym()` of the original functions:
  I/O, or values that are passed on.
- Locks as such (mutual exclusion is assumed), stacks and their sizes, singletons.
- The growing table of FdContexts (`contextResize()`).

The `components` and `hazards` of `PROJECT.json` say for each why.

## 6. Plan

Done, in this order: `Scheduler` with `TaskPool`; `SchedulerProofs`;
`TimerManager`; `IOManager`; `Reactor`; `FdManager`; `Hook`;
`TimerManagerProofs`; `IOManagerProofs`; `Fiber` with `FiberProofs`;
`LogFormatter`, `Logging`, `Env` and `Config` with `ConfigProofs`;
`FdManagerProofs`; `ReactorProofs`; the refinement of `TaskPool`; loading and command
lines in `ConfigProofs`; `LogFormatterProofs`; types and formatters in `ConfigProofs`.

To do:

1. Proofs: what of `NoFault` of `Scheduler` remains true for clients that are not
   orderly.
2. `IOManager`: a growing table of FdContexts and the race of two
   `contextResize()` calls (`iomanager.cpp:144`).
3. `Reactor` as a refinement of `Scheduler`'s run loop where both have the same
   state, so that the composition is tied to its parts.
