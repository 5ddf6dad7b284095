---------------------------- MODULE TimerManager ----------------------------
(***************************************************************************)
(* sylar::Timer and sylar::TimerManager (timer.h, timer.cpp), together     *)
(* with the threads that wait for timers: the part of IOManager::idle()    *)
(* that asks for the next timeout, waits, and collects what has expired.   *)
(*                                                                         *)
(* Every section under m_mutex is one action.  addTimer() is three: the    *)
(* constructor reads the clock before the lock is taken, and the virtual   *)
(* onTimerInsertedAtFront() is called after it is released.                *)
(***************************************************************************)
EXTENDS Integers, FiniteSets, FiniteSetsExt

CONSTANTS
  Timers,       \* Timer objects, identified by their address
  Waiters,      \* threads that run IOManager::idle()
  Intervals,    \* the intervals clients ask for, in ms
  BootTime,     \* GetElapsedMS() when the TimerManager is made
  MaxTime,      \* bound: the clock stops here
  MaxPending,   \* bound: collected and not yet run callbacks of one timer
  MaxTimeout,   \* MAX_TIMEOUT of IOManager::idle(), 5000 ms
  Hour,         \* 60 * 60 * 1000 ms
  IntRange,     \* the number of values of an int, 2^32
  UintRange     \* the number of values of a uint64_t, 2^64

ASSUME TimerAssumption ==
  /\ Timers \subseteq Nat
  /\ Intervals \subseteq Nat
  /\ BootTime \in Nat /\ MaxTime \in Nat /\ MaxPending \in Nat
  /\ MaxTimeout \in Nat /\ Hour \in Nat
  /\ IntRange \in Nat \ {0} /\ UintRange \in Nat \ {0}

VARIABLES
  now,             \* GetElapsedMS(), a monotonic clock
  object,          \* of each timer: "none", "created" or "returned" by addTimer()
  m_next,          \* when the timer expires
  m_interval,
  m_recurring,
  m_cb,            \* is the callback still set?
  m_timers,        \* the set ordered by Comparator
  m_tickled,
  m_previousTime,
  tickling,        \* timers whose adder will call onTimerInsertedAtFront()
  tickle,          \* does the wake-up pipe hold a byte?
  waiter,          \* where each waiter is
  nextTimeout,     \* what each waiter has given to epoll_wait(), an int
  aim,             \* when epoll_wait() is to return; -1: it waits for ever
  lost,            \* history: time let pass before signals restarted the wait
  pending,         \* callbacks of each timer collected and not yet run
  armed,           \* history: when the timer was last started
  cancelled,       \* history: timers for which cancel() returned true
  ran              \* history: timers whose callback has run

timerVars == <<object, m_next, m_interval, m_recurring, m_cb, armed>>
sleepVars == <<nextTimeout, aim, lost>>
waitVars == <<tickling, tickle, waiter, sleepVars>>
runVars == <<pending, cancelled, ran>>

vars == <<now, timerVars, m_timers, m_tickled, m_previousTime, waitVars, runVars>>

Init ==
  /\ now = BootTime
  /\ object = [t \in Timers |-> "none"]
  /\ m_next = [t \in Timers |-> 0]
  /\ m_interval = [t \in Timers |-> 0]
  /\ m_recurring = [t \in Timers |-> FALSE]
  /\ m_cb = [t \in Timers |-> FALSE]
  /\ m_timers = {}
  /\ m_tickled = FALSE
  /\ m_previousTime = BootTime
  /\ tickling = {}
  /\ tickle = FALSE
  /\ waiter = [w \in Waiters |-> "run"]
  /\ nextTimeout = [w \in Waiters |-> 0]
  /\ aim = [w \in Waiters |-> 0]
  /\ lost = [w \in Waiters |-> 0]
  /\ pending = [t \in Timers |-> 0]
  /\ armed = [t \in Timers |-> 0]
  /\ cancelled = {}
  /\ ran = {}

Tick ==
  /\ now < MaxTime
  /\ now' = now + 1
  /\ UNCHANGED <<timerVars, m_timers, m_tickled, m_previousTime, waitVars, runVars>>

-----------------------------------------------------------------------------
(* Adding timers.                                                          *)

\* Comparator: by time, then by address.
Precedes(next, s, t) == next[s] < next[t] \/ (next[s] = next[t] /\ s < t)

\* GetElapsedMS() + m_interval, in uint64_t.
Later(time, interval) == (time + interval) % UintRange

\* Timer::Timer(): the expiry is computed before the lock is taken.
NewTimer(t, interval, recurring) ==
  /\ object[t] = "none"
  /\ object' = [object EXCEPT ![t] = "created"]
  /\ m_interval' = [m_interval EXCEPT ![t] = interval]
  /\ m_recurring' = [m_recurring EXCEPT ![t] = recurring]
  /\ m_cb' = [m_cb EXCEPT ![t] = TRUE]
  /\ m_next' = [m_next EXCEPT ![t] = Later(now, interval)]
  /\ armed' = [armed EXCEPT ![t] = now]
  /\ UNCHANGED <<now, m_timers, m_tickled, m_previousTime, waitVars, runVars>>

\* addTimer(Timer::ptr, WriteLock &): the insertion, and the decision to wake a
\* waiter, which is skipped while an earlier wake-up has not been noticed.
Insert(t, next, others) ==
  LET first == \A s \in others : Precedes(next, t, s)
  IN /\ m_timers' = others \cup {t}
     /\ m_tickled' = (m_tickled \/ first)
     /\ tickling' = IF first /\ ~m_tickled THEN tickling \cup {t} ELSE tickling

AddTimer(t) ==
  /\ object[t] = "created"
  /\ object' = [object EXCEPT ![t] = "returned"]
  /\ Insert(t, m_next, m_timers)
  /\ UNCHANGED <<now, m_next, m_interval, m_recurring, m_cb, armed, m_previousTime,
                 tickle, waiter, sleepVars, runVars>>

\* hasIdleThreads(): m_idleThreadCount is raised around the idle fiber.
HasIdleThreads == \E w \in Waiters : waiter[w] # "run"

\* onTimerInsertedAtFront(), which is IOManager::tickle().
OnTimerInsertedAtFront(t) ==
  /\ t \in tickling
  /\ tickling' = tickling \ {t}
  /\ tickle' = (tickle \/ HasIdleThreads)
  /\ UNCHANGED <<now, timerVars, m_timers, m_tickled, m_previousTime, waiter,
                 sleepVars, runVars>>

-----------------------------------------------------------------------------
(* Operations on a Timer::ptr; t's adder has returned.                     *)

\* Mutants: cancel() does not ask whether the callback is still set; it leaves
\* the timer in the set.
MutCancelAlways(t) ==
  /\ object[t] = "returned"
  /\ m_cb' = [m_cb EXCEPT ![t] = FALSE]
  /\ m_timers' = m_timers \ {t}
  /\ cancelled' = cancelled \cup {t}
  /\ UNCHANGED <<now, object, m_next, m_interval, m_recurring, armed, m_tickled,
                 m_previousTime, waitVars, pending, ran>>

MutCancelKeeps(t) ==
  /\ object[t] = "returned"
  /\ m_cb[t]
  /\ m_cb' = [m_cb EXCEPT ![t] = FALSE]
  /\ cancelled' = cancelled \cup {t}
  /\ UNCHANGED <<now, object, m_next, m_interval, m_recurring, armed, m_timers, m_tickled,
                 m_previousTime, waitVars, pending, ran>>

\* Cancelling twice, or after the timer has expired, returns false.
Cancel(t) ==
  /\ object[t] = "returned"
  /\ m_cb[t]
  /\ m_cb' = [m_cb EXCEPT ![t] = FALSE]
  /\ m_timers' = m_timers \ {t}
  /\ cancelled' = cancelled \cup {t}
  /\ UNCHANGED <<now, object, m_next, m_interval, m_recurring, armed, m_tickled,
                 m_previousTime, waitVars, pending, ran>>

\* refresh() inserts directly: the timer only moves back.
Refresh(t) ==
  /\ object[t] = "returned"
  /\ m_cb[t] /\ t \in m_timers
  /\ m_next' = [m_next EXCEPT ![t] = Later(now, m_interval[t])]
  /\ armed' = [armed EXCEPT ![t] = now]
  /\ UNCHANGED <<now, object, m_interval, m_recurring, m_cb, m_timers, m_tickled,
                 m_previousTime, waitVars, runVars>>

\* The test for a call that would change nothing (m_interval == interval and not
\* fromNow) reads m_interval before the lock is taken: what it finds may be out of
\* date when the lock is held, so that every call may get this far.
Reset(t, interval, fromNow) ==
  /\ object[t] = "returned"
  /\ m_cb[t] /\ t \in m_timers
  /\ m_interval' = [m_interval EXCEPT ![t] = interval]
  /\ LET start == IF fromNow THEN now ELSE (m_next[t] - m_interval[t]) % UintRange
         next == [m_next EXCEPT ![t] = Later(start, interval)]
     IN m_next' = next /\ Insert(t, next, m_timers \ {t})
  /\ armed' = [armed EXCEPT ![t] = IF fromNow THEN now ELSE @]
  /\ UNCHANGED <<now, object, m_recurring, m_cb, m_previousTime, tickle, waiter, sleepVars,
                 runVars>>

-----------------------------------------------------------------------------
(* The waiters: IOManager::idle().                                         *)

\* The run loop has no task: ++m_idleThreadCount, resume the idle fiber.
EnterIdle(w) ==
  /\ waiter[w] = "run"
  /\ waiter' = [waiter EXCEPT ![w] = "idle"]
  /\ UNCHANGED <<now, timerVars, m_timers, m_tickled, m_previousTime, tickling, tickle,
                 sleepVars, runVars>>

\* static_cast<int> of a uint64_t.
ToInt(x) == ((x + IntRange \div 2) % IntRange) - IntRange \div 2

\* std::min(static_cast<int>(nextTimeout), MAX_TIMEOUT), passed to epoll_wait():
\* -1 (any negative value) waits for ever.
WaitMs(timeout) ==
  LET ms == ToInt(timeout)
  IN IF ms < MaxTimeout THEN ms ELSE MaxTimeout

\* epoll_wait() is called with a timeout of ms.
Sleep(w, ms) ==
  /\ nextTimeout' = [nextTimeout EXCEPT ![w] = ms]
  /\ aim' = [aim EXCEPT ![w] = IF ms < 0 THEN -1 ELSE now + ms]

\* Mutant: m_tickled is not taken back.
MutGetNextTimer(w) ==
  /\ waiter[w] = "idle"
  /\ waiter' = [waiter EXCEPT ![w] = "wait"]
  /\ LET due == Min({m_next[t] : t \in m_timers})
         ms == IF m_timers = {} THEN MaxTimeout
               ELSE WaitMs(IF now >= due THEN 0 ELSE due - now)
     IN Sleep(w, ms)
  /\ UNCHANGED <<now, timerVars, m_timers, m_tickled, m_previousTime, tickling, tickle,
                 lost, runVars>>

\* getNextTimer() and the choice of the timeout.
GetNextTimer(w) ==
  /\ waiter[w] = "idle"
  /\ waiter' = [waiter EXCEPT ![w] = "wait"]
  /\ m_tickled' = FALSE
  /\ LET due == Min({m_next[t] : t \in m_timers})
         ms == IF m_timers = {} THEN MaxTimeout
               ELSE WaitMs(IF now >= due THEN 0 ELSE due - now)
     IN Sleep(w, ms)
  /\ UNCHANGED <<now, timerVars, m_timers, m_previousTime, tickling, tickle, lost, runVars>>

\* EINTR: epoll_wait() is called again with what nextTimeout holds, the time that
\* has passed not taken off; -1, seen as a uint64_t, now means "no timer".
Interrupted(w) ==
  /\ waiter[w] = "wait"
  /\ Sleep(w, IF nextTimeout[w] = -1 THEN MaxTimeout ELSE nextTimeout[w])
  /\ lost' = [lost EXCEPT ![w] = IF aim[w] < 0 THEN @
                                 ELSE @ + (now - (aim[w] - nextTimeout[w]))]
  /\ UNCHANGED <<now, timerVars, m_timers, m_tickled, m_previousTime, tickling, tickle,
                 waiter, runVars>>

\* epoll_wait() returns: the time is up, or the pipe is readable (edge
\* triggered: one waiter gets it, and reads the pipe empty).
Wake(w) ==
  /\ waiter[w] = "wait"
  /\ tickle \/ (aim[w] >= 0 /\ now >= aim[w])
  /\ waiter' = [waiter EXCEPT ![w] = "list"]
  /\ tickle' = FALSE
  /\ nextTimeout' = [nextTimeout EXCEPT ![w] = 0]
  /\ aim' = [aim EXCEPT ![w] = 0]
  /\ lost' = [lost EXCEPT ![w] = 0]
  /\ UNCHANGED <<now, timerVars, m_timers, m_tickled, m_previousTime, tickling, runVars>>

\* Mutant: a uint64_t that is smaller than an hour makes the difference wrap.
MutDetectClockRollover == now < (m_previousTime - Hour) % UintRange

\* detectClockRollover()
DetectClockRollover ==
  now < m_previousTime /\ now < (m_previousTime - Hour) % UintRange

\* Mutant: the timers that expire now are not skipped over.
MutExpired(addr) ==
  IF DetectClockRollover THEN m_timers
  ELSE {t \in m_timers : m_next[t] < now \/ (m_next[t] = now /\ t < addr)}

\* What listExpiredCb() takes: everything before the position it finds with
\* lower_bound() for a timer that expires now and has address addr, moved past
\* the timers that expire now as well.
Expired(addr) ==
  LET lower == {t \in m_timers : m_next[t] < now \/ (m_next[t] = now /\ t < addr)}
  IN IF DetectClockRollover THEN m_timers
     ELSE lower \cup {t \in m_timers : m_next[t] = now}

ListExpiredCb(w, addr) ==
  /\ waiter[w] = "list"
  /\ \A t \in Timers : pending[t] < MaxPending
  /\ waiter' = [waiter EXCEPT ![w] = "run"]
  /\ LET expired == Expired(addr)
     IN /\ m_timers' = {t \in m_timers : t \in expired => m_recurring[t]}
        /\ m_next' = [t \in Timers |-> IF t \in expired /\ m_recurring[t]
                                       THEN Later(now, m_interval[t]) ELSE m_next[t]]
        /\ armed' = [t \in Timers |-> IF t \in expired THEN now ELSE armed[t]]
        /\ m_cb' = [t \in Timers |-> m_cb[t] /\ (t \in expired => m_recurring[t])]
        /\ pending' = [t \in Timers |-> IF t \in expired THEN pending[t] + 1 ELSE pending[t]]
  /\ m_previousTime' = IF m_timers = {} THEN m_previousTime ELSE now
  /\ UNCHANGED <<now, object, m_interval, m_recurring, m_tickled, tickling, tickle, sleepVars,
                 cancelled, ran>>

\* Mutant: a callback runs that was not collected.
MutRunCb(t) ==
  /\ pending' = [pending EXCEPT ![t] = @ - 1]
  /\ ran' = ran \cup {t}
  /\ UNCHANGED <<now, timerVars, m_timers, m_tickled, m_previousTime, waitVars, cancelled>>

\* A collected callback was scheduled and runs.
RunCb(t) ==
  /\ pending[t] > 0
  /\ pending' = [pending EXCEPT ![t] = @ - 1]
  /\ ran' = ran \cup {t}
  /\ UNCHANGED <<now, timerVars, m_timers, m_tickled, m_previousTime, waitVars, cancelled>>

-----------------------------------------------------------------------------
Client ==
  \E t \in Timers :
    \/ \E interval \in Intervals, flag \in BOOLEAN :
         NewTimer(t, interval, flag) \/ Reset(t, interval, flag)
    \/ AddTimer(t) \/ OnTimerInsertedAtFront(t)
    \/ Cancel(t) \/ Refresh(t)
    \/ RunCb(t)

\* nowTimer's address may be anywhere between the others.
Wait(w) ==
  \/ EnterIdle(w) \/ GetNextTimer(w) \/ Interrupted(w) \/ Wake(w)
  \/ \E addr \in Timers : ListExpiredCb(w, addr)

Next == Tick \/ Client \/ \E w \in Waiters : Wait(w)

Spec == Init /\ [][Next]_vars

-----------------------------------------------------------------------------
TypeOK ==
  /\ now \in Nat /\ m_previousTime \in Nat
  /\ object \in [Timers -> {"none", "created", "returned"}]
  /\ m_next \in [Timers -> Nat] /\ armed \in [Timers -> Nat]
  /\ m_interval \in [Timers -> Nat]
  /\ m_recurring \in [Timers -> BOOLEAN] /\ m_cb \in [Timers -> BOOLEAN]
  /\ m_timers \subseteq Timers /\ tickling \subseteq Timers
  /\ m_tickled \in BOOLEAN /\ tickle \in BOOLEAN
  /\ waiter \in [Waiters -> {"run", "idle", "wait", "list"}]
  /\ nextTimeout \in [Waiters -> Int] /\ aim \in [Waiters -> Nat \cup {-1}]
  /\ lost \in [Waiters -> Int]
  /\ pending \in [Timers -> Nat]
  /\ cancelled \subseteq Timers /\ ran \subseteq Timers

\* A timer that clients can reach has its callback set exactly while it is in
\* m_timers: cancel() erases what find() returns without looking at it.
ArmedIsListed ==
  \A t \in Timers : t \in m_timers <=> object[t] = "returned" /\ m_cb[t]

\* A one-shot timer runs at most once, and never when cancel() returned true,
\* however cancel() races with the threads that collect and run callbacks.
OneShot ==
  \A t \in Timers :
    object[t] = "returned" /\ ~m_recurring[t] =>
      /\ t \in cancelled => pending[t] = 0 /\ t \notin ran
      /\ pending[t] <= 1
      /\ pending[t] = 1 => t \notin ran
      /\ m_cb[t] => pending[t] = 0 /\ t \notin ran

\* No callback is collected before its interval has passed since the timer was
\* started, refreshed, reset or last expired.
NeverEarly ==
  [][\A t \in Timers : pending'[t] > pending[t] => now >= armed[t] + m_interval[t]]_vars

\* Whoever collects callbacks leaves none behind that is due, whatever address
\* the timer has that it compares the others with.
NoneLeftBehind ==
  [][\A w \in Waiters : waiter[w] = "list" /\ waiter'[w] = "run" =>
       \A t \in m_timers : m_next[t] <= now => pending'[t] > pending[t]]_vars

\* A waiter sleeps beyond the first timer only if it is about to be woken, or for
\* the time it had slept when signals interrupted it: a thread that skips the
\* wake-up because of m_tickled relies on one that was sent and not yet answered.
FrontIsAwaited ==
  \A w \in Waiters : waiter[w] = "wait" =>
    \/ tickle \/ tickling # {}
    \/ nextTimeout[w] = 0
    \/ \A t \in m_timers : aim[w] >= 0 /\ aim[w] - lost[w] <= m_next[t]
=============================================================================
