------------------------- MODULE TimerManagerProofs -------------------------
(***************************************************************************)
(* Proofs about TimerManager for any number of timers and waiting threads, *)
(* any intervals and any widths of the integers.                           *)
(*                                                                         *)
(* What the inductive invariant adds to the properties: the clock never    *)
(* runs back, so that the roll-over test stays false; a timer whose        *)
(* addTimer() has not returned is untouched, and one that was cancelled    *)
(* stays without callback.  A second one, for clocks and intervals whose   *)
(* sum a uint64_t holds, says when timers expire: no earlier than their    *)
(* interval after they were started, and no later than their interval from *)
(* now.  The last part adds the waiting threads: one that waits while      *)
(* m_tickled is set is about to be woken.                                  *)
(***************************************************************************)
EXTENDS TimerManager, WellFoundedInduction, TLAPS

Types ==
  /\ now \in Nat /\ m_previousTime \in Nat
  /\ object \in [Timers -> {"none", "created", "returned"}]
  /\ m_next \in [Timers -> Nat] /\ armed \in [Timers -> Nat]
  /\ m_interval \in [Timers -> Nat]
  /\ m_recurring \in [Timers -> BOOLEAN] /\ m_cb \in [Timers -> BOOLEAN]
  /\ m_timers \subseteq Timers
  /\ pending \in [Timers -> Nat]
  /\ cancelled \subseteq Timers /\ ran \subseteq Timers
  /\ waiter \in [Waiters -> {"run", "idle", "wait", "list"}]

ClockForward == m_previousTime <= now

Untouched ==
  \A t \in Timers :
    /\ object[t] # "returned" => pending[t] = 0 /\ t \notin cancelled /\ t \notin ran
    /\ object[t] = "created" => m_cb[t]

CancelledIsOff == \A t \in Timers : t \in cancelled => ~m_cb[t]

IInv ==
  /\ Types /\ ClockForward /\ Untouched /\ CancelledIsOff
  /\ ArmedIsListed /\ OneShot

-----------------------------------------------------------------------------
\* While the clock runs forward the roll-over test is false, and exactly the
\* timers that are due are taken, whatever the address of nowTimer is.
LEMMA ExpiredIsDue ==
  ASSUME IInv, NEW addr
  PROVE  Expired(addr) = {t \in m_timers : m_next[t] <= now}
<1>1. ~DetectClockRollover
  BY DEF IInv, Types, ClockForward, DetectClockRollover
<1>2. \A t \in m_timers : m_next[t] \in Nat /\ now \in Nat
  BY DEF IInv, Types
<1> QED
  BY <1>1, <1>2 DEF Expired

\* A sum of uint64_t is one again.
LEMMA LaterNat ==
  ASSUME NEW time \in Nat, NEW interval \in Nat
  PROVE  Later(time, interval) \in Nat
BY TimerAssumption DEF TimerAssumption, Later

\* In the beginning no timer exists.
LEMMA InitInv == Init => IInv
<1> SUFFICES ASSUME Init PROVE IInv
  OBVIOUS
<1>1. Types
  BY TimerAssumption DEF Init, Types, TimerAssumption
<1>2. ClockForward /\ Untouched /\ CancelledIsOff /\ ArmedIsListed /\ OneShot
  BY TimerAssumption
     DEF Init, TimerAssumption, ClockForward, Untouched, CancelledIsOff,
         ArmedIsListed, OneShot
<1> QED
  BY <1>1, <1>2 DEF IInv

-----------------------------------------------------------------------------
(* The operations of clients.                                              *)

\* Timer::Timer() touches a timer nobody knows of.
LEMMA NewTimerInv ==
  ASSUME IInv, NEW t \in Timers, NEW interval \in Intervals, NEW flag \in BOOLEAN,
         NewTimer(t, interval, flag)
  PROVE  IInv'
<1> USE DEF IInv
<1>0. interval \in Nat
  BY TimerAssumption DEF TimerAssumption
<1>a. Later(now, interval) \in Nat
  BY <1>0, LaterNat DEF Types
<1>1. Types'
  BY <1>0, <1>a DEF Types, NewTimer, waitVars, runVars
<1>2. ClockForward'
  BY DEF ClockForward, NewTimer
<1>3. Untouched' /\ CancelledIsOff' /\ ArmedIsListed' /\ OneShot'
  BY DEF Types, Untouched, CancelledIsOff, ArmedIsListed, OneShot, NewTimer, runVars
<1> QED
  BY <1>1, <1>2, <1>3

\* addTimer() under the lock.
LEMMA AddTimerInv ==
  ASSUME IInv, NEW t \in Timers, AddTimer(t)
  PROVE  IInv'
<1> USE DEF IInv
<1>1. Types'
  BY DEF Types, AddTimer, Insert, runVars
<1>2. ClockForward'
  BY DEF Types, ClockForward, AddTimer
<1>3. Untouched' /\ CancelledIsOff' /\ ArmedIsListed' /\ OneShot'
  BY DEF Types, Untouched, CancelledIsOff, ArmedIsListed, OneShot, AddTimer, Insert, runVars
<1> QED
  BY <1>1, <1>2, <1>3

\* cancel() succeeds only while the callback is set, so none has been collected.
LEMMA CancelInv ==
  ASSUME IInv, NEW t \in Timers, Cancel(t)
  PROVE  IInv'
<1> USE DEF IInv
<1>1. Types'
  BY DEF Types, Cancel, waitVars
<1>2. ClockForward'
  BY DEF Types, ClockForward, Cancel
<1>3. Untouched' /\ CancelledIsOff' /\ ArmedIsListed' /\ OneShot'
  BY DEF Types, Untouched, CancelledIsOff, ArmedIsListed, OneShot, Cancel
<1> QED
  BY <1>1, <1>2, <1>3

\* refresh() starts the timer anew.
LEMMA RefreshInv ==
  ASSUME IInv, NEW t \in Timers, Refresh(t)
  PROVE  IInv'
<1> USE DEF IInv
<1>a. Later(now, m_interval[t]) \in Nat
  BY LaterNat DEF Types
<1>1. Types'
  BY <1>a DEF Types, Refresh, waitVars, runVars
<1>2. ClockForward'
  BY DEF Types, ClockForward, Refresh
<1>3. Untouched' /\ CancelledIsOff' /\ ArmedIsListed' /\ OneShot'
  BY DEF Types, Untouched, CancelledIsOff, ArmedIsListed, OneShot, Refresh, runVars
<1> QED
  BY <1>1, <1>2, <1>3

\* reset() starts the timer anew.
LEMMA ResetInv ==
  ASSUME IInv, NEW t \in Timers, NEW interval \in Intervals, NEW flag \in BOOLEAN,
         Reset(t, interval, flag)
  PROVE  IInv'
<1> USE DEF IInv
<1> DEFINE start == IF flag THEN now ELSE (m_next[t] - m_interval[t]) % UintRange
           next == [m_next EXCEPT ![t] = Later(start, interval)]
<1>0. interval \in Nat /\ UintRange \in Nat /\ UintRange > 0
  BY TimerAssumption DEF TimerAssumption
<1>a. start \in Nat
  BY <1>0 DEF Types
<1>b. m_next' = next /\ m_timers' = m_timers
  BY DEF Reset, Insert
<1> HIDE DEF start
<1>c. Later(start, interval) \in Nat
  BY <1>0, <1>a, LaterNat
<1>1. Types'
  BY <1>0, <1>b, <1>c DEF Types, Reset, runVars
<1>2. ClockForward'
  BY DEF ClockForward, Reset
<1>3. Untouched' /\ CancelledIsOff' /\ ArmedIsListed' /\ OneShot'
  BY <1>b DEF Types, Untouched, CancelledIsOff, ArmedIsListed, OneShot, Reset, runVars
<1> QED
  BY <1>1, <1>2, <1>3

\* A collected callback runs.
LEMMA RunCbInv ==
  ASSUME IInv, NEW t \in Timers, RunCb(t)
  PROVE  IInv'
<1> USE DEF IInv
<1>1. Types'
  BY DEF Types, RunCb, timerVars, waitVars
<1>2. ClockForward'
  BY DEF ClockForward, RunCb, timerVars
<1>3. Untouched' /\ CancelledIsOff' /\ ArmedIsListed'
  BY DEF Types, Untouched, CancelledIsOff, ArmedIsListed, RunCb, timerVars
<1>4. OneShot'
  BY DEF Types, Untouched, OneShot, RunCb, timerVars
<1> QED
  BY <1>1, <1>2, <1>3, <1>4

-----------------------------------------------------------------------------
(* The waiting threads.                                                    *)

\* listExpiredCb() takes what is due; a one-shot timer loses its callback in the
\* same section, a recurring one starts again.
LEMMA ListExpiredCbInv ==
  ASSUME IInv, NEW w \in Waiters, NEW addr \in Timers, ListExpiredCb(w, addr)
  PROVE  IInv'
<1> USE DEF IInv
<1> DEFINE expired == Expired(addr)
<1>a. expired = {t \in m_timers : m_next[t] <= now}
  BY ExpiredIsDue
<1>b. /\ m_timers' = {t \in m_timers : t \in expired => m_recurring[t]}
      /\ m_next' = [t \in Timers |-> IF t \in expired /\ m_recurring[t]
                                     THEN Later(now, m_interval[t]) ELSE m_next[t]]
      /\ armed' = [t \in Timers |-> IF t \in expired THEN now ELSE armed[t]]
      /\ m_cb' = [t \in Timers |-> m_cb[t] /\ (t \in expired => m_recurring[t])]
      /\ pending' = [t \in Timers |-> IF t \in expired THEN pending[t] + 1 ELSE pending[t]]
      /\ UNCHANGED <<now, object, m_interval, m_recurring, cancelled, ran>>
      /\ m_previousTime' \in {m_previousTime, now}
      /\ waiter' = [waiter EXCEPT ![w] = "run"]
  BY DEF ListExpiredCb
<1> HIDE DEF expired
<1>d. \A t \in Timers : Later(now, m_interval[t]) \in Nat
  BY LaterNat DEF Types
<1>1. Types'
  BY <1>b, <1>d DEF Types
<1>2. ClockForward'
  BY <1>b DEF Types, ClockForward
<1>c. \A t \in expired : t \in Timers /\ object[t] = "returned" /\ m_cb[t]
  BY <1>a DEF Types, ArmedIsListed
<1>4. Untouched' /\ CancelledIsOff' /\ ArmedIsListed'
  BY <1>b, <1>c DEF Types, Untouched, CancelledIsOff, ArmedIsListed
<1>5. OneShot'
  <2> SUFFICES ASSUME NEW t \in Timers, object[t] = "returned", ~m_recurring[t]
               PROVE  /\ t \in cancelled => pending'[t] = 0 /\ t \notin ran
                      /\ pending'[t] <= 1
                      /\ pending'[t] = 1 => t \notin ran
                      /\ m_cb'[t] => pending'[t] = 0 /\ t \notin ran
    BY <1>b DEF OneShot
  <2>1. CASE t \in expired
    <3>1. m_cb[t] /\ pending[t] = 0 /\ t \notin ran
      BY <1>c, <2>1 DEF OneShot
    <3>2. t \notin cancelled
      BY <3>1 DEF CancelledIsOff
    <3>3. pending'[t] = 1
      BY <1>b, <2>1, <3>1
    <3>4. m_cb'[t] = (m_cb[t] /\ (t \in expired => m_recurring[t]))
      BY <1>b, Zenon
    <3>5. ~m_cb'[t]
      BY <2>1, <3>4, Zenon
    <3> QED
      BY <3>1, <3>2, <3>3, <3>5
  <2>2. CASE t \notin expired
    <3>1. pending'[t] = pending[t] /\ m_cb'[t] = m_cb[t]
      BY <1>b, <2>2 DEF Types
    <3> QED
      BY <3>1 DEF OneShot
  <2> QED
    BY <2>1, <2>2
<1> QED
  BY <1>1, <1>2, <1>4, <1>5

\* A step that leaves the timers and their callbacks alone; time may pass.
LEMMA WaitInv ==
  ASSUME IInv, UNCHANGED <<timerVars, m_timers, m_previousTime, runVars>>,
         now' \in {now, now + 1},
         waiter' = waiter \/ \E w \in Waiters, p \in {"idle", "wait", "list"} :
                                waiter' = [waiter EXCEPT ![w] = p]
  PROVE  IInv'
<1> USE DEF IInv
<1>1. Types' /\ ClockForward'
  BY DEF Types, ClockForward, timerVars, runVars
<1>2. Untouched' /\ CancelledIsOff' /\ ArmedIsListed' /\ OneShot'
  BY DEF Untouched, CancelledIsOff, ArmedIsListed, OneShot, timerVars, runVars
<1> QED
  BY <1>1, <1>2

-----------------------------------------------------------------------------
\* Every step of the timer manager, its clients and its waiters keeps IInv.
LEMMA NextInv == IInv /\ [Next]_vars => IInv'
<1> SUFFICES ASSUME IInv, [Next]_vars PROVE IInv'
  OBVIOUS
<1>1. CASE Tick
  BY <1>1, WaitInv DEF Tick, waitVars
<1>2. ASSUME NEW t \in Timers, NEW interval \in Intervals, NEW flag \in BOOLEAN,
             NewTimer(t, interval, flag) \/ Reset(t, interval, flag)
      PROVE  IInv'
  BY <1>2, NewTimerInv, ResetInv
<1>3. ASSUME NEW t \in Timers,
             AddTimer(t) \/ Cancel(t) \/ Refresh(t) \/ RunCb(t)
      PROVE  IInv'
  BY <1>3, AddTimerInv, CancelInv, RefreshInv, RunCbInv
<1>4. ASSUME NEW t \in Timers, OnTimerInsertedAtFront(t) PROVE IInv'
  BY <1>4, WaitInv DEF OnTimerInsertedAtFront
<1>5. ASSUME NEW w \in Waiters, EnterIdle(w) \/ GetNextTimer(w) \/ Interrupted(w) \/ Wake(w) PROVE IInv'
  BY <1>5, WaitInv DEF EnterIdle, GetNextTimer, Interrupted, Wake
<1>6. ASSUME NEW w \in Waiters, NEW addr \in Timers, ListExpiredCb(w, addr) PROVE IInv'
  BY <1>6, ListExpiredCbInv
<1>7. CASE UNCHANGED vars
  BY <1>7, WaitInv DEF vars, waitVars
<1> QED
  BY <1>1, <1>2, <1>3, <1>4, <1>5, <1>6, <1>7 DEF Next, Client, Wait

\* The inductive invariant holds always.
THEOREM TimerInvariant == Spec => []IInv
<1> QED
  BY InitInv, NextInv, PTL DEF Spec

\* cancel() finds the timer it erases: the callback of a timer that clients can
\* reach is set exactly while the timer is in m_timers.
THEOREM CancelFindsTimer == Spec => []ArmedIsListed
<1>1. IInv => ArmedIsListed
  BY DEF IInv
<1> QED
  BY <1>1, TimerInvariant, PTL

\* A one-shot callback runs at most once, and never after cancel() returned true.
THEOREM OneShotRunsOnce == Spec => []OneShot
<1>1. IInv => OneShot
  BY DEF IInv
<1> QED
  BY <1>1, TimerInvariant, PTL

-----------------------------------------------------------------------------
\* Only listExpiredCb() collects callbacks.
LEMMA OnlyListing ==
  ASSUME IInv, [Next]_vars,
         NEW t \in Timers, pending'[t] > pending[t]
  PROVE  \E w \in Waiters, addr \in Timers : ListExpiredCb(w, addr)
<1>0. pending[t] \in Nat
  BY DEF IInv, Types
<1>1. pending' # pending
  BY <1>0
<1>2. ASSUME NEW s \in Timers, RunCb(s) PROVE FALSE
  BY <1>0, <1>2 DEF RunCb, IInv, Types
<1>3. CASE Tick \/ UNCHANGED vars
  BY <1>1, <1>3 DEF Tick, vars, runVars
<1>4. ASSUME NEW s \in Timers, NEW interval \in Intervals, NEW flag \in BOOLEAN,
             NewTimer(s, interval, flag) \/ Reset(s, interval, flag)
      PROVE  FALSE
  BY <1>1, <1>4 DEF NewTimer, Reset, runVars
<1>5. ASSUME NEW s \in Timers,
             AddTimer(s) \/ OnTimerInsertedAtFront(s) \/ Cancel(s) \/ Refresh(s)
      PROVE  FALSE
  BY <1>1, <1>5 DEF AddTimer, OnTimerInsertedAtFront, Cancel, Refresh, runVars
<1>6. ASSUME NEW w \in Waiters, EnterIdle(w) \/ GetNextTimer(w) \/ Interrupted(w) \/ Wake(w) PROVE FALSE
  BY <1>1, <1>6 DEF EnterIdle, GetNextTimer, Interrupted, Wake, runVars
<1> QED
  BY <1>2, <1>3, <1>4, <1>5, <1>6 DEF Next, Client, Wait

\* A thread that collects callbacks leaves none behind that is due.
THEOREM NoDueCallbackLeft == Spec => NoneLeftBehind
<1> DEFINE Complete ==
      \A w \in Waiters : waiter[w] = "list" /\ waiter'[w] = "run" =>
        \A t \in m_timers : m_next[t] <= now => pending'[t] > pending[t]
<1>1. IInv /\ [Next]_vars => [Complete]_vars
  <2> SUFFICES ASSUME IInv, Next, NEW w \in Waiters, waiter[w] = "list", waiter'[w] = "run",
                      NEW t \in m_timers, m_next[t] <= now
               PROVE  pending'[t] > pending[t]
    OBVIOUS
  <2>1. \E v \in Waiters, addr \in Timers : ListExpiredCb(v, addr)
    <3>1. waiter' # waiter
      OBVIOUS
    <3>2. ASSUME NEW v \in Waiters, EnterIdle(v) \/ GetNextTimer(v) \/ Interrupted(v) \/ Wake(v)
          PROVE  FALSE
      BY <3>2 DEF EnterIdle, GetNextTimer, Interrupted, Wake, IInv, Types
    <3>3. ~Tick
      BY <3>1 DEF Tick, waitVars
    <3>4. ASSUME NEW s \in Timers, NEW interval \in Intervals, NEW flag \in BOOLEAN,
                 NewTimer(s, interval, flag) \/ Reset(s, interval, flag)
          PROVE  FALSE
      BY <3>1, <3>4 DEF NewTimer, Reset, waitVars
    <3>5. ASSUME NEW s \in Timers,
                 \/ AddTimer(s) \/ OnTimerInsertedAtFront(s)
                 \/ Cancel(s) \/ Refresh(s) \/ RunCb(s)
          PROVE  FALSE
      BY <3>1, <3>5 DEF AddTimer, OnTimerInsertedAtFront, Cancel, Refresh, RunCb, waitVars
    <3> QED
      BY <3>2, <3>3, <3>4, <3>5 DEF Next, Client, Wait
  <2>2. PICK v \in Waiters, addr \in Timers : ListExpiredCb(v, addr)
    BY <2>1
  <2>3. t \in Expired(addr)
    BY ExpiredIsDue
  <2>4. t \in Timers /\ pending[t] \in Nat
    BY DEF IInv, Types
  <2> QED
    BY <2>2, <2>3, <2>4 DEF ListExpiredCb
<1> QED
  BY <1>1, TimerInvariant, PTL DEF Spec, NoneLeftBehind

-----------------------------------------------------------------------------
(* When timers expire.                                                     *)

\* What clients have to keep to: the clock and every interval they ask for add up
\* to less than a uint64_t holds.
NoWrap ==
  /\ BootTime <= MaxTime /\ MaxTime < UintRange
  /\ \A i \in Intervals : MaxTime + i < UintRange

\* An armed timer is not due before its interval has passed since it was started.
ArmedInTime ==
  \A t \in Timers : m_cb[t] => armed[t] + m_interval[t] <= m_next[t]

\* Nothing is further away than its interval, and intervals are what clients
\* asked for.
NotFar ==
  \A t \in Timers : /\ m_interval[t] \in Intervals \cup {0}
                    /\ m_next[t] <= now + m_interval[t]

Timely == ArmedInTime /\ NotFar /\ now <= MaxTime

\* In the beginning no timer is armed.
LEMMA InitTimely ==
  ASSUME NoWrap, Init
  PROVE  Timely
BY TimerAssumption DEF Init, NoWrap, Timely, NotFar, ArmedInTime, TimerAssumption

\* Sums do not wrap around.
LEMMA LaterIsLater ==
  ASSUME NoWrap, NEW time \in Nat, time <= MaxTime, NEW interval \in Intervals \cup {0}
  PROVE  Later(time, interval) = time + interval /\ interval \in Nat
<1>1. interval \in Nat /\ MaxTime \in Nat /\ UintRange \in Nat /\ MaxTime + interval < UintRange
  BY TimerAssumption DEF TimerAssumption, NoWrap
<1>2. time + interval \in 0 .. (UintRange - 1)
  BY <1>1
<1> QED BY <1>1, <1>2 DEF Later

\* No operation makes a timer expire too early, or puts it further away than its
\* interval.  reset() that keeps the start: m_next - m_interval lies between the
\* start of the timer and now, and so does not wrap around.
LEMMA TimelyInv ==
  ASSUME NoWrap, IInv, Timely, [Next]_vars
  PROVE  Timely'
<1> USE DEF IInv, Types
<1>0. Intervals \subseteq Nat /\ MaxTime \in Nat /\ UintRange \in Nat /\ MaxTime < UintRange
  BY TimerAssumption DEF TimerAssumption, NoWrap
<1>1. ASSUME UNCHANGED <<m_next, m_interval, armed>>, \A t \in Timers : m_cb'[t] => m_cb[t],
             now' \in {now, now + 1}, now' <= MaxTime
      PROVE  Timely'
  BY <1>1 DEF Timely, NotFar, ArmedInTime
<1>2. CASE Tick \/ UNCHANGED vars
  BY <1>0, <1>1, <1>2 DEF Tick, vars, timerVars, Timely
<1>3. ASSUME NEW t \in Timers, NEW interval \in Intervals, NEW flag \in BOOLEAN,
             NewTimer(t, interval, flag)
      PROVE  Timely'
  <2>1. Later(now, interval) = now + interval /\ interval \in Nat
    BY LaterIsLater DEF Timely
  <2> QED BY <1>3, <2>1 DEF Timely, NotFar, ArmedInTime, NewTimer
<1>4. ASSUME NEW t \in Timers, NEW interval \in Intervals, NEW flag \in BOOLEAN,
             Reset(t, interval, flag)
      PROVE  Timely'
  <2> DEFINE start == IF flag THEN now ELSE (m_next[t] - m_interval[t]) % UintRange
  <2>1. start \in Nat /\ start <= now /\ (~flag => armed[t] <= start)
    <3>1. CASE flag
      BY <3>1
    <3>2. CASE ~flag
      <4>1. /\ m_next[t] - m_interval[t] \in 0 .. (UintRange - 1)
            /\ m_next[t] - m_interval[t] <= now
            /\ armed[t] <= m_next[t] - m_interval[t]
        BY <1>0, <1>4 DEF Reset, Timely, NotFar, ArmedInTime
      <4>2. start = m_next[t] - m_interval[t]
        BY <1>0, <3>2, <4>1
      <4> QED BY <4>1, <4>2
    <3> QED BY <3>1, <3>2
  <2>2. m_next' = [m_next EXCEPT ![t] = Later(start, interval)]
    BY <1>4 DEF Reset
  <2> HIDE DEF start
  <2>3. Later(start, interval) = start + interval /\ interval \in Nat
    BY <1>0, <2>1, LaterIsLater DEF Timely
  <2>4. /\ m_interval' = [m_interval EXCEPT ![t] = interval]
        /\ armed' = [armed EXCEPT ![t] = IF flag THEN now ELSE @]
        /\ UNCHANGED <<now, m_cb>>
    BY <1>4 DEF Reset
  <2>a. CASE flag
    <3>1. armed' = [armed EXCEPT ![t] = now]
      BY <2>4, <2>a
    <3>2. start = now
      BY <2>a DEF start
    <3> QED BY <2>2, <2>3, <2>4, <3>1, <3>2 DEF Timely, NotFar, ArmedInTime
  <2>b. CASE ~flag
    <3>1. armed' = armed
      BY <2>4, <2>b
    <3> QED BY <2>1, <2>b, <2>2, <2>3, <2>4, <3>1 DEF Timely, NotFar, ArmedInTime
  <2> QED BY <2>a, <2>b
<1>5. ASSUME NEW t \in Timers, Refresh(t) PROVE Timely'
  <2>1. Later(now, m_interval[t]) = now + m_interval[t]
    BY LaterIsLater DEF Timely, NotFar
  <2> QED BY <1>5, <2>1 DEF Timely, NotFar, ArmedInTime, Refresh
<1>6. ASSUME NEW t \in Timers,
             AddTimer(t) \/ OnTimerInsertedAtFront(t) \/ Cancel(t) \/ RunCb(t)
      PROVE  Timely'
  BY <1>1, <1>6 DEF AddTimer, OnTimerInsertedAtFront, Cancel, RunCb, timerVars, Timely
<1>7. ASSUME NEW w \in Waiters, EnterIdle(w) \/ GetNextTimer(w) \/ Interrupted(w) \/ Wake(w)
      PROVE  Timely'
  BY <1>1, <1>7 DEF EnterIdle, GetNextTimer, Interrupted, Wake, timerVars, Timely
<1>8. ASSUME NEW w \in Waiters, NEW addr \in Timers, ListExpiredCb(w, addr) PROVE Timely'
  <2> DEFINE expired == Expired(addr)
  <2>1. \A t \in Timers : Later(now, m_interval[t]) = now + m_interval[t]
    BY LaterIsLater DEF Timely, NotFar
  <2>2. /\ m_next' = [t \in Timers |-> IF t \in expired /\ m_recurring[t]
                                       THEN Later(now, m_interval[t]) ELSE m_next[t]]
        /\ armed' = [t \in Timers |-> IF t \in expired THEN now ELSE armed[t]]
        /\ m_cb' = [t \in Timers |-> m_cb[t] /\ (t \in expired => m_recurring[t])]
        /\ UNCHANGED <<now, m_interval>>
    BY <1>8 DEF ListExpiredCb
  <2> HIDE DEF expired
  <2> QED BY <2>1, <2>2 DEF Timely, NotFar, ArmedInTime
<1> QED
  BY <1>2, <1>3, <1>4, <1>5, <1>6, <1>7, <1>8 DEF Next, Client, Wait

\* No callback is collected before its interval has passed, whatever clients do
\* to the timer meanwhile and however small the uptime is.
THEOREM NoCallbackEarly ==
  ASSUME NoWrap
  PROVE  Spec => NeverEarly
<1> DEFINE Early == \A t \in Timers : pending'[t] > pending[t] => now >= armed[t] + m_interval[t]
<1>1. IInv /\ Timely /\ [Next]_vars => [Early]_vars
  <2> SUFFICES ASSUME IInv, Timely, [Next]_vars, NEW t \in Timers, pending'[t] > pending[t]
               PROVE  now >= armed[t] + m_interval[t]
    OBVIOUS
  <2>1. PICK w \in Waiters, addr \in Timers : ListExpiredCb(w, addr)
    BY OnlyListing
  <2>2. t \in Expired(addr)
    BY <2>1 DEF ListExpiredCb, IInv, Types
  <2>3. t \in m_timers /\ m_next[t] <= now
    BY <2>2, ExpiredIsDue
  <2> QED
    BY <2>3 DEF IInv, Types, ArmedIsListed, Timely, ArmedInTime
<1>2. Init => Timely
  BY InitTimely
<1>3. IInv /\ Timely /\ [Next]_vars => Timely'
  BY TimelyInv
<1> QED
  BY <1>1, <1>2, <1>3, TimerInvariant, PTL DEF Spec, NeverEarly

-----------------------------------------------------------------------------
(* The waiting threads.                                                    *)

WaitTypes ==
  /\ tickling \subseteq Timers
  /\ m_tickled \in BOOLEAN /\ tickle \in BOOLEAN
  /\ aim \in [Waiters -> Nat \cup {-1}]
  /\ nextTimeout \in [Waiters -> Int] /\ lost \in [Waiters -> Int]

\* A thread that waits although m_tickled is set is about to be woken.
TickleIsOnTheWay ==
  \A w \in Waiters : waiter[w] = "wait" /\ m_tickled => tickle \/ tickling # {}

\* Who is to return at some time has given epoll_wait() one, and nobody who does
\* not wait has lost time.
SleepsAsTold ==
  \A w \in Waiters : /\ aim[w] >= 0 => nextTimeout[w] >= 0
                     /\ waiter[w] # "wait" => lost[w] = 0

\* The first timer of a set that is not empty.
LEMMA Front ==
  ASSUME IInv, m_timers # {}
  PROVE  LET due == Min({m_next[t] : t \in m_timers})
         IN  /\ due \in Nat
             /\ \E t \in m_timers : due = m_next[t]
             /\ \A t \in m_timers : due <= m_next[t]
<1> DEFINE S == {m_next[t] : t \in m_timers}
<1>1. S \subseteq Nat /\ S # {}
  BY DEF IInv, Types
<1>2. \E x \in S : \A y \in S : x <= y
  <2>1. PICK x \in S : \A y \in S : <<y, x>> \notin OpToRel(<, Nat)
    <3> HIDE DEF S
    <3> QED BY <1>1, NatLessThanWellFounded, WFMin, Zenon
  <2>2. ASSUME NEW y \in S PROVE x <= y
    <3>0. x \in Nat /\ y \in Nat
      BY <1>1
    <3>1. ~(y < x)
      BY <2>1, <3>0 DEF OpToRel
    <3> QED BY <3>0, <3>1
  <2> QED BY <2>2
<1>3. Min(S) \in S /\ \A y \in S : Min(S) <= y
  <2> HIDE DEF S
  <2> QED BY <1>2 DEF Min
<1> QED BY <1>1, <1>3

\* The value handed to epoll_wait() is an int.
LEMMA WaitMsInt ==
  ASSUME NEW x \in Nat
  PROVE  WaitMs(x) \in Int
BY TimerAssumption DEF TimerAssumption, WaitMs, ToInt

\* Below half the range of an int the cast changes nothing.
LEMMA WaitMsSmall ==
  ASSUME NEW x \in Nat, x < IntRange \div 2
  PROVE  WaitMs(x) \in Nat /\ WaitMs(x) <= x
<1> DEFINE h == IntRange \div 2
<1>1. h \in Nat /\ h + h <= IntRange /\ IntRange \in Nat /\ IntRange > 0
  BY TimerAssumption DEF TimerAssumption
<1>2. x + h \in 0 .. (IntRange - 1)
  BY <1>1
<1>3. (x + h) % IntRange = x + h
  <2> HIDE DEF h
  <2> QED BY <1>1, <1>2
<1>4. ToInt(x) = x
  BY <1>1, <1>3 DEF ToInt
<1> QED BY <1>4, TimerAssumption DEF WaitMs, TimerAssumption

\* Whatever the intervals are, waits are given to epoll_wait() as some time from
\* now or as -1.
LEMMA WaitTypesInv ==
  ASSUME IInv, WaitTypes, [Next]_vars
  PROVE  WaitTypes'
<1> USE DEF sleepVars
<1>1. CASE Tick \/ UNCHANGED vars
  BY <1>1 DEF WaitTypes, Tick, vars, waitVars
<1>2. ASSUME NEW t \in Timers, NEW interval \in Intervals, NEW flag \in BOOLEAN,
             NewTimer(t, interval, flag)
      PROVE  WaitTypes'
  BY <1>2 DEF WaitTypes, NewTimer, waitVars
<1>3. ASSUME NEW t \in Timers, NEW next, NEW others, Insert(t, next, others),
             UNCHANGED sleepVars, tickle' = tickle
      PROVE  WaitTypes'
  BY <1>3 DEF WaitTypes, Insert
<1>4. ASSUME NEW t \in Timers, NEW interval \in Intervals, NEW flag \in BOOLEAN,
             Reset(t, interval, flag)
      PROVE  WaitTypes'
  BY <1>3, <1>4 DEF Reset
<1>5. ASSUME NEW t \in Timers, AddTimer(t) PROVE WaitTypes'
  BY <1>3, <1>5 DEF AddTimer
<1>6. ASSUME NEW t \in Timers,
             OnTimerInsertedAtFront(t) \/ Cancel(t) \/ Refresh(t) \/ RunCb(t)
      PROVE  WaitTypes'
  BY <1>6 DEF WaitTypes, OnTimerInsertedAtFront, Cancel, Refresh, RunCb, waitVars
<1>a. ASSUME NEW w \in Waiters, NEW x \in Nat \cup {-1}, aim' = [aim EXCEPT ![w] = x]
      PROVE  aim' \in [Waiters -> Nat \cup {-1}]
  <2> DEFINE Aims == Nat \cup {-1}
  <2>1. aim \in [Waiters -> Aims] /\ x \in Aims
    BY DEF WaitTypes
  <2> HIDE DEF Aims
  <2>2. aim' \in [Waiters -> Aims]
    BY <1>a, <2>1
  <2> QED BY <2>2 DEF Aims
<1>b. ASSUME NEW w \in Waiters, NEW ms \in Int, Sleep(w, ms)
      PROVE  aim' \in [Waiters -> Nat \cup {-1}] /\ nextTimeout' \in [Waiters -> Int]
  <2>1. (IF ms < 0 THEN -1 ELSE now + ms) \in Nat \cup {-1}
    BY DEF IInv, Types
  <2>2. aim' = [aim EXCEPT ![w] = IF ms < 0 THEN -1 ELSE now + ms]
    BY <1>b DEF Sleep
  <2>3. aim' \in [Waiters -> Nat \cup {-1}]
    BY <1>a, <2>1, <2>2
  <2> QED BY <1>b, <2>3 DEF Sleep, WaitTypes
<1>7. ASSUME NEW w \in Waiters, EnterIdle(w) PROVE WaitTypes'
  BY <1>7 DEF WaitTypes, EnterIdle
<1>8. ASSUME NEW w \in Waiters, NEW addr \in Timers, ListExpiredCb(w, addr) PROVE WaitTypes'
  BY <1>8 DEF WaitTypes, ListExpiredCb
<1>9. ASSUME NEW w \in Waiters, GetNextTimer(w) PROVE WaitTypes'
  <2> DEFINE due == Min({m_next[t] : t \in m_timers})
             ms == IF m_timers = {} THEN MaxTimeout
                   ELSE WaitMs(IF now >= due THEN 0 ELSE due - now)
  <2>1. now \in Nat
    BY DEF IInv, Types
  <2>2. ms \in Int
    <3>1. m_timers # {} => (IF now >= due THEN 0 ELSE due - now) \in Nat
      BY <2>1, Front
    <3> QED BY <3>1, WaitMsInt, TimerAssumption DEF TimerAssumption
  <2>3. Sleep(w, ms)
    BY <1>9 DEF GetNextTimer
  <2> HIDE DEF ms
  <2>4. m_tickled' = FALSE /\ tickling' = tickling /\ tickle' = tickle /\ lost' = lost
    BY <1>9 DEF GetNextTimer
  <2> QED BY <1>b, <2>2, <2>3, <2>4 DEF WaitTypes
<1>10. ASSUME NEW w \in Waiters, Wake(w) PROVE WaitTypes'
  <2>1. /\ aim' = [aim EXCEPT ![w] = 0]
        /\ nextTimeout' = [nextTimeout EXCEPT ![w] = 0]
        /\ lost' = [lost EXCEPT ![w] = 0]
        /\ tickle' = FALSE /\ UNCHANGED <<tickling, m_tickled>>
    BY <1>10 DEF Wake
  <2>2. aim' \in [Waiters -> Nat \cup {-1}]
    BY <1>a, <2>1
  <2>3. nextTimeout' \in [Waiters -> Int] /\ lost' \in [Waiters -> Int]
    BY <2>1 DEF WaitTypes
  <2>4. tickling' \subseteq Timers /\ m_tickled' \in BOOLEAN /\ tickle' \in BOOLEAN
    BY <2>1 DEF WaitTypes
  <2> QED BY <2>2, <2>3, <2>4 DEF WaitTypes
<1>11. ASSUME NEW w \in Waiters, Interrupted(w) PROVE WaitTypes'
  <2> DEFINE ms == IF nextTimeout[w] = -1 THEN MaxTimeout ELSE nextTimeout[w]
             passed == IF aim[w] < 0 THEN lost[w]
                       ELSE lost[w] + (now - (aim[w] - nextTimeout[w]))
  <2>1. ms \in Int /\ passed \in Int
    BY TimerAssumption DEF WaitTypes, TimerAssumption, IInv, Types
  <2>2. Sleep(w, ms) /\ lost' = [lost EXCEPT ![w] = passed]
    BY <1>11 DEF Interrupted
  <2>3. UNCHANGED <<tickling, tickle, m_tickled>>
    BY <1>11 DEF Interrupted
  <2> HIDE DEF ms, passed
  <2> QED BY <1>b, <2>1, <2>2, <2>3 DEF WaitTypes
<1> QED
  BY <1>1, <1>2, <1>4, <1>5, <1>6, <1>7, <1>8, <1>9, <1>10, <1>11 DEF Next, Client, Wait

-----------------------------------------------------------------------------
(* One waiting thread sleeps no longer than until the first timer.         *)

\* A step that leaves a waiting thread waiting as before and that takes no
\* wake-up back; timers may go, or move back.
LEMMA StillAwaited ==
  ASSUME IInv, WaitTypes, FrontIsAwaited, TickleIsOnTheWay,
         Types', UNCHANGED sleepVars, m_tickled' = m_tickled,
         \A w \in Waiters : waiter'[w] = "wait" => waiter[w] = "wait",
         (\E w \in Waiters : waiter[w] = "wait") /\ (tickle \/ tickling # {})
            => tickle' \/ tickling' # {},
         \A t \in m_timers' : t \in m_timers /\ m_next[t] <= m_next'[t]
  PROVE  FrontIsAwaited' /\ TickleIsOnTheWay'
<1> USE DEF sleepVars
<1>1. ASSUME NEW w \in Waiters, waiter'[w] = "wait"
      PROVE  \/ tickle' \/ tickling' # {} \/ nextTimeout'[w] = 0
             \/ \A t \in m_timers' : aim'[w] >= 0 /\ aim'[w] - lost'[w] <= m_next'[t]
  <2>1. waiter[w] = "wait" /\ aim[w] \in Int /\ lost[w] \in Int
    BY <1>1 DEF WaitTypes
  <2>2. CASE tickle \/ tickling # {}
    BY <2>1, <2>2
  <2>3. CASE \A t \in m_timers : aim[w] >= 0 /\ aim[w] - lost[w] <= m_next[t]
    <3>1. ASSUME NEW t \in m_timers' PROVE aim'[w] >= 0 /\ aim'[w] - lost'[w] <= m_next'[t]
      BY <2>1, <2>3 DEF IInv, Types
    <3> QED BY <3>1
  <2>4. CASE nextTimeout[w] = 0
    BY <2>4
  <2> QED BY <2>1, <2>2, <2>3, <2>4 DEF FrontIsAwaited
<1>2. FrontIsAwaited'
  BY <1>1 DEF FrontIsAwaited
<1>3. TickleIsOnTheWay'
  BY DEF TickleIsOnTheWay
<1> QED BY <1>2, <1>3

\* An insertion: at the front a wake-up is sent or on its way already; behind
\* another timer nothing changes for the waiting thread.
LEMMA InsertAwaited ==
  ASSUME IInv, WaitTypes, FrontIsAwaited, TickleIsOnTheWay,
         Types', UNCHANGED <<sleepVars, now, tickle, waiter>>,
         NEW t \in Timers, NEW others \in SUBSET m_timers, t \notin others,
         Insert(t, m_next', others),
         \A s \in others : m_next'[s] = m_next[s]
  PROVE  FrontIsAwaited' /\ TickleIsOnTheWay'
<1> USE DEF sleepVars
<1> DEFINE first == \A s \in others : Precedes(m_next', t, s)
<1>1. /\ m_timers' = others \cup {t}
      /\ m_tickled' = (m_tickled \/ first)
      /\ tickling' = IF first /\ ~m_tickled THEN tickling \cup {t} ELSE tickling
  BY DEF Insert
<1>2. tickling \subseteq tickling'
  BY <1>1
<1>3. TickleIsOnTheWay'
  <2> HIDE DEF first
  <2> QED BY <1>1, <1>2 DEF TickleIsOnTheWay, WaitTypes
<1>4. CASE first
  <2>1. \A w \in Waiters : waiter[w] = "wait" => tickle' \/ tickling' # {}
    <3> HIDE DEF first
    <3> QED BY <1>1, <1>4 DEF TickleIsOnTheWay, WaitTypes
  <2> QED BY <1>3, <2>1 DEF FrontIsAwaited
<1>5. CASE ~first
  <2>1. PICK s \in others : ~Precedes(m_next', t, s)
    BY <1>5
  <2>2. s \in m_timers /\ m_next[s] <= m_next'[t]
    BY <2>1 DEF Precedes, IInv, Types
  <2>3. ASSUME NEW w \in Waiters,
               \A r \in m_timers : aim[w] >= 0 /\ aim[w] - lost[w] <= m_next[r]
        PROVE  \A r \in m_timers' : aim'[w] >= 0 /\ aim'[w] - lost'[w] <= m_next'[r]
    <3> HIDE DEF first
    <3>1. aim[w] >= 0 /\ aim[w] - lost[w] <= m_next[s] /\ aim[w] \in Int /\ lost[w] \in Int
      BY <2>2, <2>3 DEF WaitTypes
    <3>2. m_next[s] \in Nat /\ m_next'[t] \in Nat
      BY <2>2 DEF IInv, Types
    <3>3. aim[w] - lost[w] <= m_next'[t]
      BY <2>2, <3>1, <3>2
    <3> QED BY <1>1, <2>3, <3>1, <3>3
  <2>4. FrontIsAwaited'
    BY <1>2, <2>3 DEF FrontIsAwaited
  <2> QED BY <1>3, <2>4
<1> QED BY <1>4, <1>5


\* What FrontIsAwaited needs of the constants: intervals that an int holds, and
\* one waiting thread (of several, the one that is woken need not be the one
\* that sleeps too long).
IntervalsFit == 1 < IntRange /\ \A i \in Intervals : i < IntRange \div 2
OneWaiter == \A v, w \in Waiters : v = w

\* getNextTimer() aims no further than at the first timer.
LEMMA AimsAtFront ==
  ASSUME IInv, NotFar, WaitTypes, SleepsAsTold, IntervalsFit,
         NEW w \in Waiters, GetNextTimer(w)
  PROVE  \/ nextTimeout'[w] = 0
         \/ \A t \in m_timers : aim'[w] >= 0 /\ aim'[w] - lost'[w] <= m_next[t]
<1> DEFINE due == Min({m_next[s] : s \in m_timers})
           left == IF now >= due THEN 0 ELSE due - now
           ms == IF m_timers = {} THEN MaxTimeout ELSE WaitMs(left)
<1>0. now \in Nat /\ m_next \in [Timers -> Nat] /\ m_timers \subseteq Timers
  BY DEF IInv, Types
<1>1. Sleep(w, ms)
  BY DEF GetNextTimer
<1>a. lost'[w] = 0
  BY DEF GetNextTimer, SleepsAsTold
<1>2. CASE m_timers = {}
  BY <1>2
<1>3. CASE m_timers # {}
  <2>1. due \in Nat /\ \A t \in m_timers : due <= m_next[t]
    BY <1>3, Front
  <2>2. PICK s \in m_timers : due = m_next[s]
    BY <1>3, Front
  <2>3. /\ due <= now + m_interval[s] /\ m_interval[s] \in Nat
        /\ m_interval[s] \in Intervals \cup {0}
    BY <2>2 DEF NotFar, IInv, Types
  <2>4. IntRange \div 2 \in Nat /\ 0 < IntRange \div 2
    BY TimerAssumption DEF TimerAssumption, IntervalsFit
  <2>5. m_interval[s] < IntRange \div 2
    BY <2>3, <2>4 DEF IntervalsFit
  <2> HIDE DEF due
  <2>6. left \in Nat /\ left < IntRange \div 2
    BY <1>0, <2>1, <2>3, <2>4, <2>5
  <2>7. ms \in Nat /\ ms <= left
    BY <1>3, <2>6, WaitMsSmall
  <2> HIDE DEF ms
  <2>8. aim'[w] = now + ms /\ nextTimeout'[w] = ms
    <3>1. aim'[w] = IF ms < 0 THEN -1 ELSE now + ms
      BY <1>1 DEF WaitTypes, Sleep
    <3>2. nextTimeout'[w] = ms
      BY <1>1 DEF WaitTypes, Sleep
    <3> QED BY <2>7, <3>1, <3>2
  <2>9. CASE now >= due
    BY <1>0, <2>7, <2>8, <2>9
  <2>10. CASE ~(now >= due)
    <3>1. aim'[w] >= 0 /\ aim'[w] <= due
      BY <1>0, <2>1, <2>7, <2>8, <2>10
    <3>2. ASSUME NEW t \in m_timers PROVE aim'[w] - lost'[w] <= m_next[t]
      <4>1. due <= m_next[t] /\ m_next[t] \in Nat
        BY <1>0, <2>1
      <4>2. aim'[w] \in Nat
        BY <1>0, <2>7, <2>8
      <4> QED BY <1>a, <2>1, <3>1, <4>1, <4>2
    <3> QED BY <3>1, <3>2
  <2> QED BY <2>9, <2>10
<1> QED BY <1>2, <1>3

\* A signal moves the end of the wait by the time that had passed, and no more.
LEMMA InterruptedAwaits ==
  ASSUME IInv, WaitTypes, SleepsAsTold, FrontIsAwaited, TickleIsOnTheWay, OneWaiter,
         NEW w \in Waiters, Interrupted(w)
  PROVE  FrontIsAwaited' /\ TickleIsOnTheWay'
<1>1. /\ waiter[w] = "wait"
      /\ UNCHANGED <<m_timers, m_tickled, tickling, tickle, waiter, m_next>>
  BY DEF Interrupted, timerVars
<1>2. \A v \in Waiters : v = w
  BY DEF OneWaiter
<1>3. now \in Nat /\ aim[w] \in Int /\ nextTimeout[w] \in Int /\ lost[w] \in Int
  BY DEF IInv, Types, WaitTypes
<1>4. /\ nextTimeout'[w] = IF nextTimeout[w] = -1 THEN MaxTimeout ELSE nextTimeout[w]
      /\ aim'[w] = IF nextTimeout'[w] < 0 THEN -1 ELSE now + nextTimeout'[w]
      /\ lost'[w] = IF aim[w] < 0 THEN lost[w]
                    ELSE lost[w] + (now - (aim[w] - nextTimeout[w]))
  BY DEF Interrupted, Sleep, WaitTypes
<1>5. TickleIsOnTheWay'
  BY <1>1 DEF TickleIsOnTheWay
<1>6. ASSUME nextTimeout[w] >= 0, aim[w] >= 0
      PROVE  aim'[w] >= 0 /\ aim'[w] - lost'[w] = aim[w] - lost[w]
  BY <1>3, <1>4, <1>6
<1>7. CASE tickle \/ tickling # {}
  BY <1>1, <1>5, <1>7 DEF FrontIsAwaited
<1>8. CASE nextTimeout[w] = 0
  <2>1. nextTimeout'[w] = 0
    BY <1>4, <1>8
  <2> QED BY <1>2, <1>5, <2>1 DEF FrontIsAwaited
<1>9. CASE \A t \in m_timers : aim[w] >= 0 /\ aim[w] - lost[w] <= m_next[t]
  <2>1. ASSUME NEW t \in m_timers' PROVE aim'[w] >= 0 /\ aim'[w] - lost'[w] <= m_next'[t]
    <3>1. t \in m_timers /\ m_next'[t] = m_next[t]
      BY <1>1
    <3>2. aim[w] >= 0 /\ nextTimeout[w] >= 0
      BY <1>9, <3>1 DEF SleepsAsTold
    <3> QED BY <1>6, <1>9, <3>1, <3>2
  <2> QED BY <1>2, <1>5, <2>1 DEF FrontIsAwaited
<1> QED BY <1>1, <1>7, <1>8, <1>9 DEF FrontIsAwaited

\* Only a thread that waits loses time.
LEMMA SleepsAsToldInv ==
  ASSUME IInv, WaitTypes, SleepsAsTold, [Next]_vars
  PROVE  SleepsAsTold'
<1> USE DEF sleepVars
<1>1. ASSUME UNCHANGED sleepVars,
             \A w \in Waiters : waiter'[w] # "wait" => waiter[w] # "wait"
      PROVE  SleepsAsTold'
  BY <1>1 DEF SleepsAsTold
<1>2. CASE Tick \/ UNCHANGED vars
  BY <1>1, <1>2 DEF Tick, vars, waitVars
<1>3. ASSUME NEW t \in Timers, NEW interval \in Intervals, NEW flag \in BOOLEAN,
             NewTimer(t, interval, flag) \/ Reset(t, interval, flag)
      PROVE  SleepsAsTold'
  BY <1>1, <1>3 DEF NewTimer, Reset, waitVars
<1>4. ASSUME NEW t \in Timers,
             \/ AddTimer(t) \/ OnTimerInsertedAtFront(t)
             \/ Cancel(t) \/ Refresh(t) \/ RunCb(t)
      PROVE  SleepsAsTold'
  BY <1>1, <1>4 DEF AddTimer, OnTimerInsertedAtFront, Cancel, Refresh, RunCb, waitVars
<1>5. ASSUME NEW w \in Waiters, EnterIdle(w) PROVE SleepsAsTold'
  BY <1>1, <1>5 DEF EnterIdle, IInv, Types
<1>6. ASSUME NEW w \in Waiters, NEW addr \in Timers, ListExpiredCb(w, addr)
      PROVE  SleepsAsTold'
  BY <1>1, <1>6 DEF ListExpiredCb, IInv, Types
<1>7. ASSUME NEW w \in Waiters, NEW ms, Sleep(w, ms), ms \in Int,
             \A v \in Waiters : waiter'[v] # "wait" => waiter[v] # "wait" /\ lost'[v] = lost[v]
      PROVE  SleepsAsTold'
  <2>1. now \in Nat
    BY DEF IInv, Types
  <2>2. \A v \in Waiters : aim'[v] >= 0 => nextTimeout'[v] >= 0
    BY <1>7, <2>1 DEF Sleep, SleepsAsTold, WaitTypes
  <2> QED BY <1>7, <2>2 DEF SleepsAsTold
<1>8. ASSUME NEW w \in Waiters, GetNextTimer(w) PROVE SleepsAsTold'
  <2> DEFINE due == Min({m_next[t] : t \in m_timers})
             ms == IF m_timers = {} THEN MaxTimeout
                   ELSE WaitMs(IF now >= due THEN 0 ELSE due - now)
  <2>1. Sleep(w, ms) /\ lost' = lost /\ waiter' = [waiter EXCEPT ![w] = "wait"]
    BY <1>8 DEF GetNextTimer
  <2>2. ms \in Int
    <3>1. m_timers # {} => (IF now >= due THEN 0 ELSE due - now) \in Nat
      BY Front DEF IInv, Types
    <3> QED BY <3>1, WaitMsInt, TimerAssumption DEF TimerAssumption
  <2> HIDE DEF ms
  <2> QED BY <1>7, <2>1, <2>2 DEF IInv, Types
<1>9. ASSUME NEW w \in Waiters, Interrupted(w) PROVE SleepsAsTold'
  <2> DEFINE ms == IF nextTimeout[w] = -1 THEN MaxTimeout ELSE nextTimeout[w]
  <2>1. Sleep(w, ms) /\ waiter' = waiter /\ waiter[w] = "wait"
    BY <1>9 DEF Interrupted
  <2>2. \A v \in Waiters : v # w => lost'[v] = lost[v]
    BY <1>9 DEF Interrupted, WaitTypes
  <2>3. ms \in Int
    BY TimerAssumption DEF TimerAssumption, WaitTypes
  <2> HIDE DEF ms
  <2> QED BY <1>7, <2>1, <2>2, <2>3
<1>10. ASSUME NEW w \in Waiters, Wake(w) PROVE SleepsAsTold'
  BY <1>10 DEF Wake, SleepsAsTold, WaitTypes, IInv, Types
<1> QED
  BY <1>2, <1>3, <1>4, <1>5, <1>6, <1>8, <1>9, <1>10 DEF Next, Client, Wait

\* Every step keeps the waiting thread's aim before the first timer, or leaves a
\* wake-up for it.
LEMMA AwaitedInv ==
  ASSUME NoWrap, OneWaiter, IntervalsFit,
         IInv, WaitTypes, Timely, SleepsAsTold, FrontIsAwaited, TickleIsOnTheWay, [Next]_vars
  PROVE  FrontIsAwaited' /\ TickleIsOnTheWay'
<1>0. Types' /\ Types
  BY NextInv DEF IInv
<1>a. now \in Nat /\ \A t \in m_timers : m_next[t] \in Nat
  BY <1>0 DEF Types
<1>1. CASE Tick \/ UNCHANGED vars
  BY <1>0, <1>a, <1>1, StillAwaited DEF Tick, vars, waitVars, timerVars
<1>2. ASSUME NEW t \in Timers, NEW interval \in Intervals, NEW flag \in BOOLEAN,
             NewTimer(t, interval, flag)
      PROVE  FrontIsAwaited' /\ TickleIsOnTheWay'
  <2>1. \A s \in m_timers : m_next'[s] = m_next[s]
    BY <1>0, <1>2 DEF NewTimer, IInv, Types, ArmedIsListed
  <2> QED BY <1>0, <1>a, <1>2, <2>1, StillAwaited DEF NewTimer, waitVars
<1>3. ASSUME NEW t \in Timers, NEW interval \in Intervals, NEW flag \in BOOLEAN,
             Reset(t, interval, flag)
      PROVE  FrontIsAwaited' /\ TickleIsOnTheWay'
  <2>1. Insert(t, m_next', m_timers \ {t})
    BY <1>3 DEF Reset
  <2>2. \A s \in m_timers \ {t} : m_next'[s] = m_next[s]
    BY <1>0, <1>3 DEF Reset, Types
  <2>3. UNCHANGED <<sleepVars, now, tickle, waiter>>
    BY <1>3 DEF Reset
  <2> QED BY <1>0, <2>1, <2>2, <2>3, InsertAwaited
<1>4. ASSUME NEW t \in Timers, AddTimer(t) PROVE FrontIsAwaited' /\ TickleIsOnTheWay'
  <2>1. Insert(t, m_next', m_timers) /\ t \notin m_timers
    BY <1>4 DEF AddTimer, Insert, Precedes, IInv, ArmedIsListed
  <2>2. UNCHANGED <<sleepVars, now, tickle, waiter>> /\ m_next' = m_next
    BY <1>4 DEF AddTimer
  <2> QED BY <1>0, <2>1, <2>2, InsertAwaited
<1>5. ASSUME NEW t \in Timers, OnTimerInsertedAtFront(t)
      PROVE  FrontIsAwaited' /\ TickleIsOnTheWay'
  <2>1. (\E w \in Waiters : waiter[w] = "wait") => tickle'
    BY <1>5 DEF OnTimerInsertedAtFront, HasIdleThreads
  <2> QED
    BY <1>0, <1>a, <1>5, <2>1, StillAwaited DEF OnTimerInsertedAtFront, timerVars
<1>6. ASSUME NEW t \in Timers, Cancel(t) \/ RunCb(t)
      PROVE  FrontIsAwaited' /\ TickleIsOnTheWay'
  BY <1>0, <1>a, <1>6, StillAwaited DEF Cancel, RunCb, waitVars, timerVars
<1>7. ASSUME NEW t \in Timers, Refresh(t) PROVE FrontIsAwaited' /\ TickleIsOnTheWay'
  <2>0. Later(now, m_interval[t]) = now + m_interval[t]
    BY <1>0, LaterIsLater DEF Types, Timely, NotFar
  <2>1. \A s \in m_timers : m_next[s] <= m_next'[s]
    BY <1>0, <1>7, <2>0 DEF Refresh, Types, Timely, NotFar
  <2> QED BY <1>0, <1>a, <1>7, <2>1, StillAwaited DEF Refresh, waitVars
<1>8. ASSUME NEW w \in Waiters, EnterIdle(w) \/ Wake(w)
      PROVE  FrontIsAwaited' /\ TickleIsOnTheWay'
  <2>1. \A v \in Waiters : waiter'[v] # "wait"
    BY <1>0, <1>8 DEF EnterIdle, Wake, Types, OneWaiter
  <2> QED BY <2>1 DEF FrontIsAwaited, TickleIsOnTheWay
<1>9. ASSUME NEW w \in Waiters, NEW addr \in Timers, ListExpiredCb(w, addr)
      PROVE  FrontIsAwaited' /\ TickleIsOnTheWay'
  <2>1. \A v \in Waiters : waiter'[v] # "wait"
    BY <1>0, <1>9 DEF ListExpiredCb, Types, OneWaiter
  <2> QED BY <2>1 DEF FrontIsAwaited, TickleIsOnTheWay
<1>10. ASSUME NEW w \in Waiters, GetNextTimer(w)
       PROVE  FrontIsAwaited' /\ TickleIsOnTheWay'
  <2>1. m_tickled' = FALSE /\ m_timers' = m_timers /\ m_next' = m_next /\ now' = now
    BY <1>10 DEF GetNextTimer, timerVars
  <2>2. \A v \in Waiters : v = w
    BY DEF OneWaiter
  <2> QED BY <1>10, <2>1, <2>2, AimsAtFront DEF FrontIsAwaited, TickleIsOnTheWay, Timely
<1>11. ASSUME NEW w \in Waiters, Interrupted(w)
       PROVE  FrontIsAwaited' /\ TickleIsOnTheWay'
  BY <1>11, InterruptedAwaits
<1> QED
  BY <1>1, <1>2, <1>3, <1>4, <1>5, <1>6, <1>7, <1>8, <1>9, <1>10, <1>11
  DEF Next, Client, Wait

\* In the beginning nobody waits.
LEMMA InitWaits ==
  ASSUME Init
  PROVE  WaitTypes /\ SleepsAsTold /\ FrontIsAwaited /\ TickleIsOnTheWay
<1>1. aim \in [Waiters -> Nat \cup {-1}]
  <2> DEFINE Aims == Nat \cup {-1}
  <2>1. 0 \in Aims
    OBVIOUS
  <2> HIDE DEF Aims
  <2>2. aim \in [Waiters -> Aims]
    BY <2>1 DEF Init
  <2> QED BY <2>2 DEF Aims
<1>2. WaitTypes
  <2>1. tickling = {} /\ m_tickled = FALSE /\ tickle = FALSE
    BY DEF Init
  <2>2. nextTimeout \in [Waiters -> Int] /\ lost \in [Waiters -> Int]
    BY DEF Init
  <2> QED BY <1>1, <2>1, <2>2 DEF WaitTypes
<1>3. SleepsAsTold
  BY DEF Init, SleepsAsTold
<1>4. FrontIsAwaited /\ TickleIsOnTheWay
  BY DEF Init, FrontIsAwaited, TickleIsOnTheWay
<1> QED BY <1>2, <1>3, <1>4

\* Timers, waiters and the pipe keep their types: what epoll_wait() gets is a
\* time to come or "for ever", however large the intervals are.
THEOREM TimerTypes == Spec => []TypeOK
<1>1. Init => WaitTypes
  BY InitWaits
<1>2. IInv /\ WaitTypes /\ [Next]_vars => WaitTypes'
  BY WaitTypesInv
<1>3. IInv /\ WaitTypes => TypeOK
  BY DEF IInv, Types, WaitTypes, TypeOK
<1> QED
  BY <1>1, <1>2, <1>3, TimerInvariant, PTL DEF Spec

\* One waiting thread never sleeps beyond the first timer unless it is about to
\* be woken, although insertions at the front skip the wake-up while m_tickled
\* is set; signals delay it by no more than the time it had slept before them.
THEOREM FrontAwaited ==
  ASSUME NoWrap, OneWaiter, IntervalsFit
  PROVE  Spec => []FrontIsAwaited
<1> DEFINE Waits == WaitTypes /\ Timely /\ SleepsAsTold /\ FrontIsAwaited /\ TickleIsOnTheWay
<1>1. Init => Waits
  BY InitWaits, InitTimely
<1>2. IInv /\ Waits /\ [Next]_vars => Waits'
  BY WaitTypesInv, TimelyInv, SleepsAsToldInv, AwaitedInv
<1>3. Waits => FrontIsAwaited
  OBVIOUS
<1> QED
  BY <1>1, <1>2, <1>3, TimerInvariant, PTL DEF Spec
=============================================================================
