---------------------------- MODULE ReactorProofs ----------------------------
(***************************************************************************)
(* Reactor keeps its types, and with use_caller = true stop() returns only *)
(* when everything added before it is done, for any number of workers and  *)
(* any amount of work.                                                     *)
(*                                                                         *)
(* The counters are exact, so none of the unsigned ones is lowered below   *)
(* zero.  stopping() is not atomic; what makes it right is the caller's    *)
(* own thread, which makes its three looks after stop() has set            *)
(* m_stopping: from then on timers and events only become fewer, so what   *)
(* it has seen empty stays empty.  Tasks may still appear behind its back, *)
(* but only through a thread that has not left yet.                        *)
(***************************************************************************)
EXTENDS Reactor, FiniteSetTheorems, TLAPS

IdlePcs == {"timers", "pending", "scheduler", "wait", "list", "schedule", "batch", "triggered",
            "back"}

At(points) == {r \in RunThreads : pc[r] \in points}

\* The threads that have an event in their batch, or have not counted it yet.
Claimers == {r \in RunThreads : "event" \in batch[r] \/ pc[r] = "triggered"}

Counts ==
  /\ m_activeThreadCount = Cardinality(At({"user"}))
  /\ m_idleThreadCount = Cardinality(At(IdlePcs))

Claims ==
  /\ due <= timers
  /\ claimed = Cardinality(Claimers) /\ claimed + lost <= m_pendingEventCount
  /\ \A r \in RunThreads : batch[r] # {} => pc[r] \in {"list", "schedule", "batch"}

\* The caller's thread enters run() in stop().
CallerEnters == Caller \in RunThreads => (pc[Caller] = "off" <=> ~m_stopping)

IInv == TypeOK /\ Counts /\ Claims /\ CallerEnters

\* What the caller's thread has looked at stays empty.
Seen ==
  /\ pc[Caller] \in {"pending", "scheduler"} \/ Caller \in idleTerm => timers = 0
  /\ pc[Caller] = "scheduler" \/ Caller \in idleTerm => m_pendingEventCount = 0

\* With use_caller = true: who leaves has seen stopping(), tasks have a thread,
\* callbacks are on their way, and stop() returns after the last thread.
Drain ==
  /\ idleTerm # {} => m_stopping
  /\ \A r \in RunThreads : pc[r] = "exit" => r \in idleTerm
  /\ \A r \in RunThreads : cbs[r] > 0 => pc[r] = "schedule"
  /\ m_tasks > 0 => \E r \in RunThreads : pc[r] # "exit"
  /\ ~addedLate => Seen
  /\ callerPc \in {"start", "wait"} => ~m_stopping
  /\ callerPc = "join" => pc[Caller] = "exit"
  /\ Stopped => \A r \in RunThreads : pc[r] = "exit"

-----------------------------------------------------------------------------
(* Counting threads.                                                       *)

\* The threads of the pool are finitely many.
LEMMA RunThreadsFinite == IsFiniteSet(RunThreads)
<1>1. IsFiniteSet({Caller}) /\ IsFiniteSet({})
  BY FS_EmptySet, FS_Singleton
<1> QED
  BY <1>1, FS_Union, ReactorAssumption DEF ReactorAssumption, RunThreads

\* One element more or less in a finite set of threads.
LEMMA OneMore ==
  ASSUME NEW S, NEW T, S \subseteq RunThreads, NEW r \in RunThreads
  PROVE  /\ Cardinality(S) \in Nat
         /\ r \in S => Cardinality(S) > 0
         /\ T = S \cup {r} /\ r \notin S => Cardinality(T) = Cardinality(S) + 1
         /\ T = S \ {r} /\ r \in S => Cardinality(T) = Cardinality(S) - 1
<1>1. IsFiniteSet(S)
  BY RunThreadsFinite, FS_Subset
<1>2. Cardinality(S) \in Nat
  BY <1>1, FS_CardinalityType
<1>3. r \in S => Cardinality(S) # 0
  BY <1>1, FS_EmptySet
<1>4. T = S \cup {r} /\ r \notin S => Cardinality(T) = Cardinality(S) + 1
  BY <1>1, FS_AddElement
<1>5. T = S \ {r} /\ r \in S => Cardinality(T) = Cardinality(S) - 1
  BY <1>1, FS_RemoveElement
<1> QED
  BY <1>2, <1>3, <1>4, <1>5

\* How a step of one thread changes the number of threads at a set of points.
LEMMA GotoCount ==
  ASSUME pc \in [RunThreads -> PcValues], NEW r \in RunThreads, NEW from, NEW to,
         Goto(r, from, to), NEW points
  PROVE  /\ Cardinality(At(points)) \in Nat
         /\ from \in points => Cardinality(At(points)) > 0
         /\ (from \in points) = (to \in points) =>
              Cardinality(At(points)') = Cardinality(At(points))
         /\ from \notin points /\ to \in points =>
              Cardinality(At(points)') = Cardinality(At(points)) + 1
         /\ from \in points /\ to \notin points =>
              Cardinality(At(points)') = Cardinality(At(points)) - 1
<1>1. At(points) \subseteq RunThreads
  BY DEF At
<1>2. (from \in points) = (to \in points) => At(points)' = At(points)
  BY DEF At, Goto
<1>3. from \notin points /\ to \in points => At(points)' = At(points) \cup {r} /\ r \notin At(points)
  BY DEF At, Goto
<1>4. from \in points => r \in At(points)
  BY DEF At, Goto
<1>5. from \in points /\ to \notin points => At(points)' = At(points) \ {r}
  BY DEF At, Goto
<1> QED
  BY <1>1, <1>2, <1>3, <1>4, <1>5, OneMore

-----------------------------------------------------------------------------
(* The first half of the invariant.                                        *)

\* A step of a thread that leaves counters and batches alone and goes neither
\* into nor out of the points they count.
LEMMA PlainStep ==
  ASSUME IInv, NEW r \in RunThreads, NEW from \in PcValues, NEW to \in PcValues \ {"off"},
         Goto(r, from, to), from = "off" => r # Caller,
         from # "user" /\ to # "user", (from \in IdlePcs) = (to \in IdlePcs),
         from # "triggered" /\ to # "triggered",
         batch[r] # {} => to \in {"list", "schedule", "batch"},
         UNCHANGED <<poolVars, m_pendingEventCount, claimed, lost, batch>>
  PROVE  Counts' /\ CallerEnters' /\ pc' \in [RunThreads -> PcValues]
         /\ claimed' = Cardinality(Claimers)' /\ claimed' + lost' <= m_pendingEventCount'
         /\ \A q \in RunThreads : batch'[q] # {} => pc'[q] \in {"list", "schedule", "batch"}
<1> USE DEF IInv, TypeOK
<1>1. Counts'
  BY GotoCount DEF Counts, poolVars
<1>2. CallerEnters'
  BY DEF CallerEnters, Goto, poolVars
<1>3. pc' \in [RunThreads -> PcValues]
  BY DEF Goto
<1>4. Claimers' = Claimers
  BY DEF Claimers, Goto
<1>5. claimed' = Cardinality(Claimers)' /\ claimed' + lost' <= m_pendingEventCount'
  BY <1>4 DEF Claims
<1>6. \A q \in RunThreads : batch'[q] # {} => pc'[q] \in {"list", "schedule", "batch"}
  BY DEF Claims, Goto
<1> QED
  BY <1>1, <1>2, <1>3, <1>5, <1>6

\* A step that moves no thread and touches no batch.
LEMMA SameInv ==
  ASSUME IInv, UNCHANGED <<poolVars, pc, batch, claimed>>,
         m_pendingEventCount' >= m_pendingEventCount /\ m_pendingEventCount' \in Nat,
         due' <= timers', lost' <= lost /\ lost' \in Nat
  PROVE  Counts' /\ Claims' /\ CallerEnters'
<1>1. At({"user"})' = At({"user"}) /\ At(IdlePcs)' = At(IdlePcs) /\ Claimers' = Claimers
  BY DEF At, Claimers
<1>2. Counts'
  BY <1>1 DEF IInv, Counts, poolVars
<1>3. CallerEnters'
  BY DEF IInv, CallerEnters, poolVars
<1>4. Claims'
  BY <1>1 DEF IInv, TypeOK, Claims
<1> QED
  BY <1>2, <1>3, <1>4

\* tickle() leaves a Boolean.
LEMMA TickleType ==
  ASSUME NEW called \in BOOLEAN, tickle \in BOOLEAN, Tickle(called)
  PROVE  tickle' \in BOOLEAN
BY DEF Tickle

\* start() and the threads it makes.
LEMMA StartInv ==
  ASSUME IInv, (\E w \in Workers : CreateThread(w) \/ ThreadRun(w)) \/ ThreadCreated \/ StartEnd
  PROVE  IInv'
<1> USE DEF IInv
<1>1. ASSUME NEW w \in Workers, CreateThread(w) PROVE IInv'
  <2>1. w \in RunThreads /\ w # Caller
    BY ReactorAssumption DEF ReactorAssumption, RunThreads
  <2>2. Goto(w, "off", "new") /\ batch[w] = {}
    BY <1>1, <2>1 DEF CreateThread, Goto, Claims
  <2>3. Counts' /\ CallerEnters' /\ pc' \in [RunThreads -> PcValues]
        /\ claimed' = Cardinality(Claimers)' /\ claimed' + lost' <= m_pendingEventCount'
        /\ \A q \in RunThreads : batch'[q] # {} => pc'[q] \in {"list", "schedule", "batch"}
    BY <1>1, <2>1, <2>2, PlainStep DEF CreateThread, PcValues, IdlePcs, sourceVars, idleVars
  <2>4. TypeOK' /\ Claims'
    BY <1>1, <2>3 DEF CreateThread, TypeOK, Claims, poolVars, sourceVars, idleVars
  <2> QED BY <2>3, <2>4
<1>2. ASSUME NEW w \in Workers, ThreadRun(w) PROVE IInv'
  <2>1. w \in RunThreads /\ w # Caller
    BY ReactorAssumption DEF ReactorAssumption, RunThreads
  <2>2. Goto(w, "new", "fetch") /\ batch[w] = {}
    BY <1>2, <2>1 DEF ThreadRun, Goto, Claims
  <2>3. Counts' /\ CallerEnters' /\ pc' \in [RunThreads -> PcValues]
        /\ claimed' = Cardinality(Claimers)' /\ claimed' + lost' <= m_pendingEventCount'
        /\ \A q \in RunThreads : batch'[q] # {} => pc'[q] \in {"list", "schedule", "batch"}
    BY <1>2, <2>1, <2>2, PlainStep DEF ThreadRun, PcValues, IdlePcs, sourceVars, idleVars
  <2>4. TypeOK' /\ Claims'
    BY <1>2, <2>3 DEF ThreadRun, TypeOK, Claims, poolVars, sourceVars, idleVars
  <2> QED BY <2>3, <2>4
<1>3. CASE ThreadCreated \/ StartEnd
  <2>1. TypeOK'
    BY <1>3 DEF ThreadCreated, StartEnd, TypeOK, poolVars, sourceVars, idleVars
  <2>2. Counts' /\ Claims' /\ CallerEnters'
    BY <1>3, SameInv DEF ThreadCreated, StartEnd, TypeOK, Claims, poolVars, sourceVars, idleVars
  <2> QED BY <2>1, <2>2
<1> QED BY <1>1, <1>2, <1>3

\* Clients only add.
LEMMA AddInv ==
  ASSUME IInv, CallerAdd \/ \E r \in RunThreads : User(r)
  PROVE  IInv'
<1>1. /\ AddTask \/ AddTimer \/ AddEvent
      /\ UNCHANGED <<poolVars, pc, idleVars, m_semaphore, callerPc>>
  BY DEF CallerAdd, User
<1>2. TypeOK
  BY DEF IInv
<1>3. created' \in 0..MaxWork
  BY <1>1, <1>2, ReactorAssumption
     DEF TypeOK, AddTask, AddTimer, AddEvent, Create, ReactorAssumption
<1>4. m_tasks' \in Nat /\ timers' \in Nat /\ timers' >= timers /\ m_pendingEventCount' \in Nat
      /\ m_pendingEventCount' >= m_pendingEventCount /\ due' = due /\ claimed' = claimed /\ lost' = lost
  BY <1>1, <1>2 DEF TypeOK, AddTask, AddTimer, AddEvent, Schedule, sourceVars
<1>5. tickle' \in BOOLEAN
  <2>1. CASE AddTask
    BY <1>2, <2>1, TickleType DEF TypeOK, AddTask, Schedule
  <2>2. CASE AddTimer
    BY <1>2, <2>2, TickleType DEF TypeOK, AddTimer
  <2>3. CASE AddEvent
    BY <1>2, <2>3 DEF TypeOK, AddEvent
  <2> QED BY <1>1, <2>1, <2>2, <2>3
<1>6. addedLate' \in BOOLEAN
  BY <1>1, <1>2 DEF TypeOK, AddTask, AddTimer, AddEvent
<1>7. TypeOK'
  BY <1>1, <1>2, <1>3, <1>4, <1>5, <1>6 DEF TypeOK, poolVars, idleVars
<1>8. due' <= timers'
  BY <1>2, <1>4 DEF IInv, TypeOK, Claims
<1>9. lost' <= lost /\ lost' \in Nat
  BY <1>2, <1>4 DEF TypeOK
<1> QED
  BY <1>1, <1>4, <1>7, <1>8, <1>9, SameInv DEF IInv, poolVars, idleVars

\* Taking a task and giving it up.
LEMMA TaskInv ==
  ASSUME IInv, NEW r \in RunThreads, FetchTask(r) \/ Finish(r)
  PROVE  IInv'
<1> USE DEF IInv
<1>1. PICK from \in {"fetch", "user"}, to \in {"fetch", "user"} : from # to /\ Goto(r, from, to)
  BY DEF FetchTask, Finish
<1>2. Counts'
  <2>1. CASE FetchTask(r)
    BY <2>1, GotoCount DEF FetchTask, Counts, TypeOK, IdlePcs
  <2>2. CASE Finish(r)
    BY <2>2, GotoCount DEF Finish, Counts, TypeOK, IdlePcs
  <2> QED BY <2>1, <2>2
<1>3. TypeOK'
  <2>1. m_activeThreadCount' \in Nat
    BY <1>1, <1>2, GotoCount, RunThreadsFinite, FS_Subset, FS_CardinalityType DEF Counts, At
  <2>2. tickle' \in BOOLEAN
    <3>1. CASE FetchTask(r)
      BY <3>1 DEF FetchTask, Tickle, TypeOK
    <3>2. CASE Finish(r)
      BY <3>2 DEF Finish, TypeOK
    <3> QED BY <3>1, <3>2
  <2>3. m_tasks' \in Nat
    BY DEF FetchTask, Finish, TypeOK
  <2>4. pc' \in [RunThreads -> PcValues]
    BY <1>1 DEF Goto, TypeOK, PcValues
  <2> QED
    BY <2>1, <2>2, <2>3, <2>4 DEF FetchTask, Finish, TypeOK, sourceVars, idleVars, clientVars
<1>4. Claims'
  <2>1. Claimers' = Claimers
    BY <1>1 DEF FetchTask, Finish, Claimers, Goto, TypeOK, idleVars
  <2> QED
    BY <1>1, <2>1 DEF FetchTask, Finish, Claims, Goto, TypeOK, sourceVars, idleVars
<1>5. CallerEnters'
  BY <1>1 DEF CallerEnters, FetchTask, Finish, Goto, TypeOK
<1> QED
  BY <1>2, <1>3, <1>4, <1>5

\* Looks at shared state and moves inside the loop.
LEMMA LookInv ==
  ASSUME IInv, NEW r \in RunThreads,
         \/ FetchNothing(r) \/ CheckTimers(r) \/ CheckPending(r) \/ CheckScheduler(r)
         \/ CbsScheduled(r) \/ IdleYield(r)
  PROVE  IInv'
<1> USE DEF IInv
<1>1. PICK from \in PcValues, to \in PcValues \ {"off"} :
        /\ Goto(r, from, to) /\ from # "off"
        /\ from # "user" /\ to # "user" /\ (from \in IdlePcs) = (to \in IdlePcs)
        /\ from # "triggered" /\ to # "triggered"
        /\ from \in {"list", "schedule", "batch"} =>
             to \in {"list", "schedule", "batch"} \/ batch[r] = {}
  BY DEF FetchNothing, CheckTimers, CheckPending, CheckScheduler, CbsScheduled, IdleYield,
         PcValues, IdlePcs
<1>2. /\ UNCHANGED <<m_tasks, poolVars, sourceVars, tickle, batch, cbs, clientVars>>
      /\ idleTerm' \subseteq RunThreads
  BY DEF FetchNothing, CheckTimers, CheckPending, CheckScheduler, CbsScheduled, IdleYield,
         idleVars, TypeOK
<1>3. batch[r] # {} => to \in {"list", "schedule", "batch"}
  BY <1>1 DEF Claims, Goto
<1>4. UNCHANGED <<poolVars, m_pendingEventCount, claimed, lost, batch>>
  BY <1>2 DEF sourceVars
<1>5. Counts' /\ CallerEnters' /\ pc' \in [RunThreads -> PcValues]
      /\ claimed' = Cardinality(Claimers)' /\ claimed' + lost' <= m_pendingEventCount'
      /\ \A q \in RunThreads : batch'[q] # {} => pc'[q] \in {"list", "schedule", "batch"}
  BY <1>1, <1>3, <1>4, PlainStep
<1>6. TypeOK' /\ Claims'
  BY <1>2, <1>5 DEF TypeOK, Claims, poolVars, sourceVars, clientVars
<1> QED BY <1>5, <1>6

\* listExpiredCb() takes what is due out of m_timers.
LEMMA ListInv ==
  ASSUME IInv, NEW r \in RunThreads, ListExpiredCb(r)
  PROVE  IInv'
<1> USE DEF IInv
<1>1. Counts' /\ CallerEnters' /\ pc' \in [RunThreads -> PcValues]
      /\ claimed' = Cardinality(Claimers)' /\ claimed' + lost' <= m_pendingEventCount'
      /\ \A q \in RunThreads : batch'[q] # {} => pc'[q] \in {"list", "schedule", "batch"}
  BY PlainStep DEF ListExpiredCb, PcValues, IdlePcs
<1>2. timers' \in Nat /\ due' \in Nat /\ due' <= timers'
  BY DEF ListExpiredCb, Claims, TypeOK
<1>3. cbs' \in [RunThreads -> Nat]
  BY DEF ListExpiredCb, TypeOK
<1> QED
  BY <1>1, <1>2, <1>3 DEF ListExpiredCb, TypeOK, Claims, poolVars, clientVars

\* Into the idle fiber and out of it.
LEMMA IdleInv ==
  ASSUME IInv, NEW r \in RunThreads, EnterIdle(r) \/ LeaveIdle(r)
  PROVE  IInv'
<1> USE DEF IInv
<1>1. PICK from \in {"enter", "back"}, to \in {"timers", "fetch"} : Goto(r, from, to)
  BY DEF EnterIdle, LeaveIdle
<1>2. Counts'
  <2>1. CASE EnterIdle(r)
    BY <2>1, GotoCount DEF EnterIdle, Counts, TypeOK, IdlePcs
  <2>2. CASE LeaveIdle(r)
    BY <2>2, GotoCount DEF LeaveIdle, Counts, TypeOK, IdlePcs
  <2> QED BY <2>1, <2>2
<1>3. TypeOK'
  <2>1. m_idleThreadCount' \in Nat
    BY <1>1, <1>2, RunThreadsFinite, FS_Subset, FS_CardinalityType DEF Counts, At
  <2>2. pc' \in [RunThreads -> PcValues]
    BY <1>1 DEF Goto, TypeOK, PcValues
  <2> QED
    BY <2>1, <2>2 DEF EnterIdle, LeaveIdle, TypeOK, sourceVars, idleVars, clientVars
<1>4. Claims'
  <2>1. Claimers' = Claimers
    BY <1>1 DEF EnterIdle, LeaveIdle, Claimers, Goto, TypeOK, idleVars
  <2> QED
    BY <1>1, <2>1 DEF EnterIdle, LeaveIdle, Claims, Goto, TypeOK, sourceVars, idleVars
<1>5. CallerEnters'
  BY <1>1 DEF CallerEnters, EnterIdle, LeaveIdle, Goto, TypeOK
<1> QED
  BY <1>2, <1>3, <1>4, <1>5

\* schedule() called by the idle fiber.
LEMMA ScheduleCbInv ==
  ASSUME IInv, NEW r \in RunThreads, ScheduleCb(r)
  PROVE  IInv'
<1>1. tickle' \in BOOLEAN /\ m_tasks' \in Nat
  <2>1. tickle' \in BOOLEAN
    BY TickleType DEF ScheduleCb, Schedule, IInv, TypeOK
  <2>2. m_tasks' \in Nat
    BY DEF ScheduleCb, Schedule, IInv, TypeOK
  <2> QED BY <2>1, <2>2
<1>2. cbs' \in [RunThreads -> Nat]
  BY DEF ScheduleCb, IInv, TypeOK
<1>3. TypeOK'
  BY <1>1, <1>2 DEF ScheduleCb, IInv, TypeOK, poolVars, sourceVars, clientVars
<1>4. due' <= timers' /\ m_pendingEventCount' >= m_pendingEventCount
  BY DEF ScheduleCb, IInv, TypeOK, Claims, sourceVars
<1> QED
  BY <1>3, <1>4, SameInv DEF ScheduleCb, IInv, TypeOK, sourceVars

\* epoll_wait() gives an event to one thread only.
LEMMA EpollWaitInv ==
  ASSUME IInv, NEW r \in RunThreads, NEW events \in 0..MaxWork, EpollWait(r, events)
  PROVE  IInv'
<1> USE DEF IInv
<1>1. Goto(r, "wait", "list") /\ batch[r] = {} /\ pc' \in [RunThreads -> PcValues]
  BY DEF EpollWait, Goto, Claims, TypeOK, PcValues
<1>2. Counts' /\ CallerEnters'
  <2>1. Counts'
    BY <1>1, GotoCount DEF EpollWait, Counts, TypeOK, IdlePcs, poolVars
  <2>2. CallerEnters'
    BY <1>1 DEF EpollWait, CallerEnters, Goto, TypeOK, poolVars
  <2> QED BY <2>1, <2>2
<1> DEFINE given == (IF tickle THEN {"pipe"} ELSE {}) \cup (IF events > 0 THEN {"event"} ELSE {})
<1>0. events \in Nat
  BY ReactorAssumption DEF ReactorAssumption
<1>a. /\ batch' = [batch EXCEPT ![r] = given] /\ tickle' = FALSE
      /\ claimed' = IF events > 0 THEN claimed + 1 ELSE claimed
      /\ lost' = IF events > 0 THEN lost + (events - 1) ELSE lost
      /\ claimed + lost + events <= m_pendingEventCount /\ m_pendingEventCount' = m_pendingEventCount
  BY DEF EpollWait, Report
<1>b. given \subseteq {"pipe", "event"} /\ ("event" \in given <=> events > 0)
  OBVIOUS
<1> HIDE DEF given
<1>3. batch' \in [RunThreads -> SUBSET {"pipe", "event"}]
  BY <1>a, <1>b DEF TypeOK
<1>4. claimed' \in Nat /\ lost' \in Nat /\ claimed' + lost' <= m_pendingEventCount'
  BY <1>0, <1>a DEF TypeOK, Claims
<1>5. TypeOK'
  BY <1>1, <1>3, <1>4, <1>a DEF EpollWait, TypeOK, poolVars, clientVars
<1>6. Claimers \subseteq RunThreads /\ r \notin Claimers
  BY <1>1 DEF Claimers, Goto
<1>7. Claimers' = IF events > 0 THEN Claimers \cup {r} ELSE Claimers
  BY <1>1, <1>a, <1>b DEF Claimers, Goto, TypeOK
<1>8. claimed' = Cardinality(Claimers)'
  BY <1>6, <1>7, <1>a, OneMore DEF Claims
<1>9. \A q \in RunThreads : batch'[q] # {} => pc'[q] \in {"list", "schedule", "batch"}
  BY <1>1, <1>a DEF Claims, Goto, TypeOK
<1> QED
  BY <1>2, <1>4, <1>5, <1>8, <1>9 DEF EpollWait, Claims

\* The batch: the pipe is drained, an event becomes a task.
LEMMA BatchInv ==
  ASSUME IInv, NEW r \in RunThreads, DrainPipe(r) \/ TriggerEvent(r)
  PROVE  IInv'
<1> USE DEF IInv
<1>1. Counts' /\ CallerEnters'
  <2>1. CASE DrainPipe(r)
    BY <2>1 DEF DrainPipe, Counts, CallerEnters, At, poolVars
  <2>2. CASE TriggerEvent(r)
    <3>1. Counts'
      BY <2>2, GotoCount DEF TriggerEvent, Counts, TypeOK, IdlePcs, poolVars
    <3>2. CallerEnters'
      BY <2>2 DEF TriggerEvent, CallerEnters, Goto, TypeOK, poolVars
    <3> QED BY <3>1, <3>2
  <2> QED BY <2>1, <2>2
<1>2. pc' \in [RunThreads -> PcValues] /\ batch' \in [RunThreads -> SUBSET {"pipe", "event"}]
  BY DEF DrainPipe, TriggerEvent, Goto, TypeOK, PcValues
<1>3. m_tasks' \in Nat
  BY DEF DrainPipe, TriggerEvent, Schedule, TypeOK
<1>4. tickle' \in BOOLEAN
  <2>1. CASE DrainPipe(r)
    BY <2>1 DEF DrainPipe
  <2>2. CASE TriggerEvent(r)
    BY <2>2, TickleType DEF TriggerEvent, Schedule, TypeOK
  <2> QED BY <2>1, <2>2
<1>5. TypeOK'
  BY <1>2, <1>3, <1>4 DEF DrainPipe, TriggerEvent, TypeOK, poolVars, sourceVars, clientVars
<1>6. Claimers' = Claimers
  <2>1. CASE DrainPipe(r)
    BY <2>1 DEF DrainPipe, Claimers, TypeOK
  <2>2. CASE TriggerEvent(r)
    BY <2>2 DEF TriggerEvent, Claimers, Goto, TypeOK
  <2> QED BY <2>1, <2>2
<1>7. \A q \in RunThreads : batch'[q] # {} => pc'[q] \in {"list", "schedule", "batch"}
  BY DEF DrainPipe, TriggerEvent, Goto, Claims, TypeOK
<1> QED
  BY <1>1, <1>5, <1>6, <1>7 DEF DrainPipe, TriggerEvent, Claims, sourceVars

\* --m_pendingEventCount is for an event that was claimed.
LEMMA DecrementInv ==
  ASSUME IInv, NEW r \in RunThreads, DecrementPending(r)
  PROVE  IInv'
<1> USE DEF IInv
<1>1. Goto(r, "triggered", "back") /\ batch[r] = {} /\ pc' \in [RunThreads -> PcValues]
      /\ batch' = batch
  BY DEF DecrementPending, Goto, Claims, TypeOK, PcValues, idleVars
<1>2. Counts' /\ CallerEnters'
  <2>1. Counts'
    BY <1>1, GotoCount DEF DecrementPending, Counts, TypeOK, IdlePcs, poolVars
  <2>2. CallerEnters'
    BY <1>1 DEF DecrementPending, CallerEnters, Goto, TypeOK, poolVars
  <2> QED BY <2>1, <2>2
<1>3. Claimers \subseteq RunThreads /\ r \in Claimers /\ Claimers' = Claimers \ {r}
  BY <1>1 DEF Claimers, Goto, TypeOK
<1>4. claimed' = Cardinality(Claimers)' /\ claimed > 0
  BY <1>3, OneMore DEF DecrementPending, Claims
<1>5. claimed' \in Nat /\ m_pendingEventCount' \in Nat /\ claimed' + lost' <= m_pendingEventCount'
  BY <1>4 DEF DecrementPending, Claims, TypeOK
<1>6. TypeOK'
  BY <1>1, <1>5 DEF DecrementPending, TypeOK, poolVars, idleVars, clientVars
<1>7. \A q \in RunThreads : batch'[q] # {} => pc'[q] \in {"list", "schedule", "batch"}
  BY <1>1 DEF Claims, Goto, TypeOK
<1> QED
  BY <1>2, <1>4, <1>5, <1>6, <1>7 DEF DecrementPending, Claims

\* stop(): the caller's thread, if it runs tasks, enters run().
LEMMA StopInv ==
  ASSUME IInv, StopCall \/ RootEnd \/ Join
  PROVE  IInv'
<1> USE DEF IInv
<1>1. CASE StopCall
  <2>1. \A r \in RunThreads : pc'[r] = IF r = Caller THEN "fetch" ELSE pc[r]
    BY <1>1 DEF StopCall
  <2>2. Caller \in RunThreads => pc[Caller] = "off"
    BY <1>1 DEF StopCall, CallerEnters
  <2>3. At({"user"})' = At({"user"}) /\ At(IdlePcs)' = At(IdlePcs)
    BY <2>1, <2>2 DEF At, IdlePcs
  <2>4. batch' = batch
    BY <1>1 DEF StopCall, idleVars
  <2>5. Claimers' = Claimers
    BY <2>1, <2>2, <2>4 DEF Claimers
  <2>6. Counts' /\ CallerEnters'
    BY <1>1, <2>1, <2>3 DEF StopCall, Counts, CallerEnters
  <2>7. Claims'
    BY <1>1, <2>1, <2>2, <2>4, <2>5 DEF StopCall, Claims, sourceVars
  <2>8. pc' \in [RunThreads -> PcValues]
    BY <1>1 DEF StopCall, TypeOK, PcValues
  <2>9. tickle' \in BOOLEAN
    BY <1>1, TickleType DEF StopCall, TypeOK
  <2>10. TypeOK'
    BY <1>1, <2>8, <2>9 DEF StopCall, TypeOK, sourceVars, idleVars
  <2> QED BY <2>6, <2>7, <2>10
<1>2. CASE RootEnd \/ Join
  <2>1. TypeOK'
    BY <1>2 DEF RootEnd, Join, TypeOK, poolVars, sourceVars, idleVars
  <2>2. Counts' /\ Claims' /\ CallerEnters'
    BY <1>2, SameInv DEF RootEnd, Join, TypeOK, Claims, poolVars, sourceVars, idleVars
  <2> QED BY <2>1, <2>2
<1> QED BY <1>1, <1>2

\* Every step keeps the first half of the invariant.
LEMMA NextInv == IInv /\ [Next]_vars => IInv'
<1> SUFFICES ASSUME IInv, [Next]_vars PROVE IInv'
  OBVIOUS
<1>1. ASSUME NEW r \in RunThreads, Run(r) PROVE IInv'
  BY <1>1, TaskInv, LookInv, ListInv, IdleInv, ScheduleCbInv, BatchInv, DecrementInv DEF Run
<1>a. CASE NewEdge
  <2>1. TypeOK' /\ due' <= timers'
    BY <1>a DEF NewEdge, IInv, TypeOK, Claims, poolVars, idleVars, clientVars
  <2> QED
    BY <1>a, <2>1, SameInv DEF NewEdge, IInv, TypeOK, idleVars
<1>2. CASE Expire
  <2>1. TypeOK' /\ due' <= timers'
    BY <1>2 DEF Expire, IInv, TypeOK, poolVars, idleVars, clientVars
  <2> QED
    BY <1>2, <2>1, SameInv DEF Expire, IInv, TypeOK, idleVars
<1>3. CASE UNCHANGED vars
  <2>1. TypeOK' /\ due' <= timers'
    BY <1>3 DEF vars, IInv, TypeOK, Claims, poolVars, sourceVars, idleVars, clientVars
  <2> QED
    BY <1>3, <2>1, SameInv DEF vars, IInv, TypeOK, sourceVars, idleVars
<1> QED
  BY <1>1, <1>2, <1>3, <1>a, StartInv, AddInv, TaskInv, EpollWaitInv, StopInv DEF Next

\* The initial state.
LEMMA InitInv == Init => IInv
<1> SUFFICES ASSUME Init PROVE IInv
  OBVIOUS
<1>1. TypeOK
  <2>1. pc \in [RunThreads -> PcValues] /\ cbs \in [RunThreads -> Nat]
    BY DEF Init, PcValues
  <2>2. batch \in [RunThreads -> SUBSET {"pipe", "event"}]
    BY DEF Init
  <2>3. created \in 0..MaxWork
    BY ReactorAssumption DEF Init, ReactorAssumption
  <2> QED
    BY <2>1, <2>2, <2>3 DEF Init, TypeOK
<1>2. At({"user"}) = {} /\ At(IdlePcs) = {} /\ Claimers = {}
  BY DEF Init, At, IdlePcs, Claimers
<1>3. Counts /\ Claims
  BY <1>2, FS_EmptySet DEF Init, Counts, Claims
<1> QED
  BY <1>1, <1>3 DEF Init, IInv, CallerEnters

-----------------------------------------------------------------------------
(* The second half, with use_caller = true.                                *)

\* What a step of a thread may do to the others, and when it may leave.
LEMMA RunMoves ==
  ASSUME IInv, NEW r \in RunThreads, Run(r)
  PROVE  /\ pc[r] # "exit" /\ \A q \in RunThreads \ {r} : pc'[q] = pc[q] /\ cbs'[q] = cbs[q]
         /\ pc'[r] = "exit" => r \in idleTerm /\ m_tasks' = 0
         /\ pc[r] # "schedule" /\ cbs'[r] # cbs[r] => pc'[r] = "schedule"
         /\ pc[r] = "schedule" /\ pc'[r] # "schedule" => cbs'[r] = 0
         /\ idleTerm' = idleTerm \/ (idleTerm' = idleTerm \cup {r} /\ pc[r] = "scheduler" /\ m_stopping)
         /\ pc'[r] = "pending" => timers' = 0
         /\ pc'[r] = "scheduler" => pc[r] = "pending" /\ m_pendingEventCount' = 0
         /\ m_stopping' = m_stopping /\ callerPc' = callerPc /\ addedLate' = addedLate
<1> USE DEF IInv
<1>1. /\ pc[r] # "exit" /\ \A q \in RunThreads \ {r} : pc'[q] = pc[q] /\ cbs'[q] = cbs[q]
  BY DEF Run, FetchTask, FetchNothing, EnterIdle, LeaveIdle, CheckTimers, CheckPending,
         CheckScheduler, ListExpiredCb, ScheduleCb, CbsScheduled, DrainPipe, TriggerEvent,
         DecrementPending, IdleYield, Goto, TypeOK, idleVars
<1>2. pc'[r] = "exit" => r \in idleTerm /\ m_tasks' = 0
  BY DEF Run, FetchTask, FetchNothing, EnterIdle, LeaveIdle, CheckTimers, CheckPending,
         CheckScheduler, ListExpiredCb, ScheduleCb, CbsScheduled, DrainPipe, TriggerEvent,
         DecrementPending, IdleYield, Goto, TypeOK
<1>3. /\ pc[r] # "schedule" /\ cbs'[r] # cbs[r] => pc'[r] = "schedule"
      /\ pc[r] = "schedule" /\ pc'[r] # "schedule" => cbs'[r] = 0
  BY DEF Run, FetchTask, FetchNothing, EnterIdle, LeaveIdle, CheckTimers, CheckPending,
         CheckScheduler, ListExpiredCb, ScheduleCb, CbsScheduled, DrainPipe, TriggerEvent,
         DecrementPending, IdleYield, Goto, TypeOK, idleVars
<1>4. idleTerm' = idleTerm \/ (idleTerm' = idleTerm \cup {r} /\ pc[r] = "scheduler" /\ m_stopping)
  BY DEF Run, FetchTask, FetchNothing, EnterIdle, LeaveIdle, CheckTimers, CheckPending,
         CheckScheduler, ListExpiredCb, ScheduleCb, CbsScheduled, DrainPipe, TriggerEvent,
         DecrementPending, IdleYield, Goto, SchedulerStopping, idleVars
<1>5. /\ pc'[r] = "pending" => timers' = 0
      /\ pc'[r] = "scheduler" => pc[r] = "pending" /\ m_pendingEventCount' = 0
  BY DEF Run, FetchTask, FetchNothing, EnterIdle, LeaveIdle, CheckTimers, CheckPending,
         CheckScheduler, ListExpiredCb, ScheduleCb, CbsScheduled, DrainPipe, TriggerEvent,
         DecrementPending, IdleYield, Goto, TypeOK, sourceVars
<1>6. m_stopping' = m_stopping /\ callerPc' = callerPc /\ addedLate' = addedLate
  BY DEF Run, FetchTask, FetchNothing, EnterIdle, LeaveIdle, CheckTimers, CheckPending,
         CheckScheduler, ListExpiredCb, ScheduleCb, CbsScheduled, DrainPipe, TriggerEvent,
         DecrementPending, IdleYield, poolVars, clientVars
<1> QED
  BY <1>1, <1>2, <1>3, <1>4, <1>5, <1>6

\* A thread never raises the number of timers or events from zero.
LEMMA RunConsumes ==
  ASSUME IInv, IInv', NEW r \in RunThreads, Run(r)
  PROVE  /\ timers = 0 => timers' = 0
         /\ m_pendingEventCount = 0 => m_pendingEventCount' = 0
<1> USE DEF IInv
<1>1. timers = 0 => timers' = 0
  BY DEF Run, FetchTask, FetchNothing, EnterIdle, LeaveIdle, CheckTimers, CheckPending,
         CheckScheduler, ListExpiredCb, ScheduleCb, CbsScheduled, DrainPipe, TriggerEvent,
         DecrementPending, IdleYield, TypeOK, Claims, sourceVars
<1>2. m_pendingEventCount = 0 => m_pendingEventCount' = 0
  BY DEF Run, FetchTask, FetchNothing, EnterIdle, LeaveIdle, CheckTimers, CheckPending,
         CheckScheduler, ListExpiredCb, ScheduleCb, CbsScheduled, DrainPipe, TriggerEvent,
         DecrementPending, IdleYield, TypeOK, sourceVars
<1> QED BY <1>1, <1>2

\* Steps of run() and idle().
LEMMA RunDrain ==
  ASSUME UseCaller, IInv, IInv', Drain, NEW r \in RunThreads, Run(r)
  PROVE  Drain'
<1> USE RunMoves
<1>1. Caller \in RunThreads
  BY DEF RunThreads
<1>2. idleTerm' # {} => m_stopping'
  BY DEF Drain
<1>3. \A q \in RunThreads : pc'[q] = "exit" => q \in idleTerm'
  BY DEF Drain
<1>4. \A q \in RunThreads : cbs'[q] > 0 => pc'[q] = "schedule"
  BY DEF Drain
<1>5. m_tasks' > 0 => \E q \in RunThreads : pc'[q] # "exit"
  OBVIOUS
<1>6. ~addedLate' => Seen'
  <2> SUFFICES ASSUME ~addedLate PROVE Seen'
    OBVIOUS
  <2>1. Seen
    BY DEF Drain
  <2>2. CASE r = Caller
    BY <2>1, <2>2, RunConsumes DEF Seen
  <2>3. CASE r # Caller
    <3>1. pc'[Caller] = pc[Caller] /\ (Caller \in idleTerm' => Caller \in idleTerm)
      BY <1>1, <2>3
    <3> QED BY <2>1, <3>1, RunConsumes DEF Seen
  <2> QED BY <2>2, <2>3
<1>7. /\ callerPc' \in {"start", "wait"} => ~m_stopping'
      /\ callerPc' = "join" => pc'[Caller] = "exit"
      /\ Stopped' => \A q \in RunThreads : pc'[q] = "exit"
  BY <1>1 DEF Drain, Stopped
<1> QED
  BY <1>2, <1>3, <1>4, <1>5, <1>6, <1>7 DEF Drain

\* A thread that moves between points that Drain does not speak of.
LEMMA MoveDrain ==
  ASSUME UseCaller, IInv, Drain, NEW r \in RunThreads, NEW from, NEW to, Goto(r, from, to),
         from \notin {"schedule", "exit"}, to \notin {"pending", "scheduler", "exit"},
         UNCHANGED <<cbs, idleTerm, timers, m_pendingEventCount, m_stopping, addedLate>>,
         callerPc' = callerPc \/ (callerPc' = "wait" /\ callerPc = "start")
  PROVE  Drain'
<1>1. Caller \in RunThreads
  BY DEF RunThreads
<1>2. /\ pc[r] = from /\ pc'[r] = to
      /\ \A q \in RunThreads \ {r} : pc'[q] = pc[q]
  BY DEF Goto, IInv, TypeOK
<1>3. idleTerm' # {} => m_stopping'
  BY DEF Drain
<1>4. \A q \in RunThreads : pc'[q] = "exit" => q \in idleTerm'
  BY <1>2 DEF Drain
<1>5. \A q \in RunThreads : cbs'[q] > 0 => pc'[q] = "schedule"
  BY <1>2 DEF Drain
<1>6. \E q \in RunThreads : pc'[q] # "exit"
  BY <1>2
<1>7. ~addedLate' => Seen'
  BY <1>1, <1>2 DEF Drain, Seen
<1>8. /\ callerPc' \in {"start", "wait"} => ~m_stopping'
      /\ callerPc' = "join" => pc'[Caller] = "exit"
      /\ Stopped' => \A q \in RunThreads : pc'[q] = "exit"
  BY <1>1, <1>2 DEF Drain, Stopped
<1> QED
  BY <1>3, <1>4, <1>5, <1>6, <1>7, <1>8 DEF Drain

\* Tasks that finish, epoll_wait() and the threads that start.
LEMMA OtherMoves ==
  ASSUME UseCaller, IInv, Drain, NEW r \in RunThreads,
         \/ Finish(r) \/ \E events \in 0..MaxWork : EpollWait(r, events)
         \/ CreateThread(r) \/ ThreadRun(r)
  PROVE  Drain'
<1>1. CASE Finish(r)
  BY <1>1, MoveDrain DEF Finish, sourceVars, idleVars, clientVars
<1>2. CASE \E events \in 0..MaxWork : EpollWait(r, events)
  BY <1>2, MoveDrain DEF EpollWait, poolVars, clientVars
<1>3. CASE CreateThread(r)
  BY <1>3, MoveDrain DEF CreateThread, poolVars, sourceVars, idleVars
<1>4. CASE ThreadRun(r)
  BY <1>4, MoveDrain DEF ThreadRun, poolVars, sourceVars, idleVars
<1> QED
  BY <1>1, <1>2, <1>3, <1>4

\* Clients add work only while a thread is there to do it; a timer or an event
\* added after stop() was called is late.
LEMMA AddDrain ==
  ASSUME UseCaller, IInv, Drain, CallerAdd \/ \E r \in RunThreads : User(r)
  PROVE  Drain'
<1>1. Caller \in RunThreads
  BY DEF RunThreads
<1>2. PICK r \in RunThreads : pc[r] # "exit"
  <2>1. CASE CallerAdd
    BY <1>1, <2>1 DEF CallerAdd, IInv, CallerEnters
  <2>2. CASE \E r \in RunThreads : User(r)
    BY <2>2 DEF User
  <2> QED BY <2>1, <2>2
<1>3. /\ AddTask \/ AddTimer \/ AddEvent
      /\ UNCHANGED <<m_stopping, pc, cbs, idleTerm, callerPc>>
  BY DEF CallerAdd, User, poolVars, idleVars
<1>4. ~addedLate' => Seen'
  <2>1. CASE AddTask
    BY <1>3, <2>1 DEF AddTask, Drain, Seen, sourceVars
  <2>2. CASE AddTimer \/ AddEvent
    <3> SUFFICES ASSUME ~addedLate' PROVE Seen'
      OBVIOUS
    <3>1. ~m_stopping
      BY <2>2 DEF AddTimer, AddEvent
    <3>2. pc'[Caller] = "off" /\ Caller \notin idleTerm'
      BY <1>1, <1>3, <3>1 DEF Drain, IInv, CallerEnters
    <3> QED BY <3>2 DEF Seen
  <2> QED BY <1>3, <2>1, <2>2
<1> QED
  BY <1>2, <1>3, <1>4 DEF Drain, Stopped

\* Steps that move no thread and add nothing: time, and the caller's way through
\* start() and stop().
LEMMA CallerDrain ==
  ASSUME UseCaller, IInv, Drain,
         UNCHANGED <<m_tasks, timers, m_pendingEventCount, m_stopping, addedLate, pc, cbs, idleTerm>>,
         \/ callerPc' = callerPc
         \/ callerPc \in {"start", "wait"} /\ callerPc' \in {"start", "main"}
         \/ callerPc' = "join" /\ pc[Caller] = "exit"
         \/ callerPc = "join" /\ callerPc' = "main" /\ \A w \in Workers : pc[w] = "exit"
  PROVE  Drain'
<1>1. \A r \in RunThreads : r = Caller \/ r \in Workers
  BY DEF RunThreads
<1>2. ~addedLate' => Seen'
  BY DEF Drain, Seen
<1>3. /\ callerPc' \in {"start", "wait"} => ~m_stopping'
      /\ callerPc' = "join" => pc'[Caller] = "exit"
      /\ Stopped' => \A r \in RunThreads : pc'[r] = "exit"
  BY <1>1 DEF Drain, Stopped
<1> QED
  BY <1>2, <1>3 DEF Drain

\* stop() is called: nobody has left, and the caller's thread starts its looks.
LEMMA StopDrain ==
  ASSUME UseCaller, IInv, Drain, StopCall
  PROVE  Drain'
<1>1. Caller \in RunThreads /\ pc[Caller] = "off" /\ pc'[Caller] = "fetch" /\ callerPc' = "root"
  BY DEF StopCall, RunThreads, IInv, CallerEnters
<1>2. idleTerm' = {} /\ cbs' = cbs /\ m_stopping'
  BY DEF StopCall, Drain, idleVars
<1>3. \A r \in RunThreads \ {Caller} : pc'[r] = pc[r]
  BY DEF StopCall
<1>4. \A r \in RunThreads : pc'[r] # "exit"
  BY <1>1, <1>2, <1>3 DEF StopCall, Drain, idleVars
<1>5. \A r \in RunThreads : cbs'[r] > 0 => pc'[r] = "schedule"
  BY <1>1, <1>2, <1>3 DEF Drain
<1>6. Seen'
  BY <1>1, <1>2 DEF Seen
<1> QED
  BY <1>1, <1>2, <1>4, <1>5, <1>6 DEF Drain, Stopped

\* Every step keeps the second half.
LEMMA NextDrain == UseCaller /\ IInv /\ IInv' /\ Drain /\ [Next]_vars => Drain'
<1> SUFFICES ASSUME UseCaller, IInv, IInv', Drain, [Next]_vars PROVE Drain'
  OBVIOUS
<1>1. CASE \E r \in RunThreads :
             Run(r) \/ User(r) \/ Finish(r) \/ \E events \in 0..MaxWork : EpollWait(r, events)
  BY <1>1, RunDrain, AddDrain, OtherMoves
<1>2. CASE \E w \in Workers : CreateThread(w) \/ ThreadRun(w)
  BY <1>2, OtherMoves DEF RunThreads
<1>3. CASE ThreadCreated \/ StartEnd
  BY <1>3, CallerDrain DEF ThreadCreated, StartEnd, poolVars, sourceVars, idleVars
<1>4. CASE RootEnd \/ Join
  BY <1>4, CallerDrain DEF RootEnd, Join, poolVars, sourceVars, idleVars
<1>5. CASE Expire \/ NewEdge
  BY <1>5, CallerDrain DEF Expire, NewEdge, poolVars, idleVars, clientVars
<1>6. CASE UNCHANGED vars
  BY <1>6, CallerDrain DEF vars, poolVars, sourceVars, idleVars, clientVars
<1> QED
  BY <1>1, <1>2, <1>3, <1>4, <1>5, <1>6, AddDrain, StopDrain DEF Next

\* The initial state.
LEMMA InitDrain == UseCaller /\ Init => Drain
<1> SUFFICES ASSUME UseCaller, Init PROVE Drain
  OBVIOUS
<1>1. Caller \in RunThreads
  BY DEF RunThreads
<1> QED
  BY <1>1 DEF Init, Drain, Seen, Stopped

\* With nobody left there is nothing left.
LEMMA DrainedAtStop == UseCaller /\ IInv /\ Drain => StopDrains
<1> SUFFICES ASSUME UseCaller, IInv, Drain, Stopped, ~addedLate PROVE ~Work
  BY DEF StopDrains
<1>1. Caller \in RunThreads /\ \A r \in RunThreads : pc[r] = "exit"
  BY DEF RunThreads, Drain
<1>2. Caller \in idleTerm /\ ~(m_tasks > 0) /\ \A r \in RunThreads : ~(cbs[r] > 0)
  BY <1>1 DEF Drain
<1>3. timers = 0 /\ m_pendingEventCount = 0
  BY <1>2 DEF Drain, Seen
<1> QED
  BY <1>1, <1>2, <1>3 DEF Work

-----------------------------------------------------------------------------
(* The theorems.                                                           *)

\* The counters are the numbers of threads at the points they count, and an
\* event is claimed by at most one thread.
THEOREM ReactorInvariant == Spec => []IInv
BY InitInv, NextInv, PTL DEF Spec

\* Every variable keeps its type: m_activeThreadCount, m_idleThreadCount and
\* m_pendingEventCount, which are unsigned in the code, are never lowered below
\* zero, whatever order threads run in.
THEOREM ReactorTypes == Spec => []TypeOK
<1>1. IInv => TypeOK
  BY DEF IInv
<1> QED
  BY <1>1, ReactorInvariant, PTL

\* With use_caller = true, stop() returns only when the tasks, the timers and
\* the events added before it was called are done with.
THEOREM StopIsDrained == ASSUME UseCaller PROVE Spec => []StopDrains
<1>1. Init => Drain
  BY InitDrain
<1>2. IInv /\ IInv' /\ Drain /\ [Next]_vars => Drain'
  BY NextDrain
<1>3. IInv /\ Drain => StopDrains
  BY DrainedAtStop
<1> QED
  BY <1>1, <1>2, <1>3, ReactorInvariant, PTL DEF Spec
=============================================================================
