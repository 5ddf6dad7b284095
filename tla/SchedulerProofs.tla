--------------------------- MODULE SchedulerProofs ---------------------------
(***************************************************************************)
(* Proofs about Scheduler for any number of threads and tasks.             *)
(*                                                                         *)
(* The inductive invariant is TypeOK /\ ActiveCount /\ QuiescentExit.  The *)
(* three need each other: a thread that holds a task makes                 *)
(* m_activeThreadCount positive (ActiveCount), so no such thread exists    *)
(* once an idle fiber has returned, and then nobody can add to the list.   *)
(*                                                                         *)
(* The second part shows that Scheduler implements TaskPool when clients   *)
(* are orderly.                                                            *)
(***************************************************************************)
EXTENDS Scheduler, TLAPS, FiniteSetTheorems, SequenceTheorems

IInv == TypeOK /\ ActiveCount /\ QuiescentExit

\* A run thread set is finite.
LEMMA RunThreadsFinite == IsFiniteSet(RunThreads)
<1>1. IsFiniteSet({Caller}) /\ IsFiniteSet({})
  BY FS_EmptySet, FS_Singleton
<1> QED
  BY <1>1, FS_Union, SchedulerAssumption DEF SchedulerAssumption, RunThreads

\* Taking an element out of a list leaves a list over the same set.
LEMMA RemoveAtType ==
  ASSUME NEW S, NEW s \in Seq(S), NEW i \in 1..Len(s)
  PROVE  RemoveAt(s, i) \in Seq(S)
<1>1. SubSeq(s, 1, i - 1) \in Seq(S) /\ SubSeq(s, i + 1, Len(s)) \in Seq(S)
  BY SubSeqProperties, LenProperties
<1> QED
  BY <1>1, ConcatProperties DEF RemoveAt

\* How a step of one thread changes the number of threads at a set of points.
LEMMA StepCount ==
  ASSUME TypeOK, NEW r \in RunThreads, NEW from, NEW to, Step(r, from, to), NEW points
  PROVE  /\ Cardinality(At(points)) \in Nat
         /\ from \in points => Cardinality(At(points)) > 0
         /\ (from \in points) = (to \in points) =>
              Cardinality(At(points)') = Cardinality(At(points))
         /\ from \notin points /\ to \in points =>
              Cardinality(At(points)') = Cardinality(At(points)) + 1
         /\ from \in points /\ to \notin points =>
              Cardinality(At(points)') = Cardinality(At(points)) - 1
<1>1. IsFiniteSet(At(points))
  BY RunThreadsFinite, FS_Subset DEF At
<1>2. Cardinality(At(points)) \in Nat
  BY <1>1, FS_CardinalityType
<1>3. pc[r] = from /\ pc' = [pc EXCEPT ![r] = to] /\ pc \in [RunThreads -> PcValues]
  BY DEF Step, TypeOK
<1>4. from \in points => Cardinality(At(points)) > 0
  BY <1>1, <1>2, <1>3, FS_EmptySet DEF At
<1>5. ASSUME (from \in points) = (to \in points)
      PROVE  At(points)' = At(points)
  BY <1>3, <1>5 DEF At
<1>6. ASSUME from \notin points, to \in points
      PROVE  Cardinality(At(points)') = Cardinality(At(points)) + 1
  <2>1. At(points)' = At(points) \cup {r} /\ r \notin At(points)
    BY <1>3, <1>6 DEF At
  <2> QED
    BY <2>1, <1>1, FS_AddElement
<1>7. ASSUME from \in points, to \notin points
      PROVE  Cardinality(At(points)') = Cardinality(At(points)) - 1
  <2>1. At(points)' = At(points) \ {r} /\ r \in At(points)
    BY <1>3, <1>7 DEF At
  <2> QED
    BY <2>1, <1>1, FS_RemoveElement
<1> QED
  BY <1>2, <1>4, <1>5, <1>6, <1>7

\* A thread that holds a task keeps every idle fiber from returning.
LEMMA HolderBlocksExit ==
  ASSUME IInv, NEW r \in RunThreads, pc[r] \in TaskPcs
  PROVE  idleTerm = {}
<1>1. IsFiniteSet(At(TaskPcs)) /\ r \in At(TaskPcs)
  BY RunThreadsFinite, FS_Subset DEF At
<1>2. Cardinality(At(TaskPcs)) # 0
  BY <1>1, FS_EmptySet
<1> QED
  BY <1>2 DEF IInv, ActiveCount, QuiescentExit
-----------------------------------------------------------------------------
(* Every action preserves the invariant.                                   *)

\* What schedule() does to the list.
LEMMA ScheduleType ==
  ASSUME m_tasks \in Seq(ScheduleTask), NEW t \in Tasks, NEW isFiber \in BOOLEAN,
         NEW id \in ThreadIds, ScheduleNoLock(t, isFiber, id)
  PROVE  m_tasks' \in Seq(ScheduleTask)
<1>1. [id |-> t, fiber |-> isFiber, threadId |-> id] \in ScheduleTask
  BY DEF ScheduleTask
<1> QED
  BY <1>1, AppendProperties DEF ScheduleNoLock

\* The steps of the client code: CallerSchedule and what a running task does.
LEMMA ClientStep ==
  ASSUME IInv,
         \/ \E t \in Tasks, id \in ThreadIds : CallerSchedule(t, id)
         \/ \E r \in RunThreads : User(r)
  PROVE  IInv'
<1> USE DEF IInv, ActiveCount, QuiescentExit
<1>1. ASSUME NEW t \in Tasks, NEW id \in ThreadIds, CallerSchedule(t, id)
      PROVE  IInv'
  <2> (t \in Fibers) \in BOOLEAN
    OBVIOUS
  <2>1. m_tasks' \in Seq(ScheduleTask)
    BY <1>1, ScheduleType DEF CallerSchedule, TypeOK
  <2>2. TypeOK'
    BY <1>1, <2>1 DEF CallerSchedule, TypeOK, poolVars, fiberVars
  <2>3. ActiveCount' /\ QuiescentExit'
    BY <1>1 DEF CallerSchedule, poolVars, At
  <2> QED BY <2>2, <2>3
<1>2. ASSUME NEW r \in RunThreads, NEW t \in Tasks, NEW id \in ThreadIds,
             UserSchedule(r, t, id) \/ UserWake(r, t, id)
      PROVE  IInv'
  <2> (t \in Fibers) \in BOOLEAN /\ TRUE \in BOOLEAN
    OBVIOUS
  <2>1. m_tasks' \in Seq(ScheduleTask)
    BY <1>2, ScheduleType DEF UserSchedule, UserWake, TypeOK
  <2>2. TypeOK'
    BY <1>2, <2>1 DEF UserSchedule, UserWake, TypeOK, poolVars, fiberVars
  <2>3. idleTerm = {}
    BY <1>2, HolderBlocksExit DEF UserSchedule, UserWake, Running, TaskPcs
  <2>4. ActiveCount' /\ QuiescentExit'
    BY <1>2, <2>3 DEF UserSchedule, UserWake, poolVars, At
  <2> QED BY <2>2, <2>4
<1>3. ASSUME NEW r \in RunThreads, NEW where \in {"own", "any"}, UserReschedule(r, where)
      PROVE  IInv'
  <2>1. task[r] \in ScheduleTask /\ task[r].id \in Tasks
    BY <1>3 DEF UserReschedule, Step, TypeOK, TaskPcs, ScheduleTask
  <2>2. m_tasks' \in Seq(ScheduleTask)
    BY <1>3, <2>1, ScheduleType DEF UserReschedule, TypeOK, ThreadIds
  <2>3. TypeOK'
    BY <1>3, <2>1, <2>2 DEF UserReschedule, Step, TypeOK, poolVars, TaskPcs, PcValues
  <2>4. idleTerm = {}
    BY <1>3, HolderBlocksExit DEF UserReschedule, Step, TaskPcs
  <2>5. Step(r, "user", "yield")
    BY <1>3 DEF UserReschedule
  <2>6. ActiveCount'
    BY <1>3, <2>5, StepCount DEF UserReschedule, poolVars, TaskPcs, IdlePcs
  <2> QED BY <1>3, <2>3, <2>4, <2>6 DEF UserReschedule
<1>4. ASSUME NEW r \in RunThreads, UserPark(r)
      PROVE  IInv'
  <2>1. task[r] \in ScheduleTask /\ task[r].id \in Tasks
    BY <1>4 DEF UserPark, Step, TypeOK, TaskPcs, ScheduleTask
  <2>2. TypeOK'
    BY <1>4, <2>1 DEF UserPark, Step, TypeOK, poolVars, TaskPcs, PcValues
  <2>3. Step(r, "user", "yield")
    BY <1>4 DEF UserPark
  <2>4. ActiveCount'
    BY <1>4, <2>3, StepCount DEF UserPark, poolVars, TaskPcs, IdlePcs
  <2> QED BY <1>4, <2>2, <2>4 DEF UserPark, poolVars
<1>5. ASSUME NEW r \in RunThreads, Finish(r)
      PROVE  IInv'
  <2>1. task[r] \in ScheduleTask /\ task[r].id \in Tasks
    BY <1>5 DEF Finish, Step, TypeOK, TaskPcs, ScheduleTask
  <2>2. TypeOK'
    BY <1>5, <2>1 DEF Finish, Step, TypeOK, poolVars, TaskPcs, PcValues
  <2>3. Step(r, "user", "switch")
    BY <1>5 DEF Finish
  <2>4. ActiveCount'
    BY <1>5, <2>3, StepCount DEF Finish, poolVars, TaskPcs, IdlePcs
  <2> QED BY <1>5, <2>2, <2>4 DEF Finish, poolVars
<1> QED
  BY <1>1, <1>2, <1>3, <1>4, <1>5 DEF User

\* The steps of run() on one thread.
LEMMA RunStep ==
  ASSUME IInv, NEW r \in RunThreads, Run(r)
  PROVE  IInv'
<1> USE DEF IInv, ActiveCount, QuiescentExit
<1>1. ASSUME FetchTask(r) PROVE IInv'
  <2>1. PICK i \in DOMAIN m_tasks :
          /\ task' = [task EXCEPT ![r] = m_tasks[i]]
          /\ m_tasks' = RemoveAt(m_tasks, i)
    BY <1>1 DEF FetchTask, Eligible
  <2>2. m_tasks \in Seq(ScheduleTask) /\ i \in 1..Len(m_tasks) /\ m_tasks[i] \in ScheduleTask
    BY <2>1, ElementOfSeq, LenProperties DEF TypeOK
  <2>3. m_tasks' \in Seq(ScheduleTask)
    BY <2>1, <2>2, RemoveAtType
  <2>4. TypeOK'
    <3>1. /\ pc' = [pc EXCEPT ![r] = "resume"]
          /\ m_activeThreadCount' = m_activeThreadCount + 1
          /\ UNCHANGED <<m_idleThreadCount, m_stopping, fiberVars, idleTerm, callerPc>>
      BY <1>1 DEF FetchTask, Step
    <3> QED
      BY <2>1, <2>2, <2>3, <3>1 DEF TypeOK, fiberVars, TaskPcs, PcValues
  <2>5. idleTerm = {}
    BY <2>2
  <2>6. Step(r, "fetch", "resume")
    BY <1>1 DEF FetchTask
  <2>7. ActiveCount'
    <3>1. /\ Cardinality(At(TaskPcs)') = Cardinality(At(TaskPcs)) + 1
          /\ Cardinality(At(IdlePcs)') = Cardinality(At(IdlePcs))
      BY <2>6, StepCount DEF TaskPcs, IdlePcs
    <3>2. /\ m_activeThreadCount' = m_activeThreadCount + 1
          /\ m_idleThreadCount' = m_idleThreadCount
      BY <1>1 DEF FetchTask
    <3> QED
      BY <3>1, <3>2
  <2> QED BY <1>1, <2>4, <2>5, <2>7 DEF FetchTask
<1>2. ASSUME FetchNothing(r) PROVE IInv'
  <2>1. Step(r, "fetch", "noTask")
    BY <1>2 DEF FetchNothing
  <2>2. ActiveCount'
    BY <1>2, <2>1, StepCount DEF FetchNothing, poolVars, TaskPcs, IdlePcs
  <2>3. TypeOK'
    BY <1>2, <2>1, <2>2 DEF FetchNothing, Step, TypeOK, poolVars, fiberVars, TaskPcs, IdlePcs, PcValues
  <2> QED BY <1>2, <2>2, <2>3 DEF FetchNothing, poolVars
<1>3. ASSUME Resume(r) PROVE IInv'
  <2>1. Step(r, "resume", "user")
    BY <1>3 DEF Resume
  <2>2. ActiveCount'
    <3>1. /\ Cardinality(At(TaskPcs)') = Cardinality(At(TaskPcs))
          /\ Cardinality(At(IdlePcs)') = Cardinality(At(IdlePcs))
      BY <2>1, StepCount DEF TaskPcs, IdlePcs
    <3> QED
      BY <1>3, <3>1 DEF Resume, poolVars
  <2>3. TypeOK'
    <3>1. task[r] \in ScheduleTask /\ task[r].id \in Tasks
      BY <2>1 DEF Step, TypeOK, TaskPcs, ScheduleTask
    <3> QED
      BY <1>3, <2>1, <3>1 DEF Resume, Step, TypeOK, poolVars, TaskPcs, PcValues
  <2> QED BY <1>3, <2>2, <2>3 DEF Resume, poolVars
<1>4. ASSUME Yield(r) PROVE IInv'
  <2>1. Step(r, "yield", "switch")
    BY <1>4 DEF Yield
  <2>2. ActiveCount'
    BY <1>4, <2>1, StepCount DEF Yield, poolVars, TaskPcs, IdlePcs
  <2>3. TypeOK'
    <3>1. task[r] \in ScheduleTask /\ task[r].id \in Tasks
      BY <2>1 DEF Step, TypeOK, TaskPcs, ScheduleTask
    <3> QED
      BY <1>4, <2>1, <3>1 DEF Yield, Step, TypeOK, poolVars, TaskPcs, PcValues
  <2> QED BY <1>4, <2>2, <2>3 DEF Yield, poolVars
<1>5. ASSUME Switched(r) PROVE IInv'
  <2>1. Step(r, "switch", "dec")
    BY <1>5 DEF Switched
  <2>2. ActiveCount'
    BY <1>5, <2>1, StepCount DEF Switched, poolVars, TaskPcs, IdlePcs
  <2>3. TypeOK'
    BY <1>5, <2>1, <2>2 DEF Switched, Step, TypeOK, poolVars, fiberVars, TaskPcs, IdlePcs, PcValues
  <2> QED BY <1>5, <2>2, <2>3 DEF Switched, poolVars
<1>6. ASSUME Deactivate(r) PROVE IInv'
  <2>1. Step(r, "dec", "fetch")
    BY <1>6 DEF Deactivate
  <2>2. ActiveCount'
    BY <1>6, <2>1, StepCount DEF Deactivate, poolVars, TaskPcs, IdlePcs
  <2>3. TypeOK'
    <3>1. m_activeThreadCount \in Nat /\ m_activeThreadCount > 0
      BY <2>1, StepCount DEF TaskPcs, IdlePcs
    <3> QED
      BY <1>6, <2>1, <3>1 DEF Deactivate, Step, TypeOK, fiberVars, TaskPcs, IdlePcs, PcValues
  <2>4. idleTerm = {}
    BY <2>1, HolderBlocksExit DEF Step, TaskPcs
  <2> QED BY <1>6, <2>2, <2>3, <2>4 DEF Deactivate
<1>7. ASSUME EnterIdle(r) PROVE IInv'
  <2>1. Step(r, "noTask", "idle")
    BY <1>7 DEF EnterIdle
  <2>2. ActiveCount'
    BY <1>7, <2>1, StepCount DEF EnterIdle, poolVars, TaskPcs, IdlePcs
  <2>3. TypeOK'
    BY <1>7, <2>1, <2>2 DEF EnterIdle, Step, TypeOK, poolVars, fiberVars, TaskPcs, IdlePcs, PcValues
  <2> QED BY <1>7, <2>2, <2>3 DEF EnterIdle, poolVars
<1>8. ASSUME IdleRound(r) PROVE IInv'
  <2>1. Step(r, "idle", "idleBack")
    BY <1>8 DEF IdleRound
  <2>2. ActiveCount'
    BY <1>8, <2>1, StepCount DEF IdleRound, poolVars, TaskPcs, IdlePcs
  <2>3. TypeOK'
    BY <1>8, <2>1 DEF IdleRound, Step, TypeOK, poolVars, fiberVars, TaskPcs, IdlePcs, PcValues
  <2>4. QuiescentExit'
    BY <1>8 DEF IdleRound, Stopping, poolVars
  <2> QED BY <2>2, <2>3, <2>4
<1>9. ASSUME LeaveIdle(r) PROVE IInv'
  <2>1. Step(r, "idleBack", "fetch")
    BY <1>9 DEF LeaveIdle
  <2>2. ActiveCount'
    BY <1>9, <2>1, StepCount DEF LeaveIdle, poolVars, TaskPcs, IdlePcs
  <2>3. TypeOK'
    <3>1. m_idleThreadCount \in Nat /\ m_idleThreadCount > 0
      BY <2>1, StepCount DEF TaskPcs, IdlePcs
    <3> QED
      BY <1>9, <2>1, <3>1 DEF LeaveIdle, Step, TypeOK, fiberVars, TaskPcs, IdlePcs, PcValues
  <2> QED BY <1>9, <2>2, <2>3 DEF LeaveIdle, poolVars
<1>10. ASSUME LeaveRun(r) PROVE IInv'
  <2>1. Step(r, "noTask", "exit")
    BY <1>10 DEF LeaveRun
  <2>2. ActiveCount'
    BY <1>10, <2>1, StepCount DEF LeaveRun, poolVars, TaskPcs, IdlePcs
  <2>3. TypeOK'
    BY <1>10, <2>1, <2>2 DEF LeaveRun, Step, TypeOK, poolVars, fiberVars, TaskPcs, IdlePcs, PcValues
  <2> QED BY <1>10, <2>2, <2>3 DEF LeaveRun, poolVars
<1> QED
  BY <1>1, <1>2, <1>3, <1>4, <1>5, <1>6, <1>7, <1>8, <1>9, <1>10 DEF Run

\* start() and stop().
LEMMA ControlStep ==
  ASSUME IInv, Start \/ StopCall \/ RootEnd \/ Join
  PROVE  IInv'
<1> USE DEF IInv, ActiveCount, QuiescentExit
<1>1. ASSUME Start PROVE IInv'
  <2>1. At(TaskPcs)' = At(TaskPcs) /\ At(IdlePcs)' = At(IdlePcs)
    BY <1>1 DEF Start, At, TypeOK, TaskPcs, IdlePcs, RunThreads
  <2>2. TypeOK'
    BY <1>1 DEF Start, TypeOK, poolVars, fiberVars, TaskPcs, PcValues
  <2> QED BY <1>1, <2>1, <2>2 DEF Start, poolVars
<1>2. ASSUME StopCall PROVE IInv'
  <2>1. At(TaskPcs)' = At(TaskPcs) /\ At(IdlePcs)' = At(IdlePcs)
    BY <1>2 DEF StopCall, At, TypeOK, TaskPcs, IdlePcs
  <2>2. TypeOK'
    BY <1>2 DEF StopCall, TypeOK, fiberVars, TaskPcs, PcValues
  <2> QED BY <1>2, <2>1, <2>2 DEF StopCall
<1>3. ASSUME RootEnd \/ Join PROVE IInv'
  BY <1>3 DEF RootEnd, Join, TypeOK, poolVars, fiberVars, At
<1> QED
  BY <1>1, <1>2, <1>3

-----------------------------------------------------------------------------
\* For any pool of threads and any tasks: the inductive invariant holds.
THEOREM SchedulerInvariant == Spec => []IInv
<1>1. Init => IInv
  <2> SUFFICES ASSUME Init PROVE IInv
    OBVIOUS
  <2>1. TypeOK
    BY SchedulerAssumption, EmptySeq
       DEF Init, SchedulerAssumption, TypeOK, PcValues, TaskPcs, ResetTask
  <2>2. At(TaskPcs) = {} /\ At(IdlePcs) = {}
    BY DEF Init, At, TaskPcs, IdlePcs
  <2> QED
    BY <2>1, <2>2, FS_EmptySet DEF Init, IInv, ActiveCount, QuiescentExit
<1>2. IInv /\ [Next]_vars => IInv'
  <2> SUFFICES ASSUME IInv, [Next]_vars PROVE IInv'
    OBVIOUS
  <2>1. ASSUME UNCHANGED vars PROVE IInv'
    BY <2>1 DEF vars, IInv, TypeOK, ActiveCount, QuiescentExit, At
  <2> QED
    BY <2>1, ClientStep, RunStep, ControlStep DEF Next, CallerStep, Terminated
<1> QED
  BY <1>1, <1>2, PTL DEF Spec

\* The variables keep their types; in particular the two thread counters, which
\* are unsigned in the code, never go below zero.
THEOREM TypeCorrect == Spec => []TypeOK
<1>1. IInv => TypeOK
  BY DEF IInv
<1> QED
  BY <1>1, SchedulerInvariant, PTL

\* m_activeThreadCount and m_idleThreadCount are exact at every moment.
THEOREM CountsExact == Spec => []ActiveCount
<1>1. IInv => ActiveCount
  BY DEF IInv
<1> QED
  BY <1>1, SchedulerInvariant, PTL

\* No thread's idle fiber returns while a task is waiting or running, however
\* schedule(), stop() and the threads interleave.
THEOREM ExitIsQuiescent == Spec => []QuiescentExit
<1>1. IInv => QuiescentExit
  BY DEF IInv
<1> QED
  BY <1>1, SchedulerInvariant, PTL

-----------------------------------------------------------------------------
(* Scheduler implements TaskPool and runs into none of its assertions, for *)
(* any number of threads and tasks, as long as its clients are orderly: a  *)
(* running fiber reschedules itself only on its own thread and nobody else *)
(* wakes a fiber, or there is one thread.  (Without this the run           *)
(* scheduler_requeue shows a fault.)                                       *)
(*                                                                         *)
(* The invariant says who may still touch a fiber: it is in the list at    *)
(* most once and held by at most one thread; while the thread that leaves  *)
(* it has not returned to run(), no other thread may take it.  The list    *)
(* matters only through the set of its entries, and the two ways it        *)
(* changes are taken care of by two lemmas about sequences.                *)

Single == \A q, r \in RunThreads : q = r

Orderly == Single \/ (Requeue \subseteq {"own"} /\ ~Park)

Entries == {m_tasks[i] : i \in DOMAIN m_tasks}

Leaving == {"yield", "switch", "dec"}

Holds(r, t) == pc[r] \in TaskPcs /\ task[r].id = t

\* No two positions of the list hold the same task.
Distinct == \A i, j \in DOMAIN m_tasks : m_tasks[i].id = m_tasks[j].id => i = j

\* No list entry and no thread shares its task with another one.
Once ==
  /\ Distinct
  /\ \A q, r \in RunThreads, t \in Tasks : Holds(q, t) /\ Holds(r, t) => q = r

\* Is a fiber READY, or about to be when its thread goes on with yield()?
GoingReady(t) ==
  m_state[t] = "READY" \/ \E r \in RunThreads : pc[r] = "yield" /\ task[r].id = t

\* A thread that still holds a task of the list is the only one that may take it.
Waiting ==
  \A e \in Entries :
    /\ e.id \notin parked
    /\ IF e.fiber THEN GoingReady(e.id) ELSE m_state[e.id] = "NONE"
    /\ \A r \in RunThreads :
         Holds(r, e.id) =>
           /\ pc[r] \in Leaving /\ e.fiber
           /\ \A q \in RunThreads : e.threadId \in {AnyThread, q} => q = r

Parking ==
  \A t \in parked :
    /\ Park /\ GoingReady(t)
    /\ \A r \in RunThreads : Holds(r, t) => pc[r] \in Leaving

\* What a thread that holds a task knows of it.
Holding ==
  \A r \in RunThreads :
    /\ pc[r] = "resume" => m_state[task[r].id] = IF task[r].fiber THEN "READY" ELSE "NONE"
    /\ pc[r] \in {"user", "yield"} => m_state[task[r].id] = "RUNNING"
    /\ pc[r] \in Leaving =>
         \/ \E e \in Entries : e.id = task[r].id
         \/ task[r].id \in parked
         \/ m_state[task[r].id] = "TERM"

\* stop() enters run() on the caller's thread once.
RootOnce ==
  /\ \A r \in RunThreads : pc[r] = "exit" => r \in idleTerm
  /\ UseCaller /\ callerPc = "main" => pc[Caller] = IF m_stopping THEN "exit" ELSE "off"
  /\ UseCaller /\ callerPc = "join" => pc[Caller] = "exit"

Tidy == NoFault /\ Once /\ Waiting /\ Parking /\ Holding /\ RootOnce

-----------------------------------------------------------------------------
(* The list.                                                               *)

\* What is left of a list when one element has been taken out.
LEMMA RemoveAtElements ==
  ASSUME NEW S, NEW s \in Seq(S), NEW i \in 1..Len(s)
  PROVE  /\ Len(RemoveAt(s, i)) = Len(s) - 1
         /\ \A j \in 1..(Len(s) - 1) :
              RemoveAt(s, i)[j] = IF j < i THEN s[j] ELSE s[j + 1]
<1> DEFINE front == SubSeq(s, 1, i - 1)
           rest == SubSeq(s, i + 1, Len(s))
<1>1. Len(s) \in Nat
  BY LenProperties
<1>2. /\ front \in Seq(S) /\ Len(front) = i - 1
      /\ \A j \in 1..(i - 1) : front[j] = s[j]
  BY <1>1, SubSeqProperties
<1>3. /\ rest \in Seq(S) /\ Len(rest) = Len(s) - i
      /\ \A j \in 1..(Len(s) - i) : rest[j] = s[i + j]
  BY <1>1, SubSeqProperties
<1>4. RemoveAt(s, i) = front \o rest
  BY DEF RemoveAt
<1> HIDE DEF front, rest
<1>5. /\ Len(front \o rest) = Len(front) + Len(rest)
      /\ \A j \in 1..(Len(front) + Len(rest)) :
           (front \o rest)[j] = IF j <= Len(front) THEN front[j] ELSE rest[j - Len(front)]
  BY <1>2, <1>3, ConcatProperties
<1>6. ASSUME NEW j \in 1..(Len(s) - 1)
      PROVE  (front \o rest)[j] = IF j < i THEN s[j] ELSE s[j + 1]
  <2>1. CASE j < i
    BY <1>1, <1>2, <1>3, <1>5, <2>1
  <2>2. CASE ~(j < i)
    <3>1. (front \o rest)[j] = rest[j - (i - 1)]
      BY <1>1, <1>2, <1>3, <1>5, <2>2
    <3>2. j - (i - 1) \in 1..(Len(s) - i) /\ i + (j - (i - 1)) = j + 1
      BY <1>1, <2>2
    <3> QED BY <1>3, <2>2, <3>1, <3>2
  <2> QED BY <2>1, <2>2
<1> QED
  BY <1>1, <1>2, <1>3, <1>4, <1>5, <1>6

\* schedule() of a task that is not in the list.
LEMMA AppendEntry ==
  ASSUME m_tasks \in Seq(ScheduleTask), Distinct, NEW t \in Tasks, NEW isFiber, NEW id,
         ScheduleNoLock(t, isFiber, id), \A e \in Entries : e.id # t,
         isFiber \in BOOLEAN, id \in ThreadIds
  PROVE  /\ Entries' = Entries \cup {[id |-> t, fiber |-> isFiber, threadId |-> id]}
         /\ Distinct'
<1> DEFINE new == [id |-> t, fiber |-> isFiber, threadId |-> id]
<1>1. new \in ScheduleTask /\ new.id = t
  BY DEF ScheduleTask
<1>2. m_tasks' = Append(m_tasks, new)
  BY DEF ScheduleNoLock
<1> HIDE DEF new
<1>3. /\ Len(m_tasks) \in Nat /\ DOMAIN m_tasks = 1..Len(m_tasks)
      /\ DOMAIN m_tasks' = 1..(Len(m_tasks) + 1)
      /\ \A i \in 1..Len(m_tasks) : m_tasks'[i] = m_tasks[i]
      /\ m_tasks'[Len(m_tasks) + 1] = new
  <2>1. Len(m_tasks) \in Nat /\ DOMAIN m_tasks = 1..Len(m_tasks)
    BY LenProperties
  <2>2. /\ m_tasks' \in Seq(ScheduleTask) /\ Len(m_tasks') = Len(m_tasks) + 1
        /\ \A i \in 1..Len(m_tasks) : m_tasks'[i] = m_tasks[i]
        /\ m_tasks'[Len(m_tasks) + 1] = new
    BY <1>1, <1>2, AppendProperties
  <2>3. DOMAIN m_tasks' = 1..Len(m_tasks')
    BY <2>2, LenProperties
  <2> QED BY <2>1, <2>2, <2>3
<1>4. Entries' = Entries \cup {new}
  BY <1>3 DEF Entries
<1>5. \A i \in 1..Len(m_tasks) : m_tasks[i].id # t
  BY <1>3 DEF Entries
<1>6. Distinct'
  BY <1>1, <1>3, <1>5 DEF Distinct
<1> QED
  BY <1>4, <1>6 DEF new

\* A task that is taken out of the list is not in it any more.
LEMMA RemoveEntry ==
  ASSUME m_tasks \in Seq(ScheduleTask), Distinct, NEW i \in DOMAIN m_tasks,
         m_tasks' = RemoveAt(m_tasks, i)
  PROVE  /\ Entries' = {e \in Entries : e.id # m_tasks[i].id}
         /\ Distinct'
<1>1. Len(m_tasks) \in Nat /\ DOMAIN m_tasks = 1..Len(m_tasks) /\ i \in 1..Len(m_tasks)
  BY LenProperties
<1>2. m_tasks' \in Seq(ScheduleTask)
  BY <1>1, RemoveAtType
<1>3. /\ DOMAIN m_tasks' = 1..(Len(m_tasks) - 1)
      /\ \A j \in 1..(Len(m_tasks) - 1) :
           m_tasks'[j] = IF j < i THEN m_tasks[j] ELSE m_tasks[j + 1]
  BY <1>1, <1>2, RemoveAtElements, LenProperties
<1>4. Distinct'
  <2> DEFINE Was(j) == IF j < i THEN j ELSE j + 1
  <2>1. \A j \in 1..(Len(m_tasks) - 1) : Was(j) \in 1..Len(m_tasks) /\ m_tasks'[j] = m_tasks[Was(j)]
    BY <1>1, <1>3
  <2>2. \A j, k \in 1..(Len(m_tasks) - 1) : Was(j) = Was(k) => j = k
    BY <1>1
  <2> HIDE DEF Was
  <2> QED BY <1>1, <1>3, <2>1, <2>2 DEF Distinct
<1>5. \A e \in Entries' : e \in Entries /\ e.id # m_tasks[i].id
  BY <1>1, <1>3 DEF Entries, Distinct
<1>6. ASSUME NEW e \in Entries, e.id # m_tasks[i].id PROVE e \in Entries'
  <2>1. PICK j \in 1..Len(m_tasks) : e = m_tasks[j]
    BY <1>1 DEF Entries
  <2>2. j # i
    BY <1>6, <2>1
  <2>3. CASE j < i
    BY <1>1, <1>3, <2>1, <2>3 DEF Entries
  <2>4. CASE j > i
    <3>1. j - 1 \in 1..(Len(m_tasks) - 1) /\ ~(j - 1 < i) /\ (j - 1) + 1 = j
      BY <1>1, <2>4
    <3>2. m_tasks'[j - 1] = m_tasks[j]
      BY <1>3, <3>1
    <3> QED BY <1>3, <2>1, <3>1, <3>2 DEF Entries
  <2> QED BY <1>1, <2>2, <2>3, <2>4
<1> QED
  BY <1>4, <1>5, <1>6

-----------------------------------------------------------------------------
(* Every step keeps Tidy.                                                  *)

\* What holding a task means for its record.
LEMMA HeldTask ==
  ASSUME TypeOK, NEW r \in RunThreads, pc[r] \in TaskPcs
  PROVE  task[r].id \in Tasks /\ task[r] \in ScheduleTask
BY DEF TypeOK, ScheduleTask

\* Entries are list elements.
LEMMA EntryType ==
  ASSUME TypeOK, NEW e \in Entries
  PROVE  e \in ScheduleTask /\ e.id \in Tasks /\ e.fiber \in BOOLEAN
<1>1. e \in ScheduleTask
  BY ElementOfSeq, LenProperties DEF TypeOK, Entries
<1> QED BY <1>1 DEF ScheduleTask

\* A task that waits, in the list or parked, has not ended; nor has it an owner
\* that runs it.
LEMMA WaitingIsNotHeld ==
  ASSUME TypeOK, Tidy, NEW r \in RunThreads, pc[r] \in {"resume", "user"}
  PROVE  task[r].id \notin parked /\ \A e \in Entries : e.id # task[r].id
<1>1. Holds(r, task[r].id) /\ pc[r] \notin Leaving
  BY DEF Holds, TaskPcs, Leaving
<1> QED
  BY <1>1 DEF Tidy, Waiting, Parking

\* Threads that move between points that RootOnce does not speak of.
LEMMA RootStep ==
  ASSUME TypeOK, RootOnce, NEW r \in RunThreads, NEW from, NEW to, Step(r, from, to),
         from \notin {"off", "exit"}, to = "exit" => r \in idleTerm, idleTerm \subseteq idleTerm',
         UNCHANGED <<m_stopping, callerPc>>
  PROVE  RootOnce'
<1>1. pc[r] = from /\ pc'[r] = to /\ \A q \in RunThreads \ {r} : pc'[q] = pc[q]
  BY DEF Step, TypeOK
<1>2. UseCaller => Caller \in RunThreads
  BY DEF RunThreads
<1>3. \A q \in RunThreads : pc'[q] = "exit" => q \in idleTerm'
  BY <1>1 DEF RootOnce
<1>4. UseCaller /\ callerPc' \in {"main", "join"} => r # Caller
  BY <1>1 DEF RootOnce
<1> QED
  BY <1>1, <1>2, <1>3, <1>4 DEF RootOnce

\* Moves outside the points at which a thread holds a task.
LEMMA IdleTidy ==
  ASSUME TypeOK, Tidy, NEW r \in RunThreads,
         FetchNothing(r) \/ EnterIdle(r) \/ IdleRound(r) \/ LeaveIdle(r) \/ LeaveRun(r)
  PROVE  Tidy'
<1>1. PICK from, to :
        /\ Step(r, from, to) /\ from \notin TaskPcs \cup {"off", "exit"} /\ to \notin TaskPcs
        /\ to = "exit" => r \in idleTerm
  BY DEF FetchNothing, EnterIdle, IdleRound, LeaveIdle, LeaveRun, TaskPcs
<1>2. /\ UNCHANGED <<m_tasks, m_state, parked, task, faults, m_stopping, callerPc>>
      /\ idleTerm \subseteq idleTerm'
  BY DEF FetchNothing, EnterIdle, IdleRound, LeaveIdle, LeaveRun, poolVars, fiberVars
<1>3. RootOnce'
  BY <1>1, <1>2, RootStep DEF Tidy
<1>4. \A q \in RunThreads : (pc[q] \in TaskPcs \/ pc'[q] \in TaskPcs) => pc'[q] = pc[q]
  BY <1>1 DEF Step, TypeOK
<1>5. Entries' = Entries /\ Distinct' = Distinct
  BY <1>2 DEF Entries, Distinct
<1>6. \A q \in RunThreads, t \in Tasks : Holds(q, t)' = Holds(q, t)
  BY <1>2, <1>4 DEF Holds
<1>7. \A t \in Tasks : GoingReady(t)' = GoingReady(t)
  BY <1>2, <1>4 DEF GoingReady, TaskPcs
<1>8. Once'
  BY <1>5, <1>6 DEF Tidy, Once
<1>9. Waiting'
  BY <1>2, <1>4, <1>5, <1>6, <1>7, EntryType DEF Tidy, Waiting, Holds
<1>10. Parking'
  BY <1>2, <1>4, <1>6, <1>7 DEF Tidy, Parking, TypeOK, Holds
<1>11. Holding'
  BY <1>2, <1>4, <1>5 DEF Tidy, Holding, TaskPcs, Leaving
<1> QED
  BY <1>2, <1>3, <1>8, <1>9, <1>10, <1>11 DEF Tidy, NoFault

\* A task enters the list, either for the first time or because it is woken.
LEMMA SubmitTidy ==
  ASSUME TypeOK, Tidy, Orderly, NEW t \in Tasks, NEW isFiber \in BOOLEAN, NEW id \in ThreadIds,
         ScheduleNoLock(t, isFiber, id), \A e \in Entries : e.id # t,
         IF isFiber THEN GoingReady(t) ELSE m_state[t] = "NONE",
         \A r \in RunThreads : ~Holds(r, t), parked' = parked \ {t},
         UNCHANGED <<m_state, pc, task, m_stopping, idleTerm, callerPc, faults>>
  PROVE  Tidy'
<1> DEFINE new == [id |-> t, fiber |-> isFiber, threadId |-> id]
<1>1. new.id = t /\ new.fiber = isFiber
  OBVIOUS
<1>2. Entries' = Entries \cup {new} /\ Distinct'
  BY AppendEntry DEF Tidy, Once, TypeOK
<1> HIDE DEF new
<1>3. \A q \in RunThreads, u \in Tasks : Holds(q, u)' = Holds(q, u)
  BY DEF Holds
<1>4. \A u \in Tasks : GoingReady(u)' = GoingReady(u)
  BY DEF GoingReady
<1>5. Once'
  BY <1>2, <1>3 DEF Tidy, Once
<1>6. Waiting'
  BY <1>1, <1>2, <1>3, <1>4, EntryType DEF Tidy, Waiting
<1>7. Parking'
  BY <1>3, <1>4 DEF Tidy, Parking, TypeOK
<1>8. Holding'
  BY <1>1, <1>2 DEF Tidy, Holding
<1>9. RootOnce'
  BY DEF Tidy, RootOnce
<1> QED
  BY <1>5, <1>6, <1>7, <1>8, <1>9 DEF Tidy, NoFault

\* schedule() of a new task.
LEMMA ScheduleTidy ==
  ASSUME TypeOK, Tidy, Orderly, NEW t \in Tasks, NEW id \in ThreadIds,
         CallerSchedule(t, id) \/ \E r \in RunThreads : UserSchedule(r, t, id)
  PROVE  Tidy'
<1>1. /\ Fresh(t) /\ ScheduleNoLock(t, t \in Fibers, id)
      /\ UNCHANGED <<m_state, parked, pc, task, m_stopping, idleTerm, callerPc, faults>>
  BY DEF CallerSchedule, UserSchedule, poolVars, fiberVars
<1>2. (t \in Fibers) \in BOOLEAN
  OBVIOUS
<1>3. \A e \in Entries : e.id # t
  BY <1>1 DEF Fresh, Queued, Entries
<1>4. \A r \in RunThreads : ~Holds(r, t)
  BY <1>1 DEF Fresh, OnThread, Holds
<1>5. IF t \in Fibers THEN GoingReady(t) ELSE m_state[t] = "NONE"
  BY <1>1 DEF Fresh, GoingReady
<1>6. parked' = parked \ {t}
  BY <1>1 DEF Fresh
<1> QED
  BY <1>1, <1>2, <1>3, <1>4, <1>5, <1>6, SubmitTidy

\* schedule() of a parked fiber: there is one thread, and it runs another task.
LEMMA WakeTidy ==
  ASSUME TypeOK, Tidy, Orderly, NEW r \in RunThreads, NEW t \in Tasks, NEW id \in ThreadIds,
         UserWake(r, t, id)
  PROVE  Tidy'
<1>1. /\ t \in parked /\ pc[r] = "user" /\ ScheduleNoLock(t, TRUE, id) /\ parked' = parked \ {t}
      /\ UNCHANGED <<m_state, pc, task, m_stopping, idleTerm, callerPc, faults>>
  BY DEF UserWake, Running, poolVars
<1>2. Single
  BY <1>1 DEF Tidy, Parking, Orderly
<1>3. \A q \in RunThreads : ~Holds(q, t)
  BY <1>1, <1>2 DEF Single, Tidy, Parking, Leaving
<1>4. GoingReady(t)
  BY <1>1 DEF Tidy, Parking
<1>5. \A e \in Entries : e.id # t
  BY <1>1 DEF Tidy, Waiting
<1>6. TRUE \in BOOLEAN
  OBVIOUS
<1> QED
  BY <1>1, <1>3, <1>4, <1>5, <1>6, SubmitTidy

\* A running fiber gives up its thread: it schedules itself or it parks.
LEMMA GiveUpTidy ==
  ASSUME TypeOK, Tidy, Orderly, NEW r \in RunThreads,
         (\E where \in {"own", "any"} : UserReschedule(r, where)) \/ UserPark(r)
  PROVE  Tidy'
<1>1. Step(r, "user", "yield") /\ UNCHANGED <<m_state, task, m_stopping, idleTerm, callerPc, faults>>
  BY DEF UserReschedule, UserPark, poolVars
<1>2. /\ pc[r] = "user" /\ pc'[r] = "yield" /\ \A q \in RunThreads \ {r} : pc'[q] = pc[q]
  BY <1>1 DEF Step, TypeOK
<1>3. PICK t \in Tasks : t = task[r].id /\ t \notin parked /\ \A e \in Entries : e.id # t
  BY <1>2, HeldTask, WaitingIsNotHeld DEF TaskPcs
<1>4. \A q \in RunThreads, u \in Tasks : Holds(q, u)' = Holds(q, u)
  BY <1>1, <1>2 DEF Holds, TaskPcs
<1>5. \A q \in RunThreads : Holds(q, t) => q = r
  BY <1>2, <1>3 DEF Tidy, Once, Holds, TaskPcs
<1>6. \A u \in Tasks : GoingReady(u) => GoingReady(u)'
  BY <1>1, <1>2 DEF GoingReady
<1>7. GoingReady(t)'
  BY <1>1, <1>2, <1>3 DEF GoingReady
<1>8. m_state'[t] = "RUNNING"
  BY <1>1, <1>2, <1>3 DEF Tidy, Holding
<1>9. RootOnce'
  BY <1>1, RootStep DEF Tidy
<1>10. \A q \in RunThreads, u \in Tasks : Holds(q, u) /\ pc[q] \in Leaving => pc'[q] \in Leaving
  BY <1>2 DEF Leaving
<1>11. CASE UserPark(r)
  <2>1. parked' = parked \cup {t} /\ Park /\ Entries' = Entries /\ Distinct' = Distinct
    BY <1>3, <1>11 DEF UserPark, Entries, Distinct
  <2>2. Once'
    BY <1>4, <2>1 DEF Tidy, Once
  <2>3. Waiting'
    BY <1>1, <1>3, <1>4, <1>6, <1>10, <2>1, EntryType DEF Tidy, Waiting
  <2>4. Parking'
    <3>1. \A q \in RunThreads : Holds(q, t)' => pc'[q] \in Leaving
      BY <1>2, <1>3, <1>4, <1>5 DEF Leaving
    <3>2. \A u \in parked : GoingReady(u)' /\ \A q \in RunThreads : Holds(q, u)' => pc'[q] \in Leaving
      BY <1>4, <1>6, <1>10 DEF Tidy, Parking, TypeOK
    <3> QED BY <1>7, <2>1, <3>1, <3>2 DEF Parking
  <2>5. Holding'
    BY <1>1, <1>2, <1>3, <1>8, <2>1 DEF Tidy, Holding, Leaving
  <2> QED
    BY <1>1, <1>9, <2>2, <2>3, <2>4, <2>5 DEF Tidy, NoFault
<1>12. ASSUME NEW where \in {"own", "any"}, UserReschedule(r, where) PROVE Tidy'
  <2>0. PICK id \in ThreadIds : id = IF where = "own" THEN r ELSE AnyThread
    BY DEF ThreadIds
  <2>1. PICK new : /\ new = [id |-> t, fiber |-> TRUE, threadId |-> id]
                   /\ new.id = t /\ new.fiber /\ new.threadId = id
    <3> DEFINE rec == [id |-> t, fiber |-> TRUE, threadId |-> id]
    <3>1. rec.id = t /\ rec.fiber /\ rec.threadId = id
      OBVIOUS
    <3> QED BY <3>1, Zenon
  <2>2. ScheduleNoLock(t, TRUE, id) /\ parked' = parked /\ where \in Requeue
    BY <1>3, <1>12, <2>0 DEF UserReschedule
  <2>3. TRUE \in BOOLEAN
    OBVIOUS
  <2>4. Entries' = Entries \cup {new} /\ Distinct'
    BY <1>3, <2>1, <2>2, <2>3, AppendEntry DEF Tidy, Once, TypeOK
  <2>5. \A q \in RunThreads : id \in {AnyThread, q} => q = r
    <3>1. r # AnyThread
      BY SchedulerAssumption DEF SchedulerAssumption, RunThreads
    <3>2. where = "any" => Single
      BY <2>2 DEF Orderly
    <3> QED BY <2>0, <3>1, <3>2 DEF Single
  <2>6. Once'
    BY <1>4, <2>4 DEF Tidy, Once
  <2>7. Waiting'
    <3>1. ASSUME NEW e \in Entries PROVE
             /\ e.id \notin parked'
             /\ IF e.fiber THEN GoingReady(e.id)' ELSE m_state'[e.id] = "NONE"
             /\ \A q \in RunThreads :
                  Holds(q, e.id)' =>
                    /\ pc'[q] \in Leaving /\ e.fiber
                    /\ \A p \in RunThreads : e.threadId \in {AnyThread, p} => p = q
      BY <1>1, <1>4, <1>6, <1>10, <2>2, EntryType DEF Tidy, Waiting
    <3>2. /\ new.id \notin parked' /\ GoingReady(new.id)'
          /\ \A q \in RunThreads :
               Holds(q, new.id)' =>
                 /\ pc'[q] \in Leaving
                 /\ \A p \in RunThreads : new.threadId \in {AnyThread, p} => p = q
      <4>1. new.id \notin parked' /\ GoingReady(new.id)'
        BY <1>3, <1>7, <2>1, <2>2
      <4>2. \A q \in RunThreads : Holds(q, new.id)' => q = r
        BY <1>3, <1>4, <1>5, <2>1
      <4>3. pc'[r] \in Leaving
        BY <1>2 DEF Leaving
      <4> QED BY <2>1, <2>5, <4>1, <4>2, <4>3
    <3>3. \A e \in Entries' : e \in Entries \/ e = new
      BY <2>4
    <3> QED BY <2>1, <3>1, <3>2, <3>3 DEF Waiting
  <2>8. Parking'
    BY <1>4, <1>6, <1>10, <2>2 DEF Tidy, Parking, TypeOK
  <2>9. Holding'
    BY <1>1, <1>2, <1>3, <1>8, <2>1, <2>2, <2>4 DEF Tidy, Holding, Leaving
  <2> QED
    BY <1>1, <1>9, <2>6, <2>7, <2>8, <2>9 DEF Tidy, NoFault
<1> QED
  BY <1>11, <1>12

\* A thread takes a task: nobody else holds it, and its fiber is READY.
LEMMA FetchTidy ==
  ASSUME TypeOK, Tidy, NEW r \in RunThreads, FetchTask(r)
  PROVE  Tidy'
<1>1. PICK i \in DOMAIN m_tasks :
        /\ m_tasks[i].threadId \in {AnyThread, r}
        /\ faults' = IF m_tasks[i].fiber /\ m_state[m_tasks[i].id] # "READY"
                      THEN {"run: task fiber is READY"}
                      ELSE {}
        /\ task' = [task EXCEPT ![r] = m_tasks[i]]
        /\ m_tasks' = RemoveAt(m_tasks, i)
  BY DEF FetchTask, Eligible
<1>2. PICK e \in Entries : e = m_tasks[i]
  BY DEF Entries
<1>3. e.id \in Tasks
  BY EntryType
<1>4. /\ Step(r, "fetch", "resume")
      /\ UNCHANGED <<m_state, parked, m_stopping, idleTerm, callerPc>>
  BY DEF FetchTask, fiberVars
<1>5. /\ pc[r] = "fetch" /\ pc'[r] = "resume" /\ task'[r] = e
      /\ \A q \in RunThreads \ {r} : pc'[q] = pc[q] /\ task'[q] = task[q]
  BY <1>1, <1>2, <1>4 DEF Step, TypeOK
<1>6. \A q \in RunThreads : ~Holds(q, e.id)
  <2> SUFFICES ASSUME NEW q \in RunThreads, Holds(q, e.id) PROVE FALSE
    OBVIOUS
  <2>1. q = r
    BY <1>1, <1>2 DEF Tidy, Waiting
  <2> QED BY <1>5, <2>1 DEF Holds, TaskPcs
<1>7. m_state[e.id] = IF e.fiber THEN "READY" ELSE "NONE"
  BY <1>6 DEF Tidy, Waiting, GoingReady, Holds, TaskPcs
<1>8. NoFault'
  BY <1>1, <1>2, <1>7 DEF NoFault
<1>9. Entries' = {f \in Entries : f.id # e.id} /\ Distinct'
  BY <1>1, <1>2, RemoveEntry DEF TypeOK, Tidy, Once
<1>10. \A q \in RunThreads, u \in Tasks : u # e.id => Holds(q, u)' = Holds(q, u)
  BY <1>5 DEF Holds, TaskPcs
<1>11. \A q \in RunThreads : Holds(q, e.id)' => q = r
  BY <1>5, <1>6 DEF Holds
<1>12. \A u \in Tasks : GoingReady(u) => GoingReady(u)'
  BY <1>4, <1>5 DEF GoingReady
<1>13. Once'
  BY <1>3, <1>9, <1>10, <1>11 DEF Tidy, Once
<1>14. \A q \in RunThreads, u \in Tasks : Holds(q, u) => pc'[q] = pc[q]
  BY <1>5 DEF Holds, TaskPcs
<1>15. Waiting'
  BY <1>4, <1>9, <1>10, <1>12, <1>14, EntryType DEF Tidy, Waiting
<1>16. Parking'
  <2>1. e.id \notin parked
    BY DEF Tidy, Waiting
  <2> QED
    BY <1>4, <1>10, <1>12, <1>14, <2>1 DEF Tidy, Parking, TypeOK
<1>17. Holding'
  <2> SUFFICES ASSUME NEW q \in RunThreads
               PROVE  /\ pc'[q] = "resume" =>
                           m_state'[task'[q].id] = IF task'[q].fiber THEN "READY" ELSE "NONE"
                      /\ pc'[q] \in {"user", "yield"} => m_state'[task'[q].id] = "RUNNING"
                      /\ pc'[q] \in Leaving =>
                           \/ \E f \in Entries' : f.id = task'[q].id
                           \/ task'[q].id \in parked'
                           \/ m_state'[task'[q].id] = "TERM"
    BY DEF Holding
  <2>1. CASE q = r
    BY <1>4, <1>5, <1>7, <2>1 DEF Leaving
  <2>2. CASE q # r
    <3>1. pc[q] \in Leaving => task[q].id # e.id
      BY <1>6 DEF Holds, TaskPcs, Leaving
    <3> QED BY <1>4, <1>5, <1>9, <2>2, <3>1 DEF Tidy, Holding
  <2> QED BY <2>1, <2>2
<1>18. RootOnce'
  BY <1>4, RootStep DEF Tidy
<1> QED
  BY <1>8, <1>13, <1>15, <1>16, <1>17, <1>18 DEF Tidy

\* A thread that changes the state of the task it holds, which nobody waits for:
\* resume() and the end of the task.
LEMMA StateTidy ==
  ASSUME TypeOK, Tidy, NEW r \in RunThreads, Resume(r) \/ Finish(r)
  PROVE  Tidy'
<1>1. PICK from, to, after :
        /\ Step(r, from, to) /\ m_state' = [m_state EXCEPT ![task[r].id] = after]
        /\ \/ from = "resume" /\ to = "user" /\ after = "RUNNING"
           \/ from = "user" /\ to = "switch" /\ after = "TERM"
  BY DEF Resume, Finish
<1>2. UNCHANGED <<m_tasks, parked, task, m_stopping, idleTerm, callerPc>>
  BY DEF Resume, Finish, poolVars
<1>3. /\ pc[r] = from /\ pc'[r] = to /\ \A q \in RunThreads \ {r} : pc'[q] = pc[q]
  BY <1>1 DEF Step, TypeOK
<1>4. PICK t \in Tasks : t = task[r].id /\ t \notin parked /\ \A e \in Entries : e.id # t
  BY <1>1, <1>3, HeldTask, WaitingIsNotHeld DEF TaskPcs
<1>5. /\ m_state'[t] = after
      /\ \A u \in Tasks : u # t => m_state'[u] = m_state[u]
  BY <1>1, <1>4 DEF TypeOK
<1>6. Entries' = Entries /\ Distinct' = Distinct
  BY <1>2 DEF Entries, Distinct
<1>7. \A q \in RunThreads, u \in Tasks : Holds(q, u)' = Holds(q, u)
  BY <1>1, <1>2, <1>3 DEF Holds, TaskPcs
<1>8. \A q \in RunThreads : Holds(q, t) => q = r
  BY <1>1, <1>3, <1>4 DEF Tidy, Once, Holds, TaskPcs
<1>9. NoFault'
  <2>1. CASE Finish(r)
    BY <2>1 DEF Finish, Tidy, NoFault
  <2>2. CASE Resume(r)
    <3>1. pc[r] = "resume"
      BY <2>2 DEF Resume, Step
    <3>2. ~HalfSwitched(r, t)
      BY <1>8 DEF HalfSwitched, Holds, TaskPcs
    <3>3. (IF task[r].fiber THEN m_state[t] ELSE "READY") = "READY"
      BY <1>4, <3>1 DEF Tidy, Holding
    <3> QED BY <1>4, <2>2, <3>2, <3>3 DEF Resume, NoFault
  <2> QED BY <2>1, <2>2
<1>10. Once'
  BY <1>6, <1>7 DEF Tidy, Once
<1>11. \A u \in Tasks : u # t => (GoingReady(u) => GoingReady(u)')
  BY <1>1, <1>2, <1>3, <1>5 DEF GoingReady
<1>12. \A q \in RunThreads, u \in Tasks : u # t /\ Holds(q, u) => pc'[q] = pc[q]
  BY <1>3, <1>4 DEF Holds
<1>13. Waiting'
  BY <1>2, <1>4, <1>5, <1>6, <1>7, <1>11, <1>12, EntryType DEF Tidy, Waiting
<1>14. Parking'
  BY <1>2, <1>4, <1>7, <1>11, <1>12 DEF Tidy, Parking, TypeOK
<1>15. Holding'
  <2> SUFFICES ASSUME NEW q \in RunThreads
               PROVE  /\ pc'[q] = "resume" =>
                           m_state'[task'[q].id] = IF task'[q].fiber THEN "READY" ELSE "NONE"
                      /\ pc'[q] \in {"user", "yield"} => m_state'[task'[q].id] = "RUNNING"
                      /\ pc'[q] \in Leaving =>
                           \/ \E f \in Entries' : f.id = task'[q].id
                           \/ task'[q].id \in parked'
                           \/ m_state'[task'[q].id] = "TERM"
    BY DEF Holding
  <2>1. CASE q = r
    BY <1>1, <1>2, <1>3, <1>4, <1>5, <2>1 DEF Leaving
  <2>2. CASE q # r
    <3>1. pc[q] \in TaskPcs => task[q].id \in Tasks \ {t}
      BY <1>8, <2>2, HeldTask DEF Holds
    <3> QED BY <1>2, <1>3, <1>5, <1>6, <2>2, <3>1 DEF Tidy, Holding, TaskPcs, Leaving
  <2> QED BY <2>1, <2>2
<1>16. RootOnce'
  BY <1>1, <1>2, RootStep DEF Tidy
<1> QED
  BY <1>9, <1>10, <1>13, <1>14, <1>15, <1>16 DEF Tidy

\* yield() makes a fiber READY that somebody waits for, or that is parked.
LEMMA YieldTidy ==
  ASSUME TypeOK, Tidy, NEW r \in RunThreads, Yield(r)
  PROVE  Tidy'
<1>1. /\ Step(r, "yield", "switch") /\ m_state' = [m_state EXCEPT ![task[r].id] = "READY"]
      /\ UNCHANGED <<m_tasks, parked, task, m_stopping, idleTerm, callerPc, faults>>
  BY DEF Yield, poolVars
<1>2. /\ pc[r] = "yield" /\ pc'[r] = "switch" /\ \A q \in RunThreads \ {r} : pc'[q] = pc[q]
  BY <1>1 DEF Step, TypeOK
<1>3. PICK t \in Tasks : t = task[r].id
  BY <1>2, HeldTask DEF TaskPcs
<1>4. m_state'[t] = "READY" /\ \A u \in Tasks : u # t => m_state'[u] = m_state[u]
  BY <1>1, <1>3 DEF TypeOK
<1>5. Entries' = Entries /\ Distinct' = Distinct
  BY <1>1 DEF Entries, Distinct
<1>6. \A q \in RunThreads, u \in Tasks : Holds(q, u)' = Holds(q, u)
  BY <1>1, <1>2 DEF Holds, TaskPcs
<1>7. Holds(r, t) /\ \A q \in RunThreads : Holds(q, t) => q = r
  BY <1>2, <1>3 DEF Tidy, Once, Holds, TaskPcs
<1>8. \A u \in Tasks : GoingReady(u) => GoingReady(u)'
  BY <1>1, <1>2, <1>3, <1>4 DEF GoingReady
<1>9. \A q \in RunThreads : pc[q] \in Leaving => pc'[q] \in Leaving
  BY <1>2 DEF Leaving
<1>10. Once'
  BY <1>5, <1>6 DEF Tidy, Once
<1>11. Waiting'
  <2>1. \A e \in Entries : ~e.fiber => e.id # t
    BY <1>7 DEF Tidy, Waiting
  <2> QED
    BY <1>1, <1>4, <1>5, <1>6, <1>8, <1>9, <2>1, EntryType DEF Tidy, Waiting
<1>12. Parking'
  BY <1>1, <1>6, <1>8, <1>9 DEF Tidy, Parking, TypeOK
<1>13. Holding'
  <2> SUFFICES ASSUME NEW q \in RunThreads
               PROVE  /\ pc'[q] = "resume" =>
                           m_state'[task'[q].id] = IF task'[q].fiber THEN "READY" ELSE "NONE"
                      /\ pc'[q] \in {"user", "yield"} => m_state'[task'[q].id] = "RUNNING"
                      /\ pc'[q] \in Leaving =>
                           \/ \E f \in Entries' : f.id = task'[q].id
                           \/ task'[q].id \in parked'
                           \/ m_state'[task'[q].id] = "TERM"
    BY DEF Holding
  <2>1. CASE q = r
    <3>1. m_state[t] = "RUNNING"
      BY <1>2, <1>3 DEF Tidy, Holding
    <3>2. (\E e \in Entries : e.id = t) \/ t \in parked
      BY <1>2, <1>3, <3>1 DEF Tidy, Holding, Leaving
    <3> QED BY <1>1, <1>2, <1>3, <1>5, <2>1, <3>2
  <2>2. CASE q # r
    <3>1. pc[q] \in TaskPcs => task[q].id \in Tasks \ {t}
      BY <1>7, <2>2, HeldTask DEF Holds
    <3> QED BY <1>1, <1>2, <1>4, <1>5, <2>2, <3>1 DEF Tidy, Holding, TaskPcs, Leaving
  <2> QED BY <2>1, <2>2
<1>14. RootOnce'
  BY <1>1, RootStep DEF Tidy
<1> QED
  BY <1>1, <1>10, <1>11, <1>12, <1>13, <1>14 DEF Tidy, NoFault

\* The thread is back in run() and lets go of its task.
LEMMA ReturnTidy ==
  ASSUME TypeOK, Tidy, NEW r \in RunThreads, Switched(r) \/ Deactivate(r)
  PROVE  Tidy'
<1>1. PICK from, to :
        /\ Step(r, from, to) /\ from \in {"switch", "dec"} /\ to \in {"dec", "fetch"}
  BY DEF Switched, Deactivate
<1>2. UNCHANGED <<m_tasks, m_state, parked, m_stopping, idleTerm, callerPc, faults>>
  BY DEF Switched, Deactivate, poolVars, fiberVars
<1>3. /\ pc[r] = from /\ pc'[r] = to
      /\ \A q \in RunThreads \ {r} : pc'[q] = pc[q] /\ task'[q] = task[q]
      /\ pc'[r] # "fetch" => task'[r] = task[r]
  BY <1>1 DEF Step, TypeOK, Switched, Deactivate
<1>4. Entries' = Entries /\ Distinct' = Distinct
  BY <1>2 DEF Entries, Distinct
<1>5. \A q \in RunThreads, u \in Tasks : Holds(q, u)' => Holds(q, u)
  BY <1>1, <1>3 DEF Holds, TaskPcs
<1>6. \A u \in Tasks : GoingReady(u) => GoingReady(u)'
  BY <1>1, <1>2, <1>3 DEF GoingReady
<1>7. \A q \in RunThreads, u \in Tasks : Holds(q, u)' /\ pc[q] \in Leaving => pc'[q] \in Leaving
  BY <1>1, <1>3 DEF Leaving, Holds, TaskPcs
<1>8. Once'
  BY <1>4, <1>5 DEF Tidy, Once
<1>9. Waiting'
  BY <1>2, <1>4, <1>5, <1>6, <1>7, EntryType DEF Tidy, Waiting
<1>10. Parking'
  BY <1>2, <1>5, <1>6, <1>7 DEF Tidy, Parking, TypeOK
<1>11. Holding'
  BY <1>1, <1>2, <1>3, <1>4 DEF Tidy, Holding, Leaving
<1>12. RootOnce'
  BY <1>1, <1>2, RootStep DEF Tidy
<1> QED
  BY <1>2, <1>8, <1>9, <1>10, <1>11, <1>12 DEF Tidy, NoFault

\* start() and stop() touch no task; stop() resumes the root fiber once.
LEMMA ControlTidy ==
  ASSUME IInv, Tidy, Start \/ StopCall \/ RootEnd \/ Join
  PROVE  Tidy'
<1> USE DEF IInv
<1>1. UNCHANGED <<m_tasks, m_state, parked, task, idleTerm>>
  BY DEF Start, StopCall, RootEnd, Join, fiberVars
<1>2. \A q \in RunThreads :
        pc'[q] = pc[q] \/ (pc[q] = "off" /\ pc'[q] = "fetch")
  BY DEF Start, StopCall, RootEnd, Join, TypeOK, RunThreads
<1>3. Entries' = Entries /\ Distinct' = Distinct
  BY <1>1 DEF Entries, Distinct
<1>4. \A q \in RunThreads : pc[q] \in TaskPcs \/ pc'[q] \in TaskPcs => pc'[q] = pc[q]
  BY <1>2 DEF TaskPcs
<1>5. \A q \in RunThreads, u \in Tasks : Holds(q, u)' = Holds(q, u)
  BY <1>1, <1>4 DEF Holds
<1>6. \A u \in Tasks : GoingReady(u)' = GoingReady(u)
  BY <1>1, <1>4 DEF GoingReady, TaskPcs
<1>7. Once'
  BY <1>3, <1>5 DEF Tidy, Once
<1>8. Waiting'
  BY <1>1, <1>3, <1>4, <1>5, <1>6, EntryType DEF Tidy, Waiting, Holds
<1>9. Parking'
  BY <1>1, <1>4, <1>5, <1>6 DEF Tidy, Parking, TypeOK, Holds
<1>10. Holding'
  BY <1>1, <1>3, <1>4 DEF Tidy, Holding, TaskPcs, Leaving
<1>11. UseCaller => Caller \in RunThreads /\ Caller \notin Workers
  BY SchedulerAssumption DEF SchedulerAssumption, RunThreads
<1>12. \A q \in RunThreads : pc'[q] = "exit" => q \in idleTerm'
  BY <1>1, <1>2 DEF Tidy, RootOnce
<1>13. NoFault' /\ RootOnce'
  <2>1. CASE Start
    <3>1. UseCaller => pc'[Caller] = pc[Caller]
      BY <1>11, <2>1 DEF Start
    <3> QED
      BY <1>12, <2>1, <3>1 DEF Start, Tidy, NoFault, RootOnce, poolVars
  <2>2. CASE StopCall
    <3>1. UseCaller => pc[Caller] = "off"
      <4> SUFFICES ASSUME UseCaller, pc[Caller] # "off" PROVE FALSE
        OBVIOUS
      <4>1. pc[Caller] = "exit"
        BY <2>2 DEF StopCall, CallerAt, Tidy, RootOnce
      <4>2. idleTerm # {}
        BY <1>11, <4>1 DEF Tidy, RootOnce
      <4> QED BY <2>2, <4>2 DEF QuiescentExit, StopCall, Stopping
    <3>2. callerPc' = IF UseCaller THEN "root" ELSE "join"
      BY <2>2 DEF StopCall
    <3> QED
      BY <1>12, <2>2, <3>1, <3>2 DEF StopCall, NoFault, RootOnce
  <2>3. CASE RootEnd
    BY <1>12, <2>3 DEF RootEnd, Tidy, NoFault, RootOnce, poolVars
  <2>4. CASE Join
    <3>1. UseCaller => pc[Caller] = "exit" /\ m_stopping
      BY <1>11, <2>4 DEF Join, CallerAt, Tidy, RootOnce, QuiescentExit
    <3> QED
      BY <1>12, <2>4, <3>1 DEF Join, Tidy, NoFault, RootOnce, poolVars
  <2> QED BY <2>1, <2>2, <2>3, <2>4
<1> QED
  BY <1>7, <1>8, <1>9, <1>10, <1>13 DEF Tidy

\* Every step of orderly clients and of the scheduler keeps Tidy.
LEMMA NextTidy == Orderly /\ IInv /\ Tidy /\ [Next]_vars => Tidy'
<1> SUFFICES ASSUME Orderly, IInv, Tidy, [Next]_vars PROVE Tidy'
  OBVIOUS
<1>0. TypeOK
  BY DEF IInv
<1>1. ASSUME NEW r \in RunThreads, Run(r) PROVE Tidy'
  BY <1>0, <1>1, FetchTidy, IdleTidy, StateTidy, YieldTidy, ReturnTidy DEF Run
<1>2. ASSUME NEW r \in RunThreads, User(r) PROVE Tidy'
  BY <1>0, <1>2, ScheduleTidy, WakeTidy, GiveUpTidy, StateTidy DEF User
<1>3. CASE CallerStep
  BY <1>0, <1>3, ScheduleTidy, ControlTidy DEF CallerStep
<1>4. CASE UNCHANGED vars
  <2>1. Entries' = Entries /\ Distinct' = Distinct
    BY <1>4 DEF vars, Entries, Distinct
  <2> QED
    BY <1>4, <2>1 DEF vars, Tidy, NoFault, Once, Waiting, Parking, Holding, RootOnce, Holds, GoingReady
<1> QED
  BY <1>1, <1>2, <1>3, <1>4 DEF Next, Terminated

\* Nothing has been scheduled yet.
LEMMA InitTidy == Init => Tidy
<1> SUFFICES ASSUME Init PROVE Tidy
  OBVIOUS
<1>1. \A r \in RunThreads : pc[r] = "off"
  BY DEF Init
<1>2. DOMAIN m_tasks = {} /\ Entries = {} /\ parked = {}
  BY DEF Init, Entries
<1>3. UseCaller => Caller \in RunThreads
  BY DEF RunThreads
<1>4. Once /\ Waiting /\ Parking /\ Holding
  BY <1>1, <1>2 DEF Once, Distinct, Waiting, Parking, Holding, Holds, TaskPcs, Leaving
<1>5. NoFault /\ RootOnce
  BY <1>1, <1>3 DEF Init, NoFault, RootOnce
<1> QED
  BY <1>4, <1>5 DEF Tidy

\* For orderly clients: no SYLAR_ASSERT of run() or resume() fails, and no thread
\* resumes a fiber that another thread is still leaving.
THEOREM OrderlyNeverFaults == ASSUME Orderly PROVE Spec => []NoFault
<1>1. IInv /\ Tidy /\ [Next]_vars => Tidy'
  BY NextTidy
<1>2. Tidy => NoFault
  BY DEF Tidy
<1> QED
  BY <1>1, <1>2, InitTidy, SchedulerInvariant, PTL DEF Spec

-----------------------------------------------------------------------------
(* The pool as its clients see it.                                         *)

RunsOn(r, t) == pc[r] \in {"resume", "user"} /\ task[r].id = t

\* The view of a task, by what became of it.
View(t) ==
  /\ \A e \in Entries :
       e.id = t => Phase(t) = "ready" /\ Owner(t) = NoTask /\ Affinity(t) = e.threadId
  /\ (\A e \in Entries : e.id # t) => Affinity(t) = AnyThread
  /\ t \in parked =>
       Phase(t) = "parked" /\ Owner(t) = NoTask /\ Affinity(t) = AnyThread
  /\ m_state[t] = "TERM" =>
       Phase(t) = "done" /\ Owner(t) = NoTask /\ Affinity(t) = AnyThread
  /\ \A r \in RunThreads :
       RunsOn(r, t) => Phase(t) = "running" /\ Owner(t) = r /\ Affinity(t) = AnyThread
  /\ (\A e \in Entries : e.id # t) /\ t \notin parked /\ m_state[t] # "TERM"
       /\ (\A r \in RunThreads : ~RunsOn(r, t)) => Phase(t) = "new" /\ Owner(t) = NoTask

\* A task that has ended neither waits nor is parked.
LEMMA EndedIsOver ==
  ASSUME TypeOK, Tidy, NEW t \in Tasks, m_state[t] = "TERM"
  PROVE  t \notin parked /\ \A e \in Entries : e.id # t
<1>1. ~GoingReady(t)
  BY DEF Tidy, Holding, GoingReady
<1> QED
  BY <1>1 DEF Tidy, Waiting, Parking

\* The refinement mapping gives every task the view it should have.
LEMMA Views == TypeOK /\ Tidy => \A t \in Tasks : View(t)
<1> SUFFICES ASSUME TypeOK, Tidy, NEW t \in Tasks PROVE View(t)
  OBVIOUS
<1>1. Queued(t) <=> \E e \in Entries : e.id = t
  BY DEF Queued, Entries
<1>2. ASSUME NEW e \in Entries, e.id = t
      PROVE  Phase(t) = "ready" /\ Owner(t) = NoTask /\ Affinity(t) = e.threadId
  <2>1. Phase(t) = "ready" /\ Owner(t) = NoTask
    BY <1>1, <1>2 DEF Phase, Owner
  <2>2. PICK i \in DOMAIN m_tasks : m_tasks[i] = e
    BY DEF Entries
  <2>3. (CHOOSE j \in DOMAIN m_tasks : m_tasks[j].id = t) = i
    BY <1>2, <2>2 DEF Tidy, Once, Distinct
  <2>4. Affinity(t) = e.threadId
    BY <1>1, <1>2, <2>2, <2>3 DEF Affinity
  <2> QED BY <2>1, <2>4
<1>3. ~Queued(t) => Affinity(t) = AnyThread
  BY DEF Affinity
<1>4. t \in parked => ~Queued(t) /\ Phase(t) = "parked" /\ Owner(t) = NoTask
  <2>1. t \in parked => ~Queued(t)
    BY <1>1 DEF Tidy, Waiting
  <2> QED BY <2>1 DEF Phase, Owner
<1>5. m_state[t] = "TERM" => ~Queued(t) /\ Phase(t) = "done" /\ Owner(t) = NoTask
  <2>1. m_state[t] = "TERM" => ~Queued(t) /\ t \notin parked
    BY <1>1, EndedIsOver
  <2> QED BY <2>1 DEF Phase, Owner
<1>6. ASSUME NEW r \in RunThreads, RunsOn(r, t)
      PROVE  ~Queued(t) /\ Phase(t) = "running" /\ Owner(t) = r
  <2>1. ~Queued(t) /\ t \notin parked
    BY <1>1, <1>6, WaitingIsNotHeld DEF RunsOn
  <2>2. m_state[t] # "TERM"
    BY <1>6 DEF RunsOn, Tidy, Holding
  <2>3. Holds(r, t) /\ OnThread(t)
    BY <1>6 DEF RunsOn, Holds, OnThread, TaskPcs
  <2>4. Phase(t) = "running"
    BY <2>1, <2>2, <2>3 DEF Phase
  <2>5. (CHOOSE q \in RunThreads : pc[q] \in TaskPcs /\ task[q].id = t) = r
    BY <2>3 DEF Tidy, Once, Holds
  <2> QED BY <2>1, <2>4, <2>5 DEF Owner
<1>7. ASSUME ~Queued(t), t \notin parked, m_state[t] # "TERM", \A r \in RunThreads : ~RunsOn(r, t)
      PROVE  Phase(t) = "new" /\ Owner(t) = NoTask
  <2>1. ~OnThread(t)
    <3> SUFFICES ASSUME NEW r \in RunThreads, pc[r] \in TaskPcs, task[r].id = t PROVE FALSE
      BY DEF OnThread
    <3>1. pc[r] \in Leaving
      BY <1>7 DEF RunsOn, TaskPcs, Leaving
    <3> QED BY <1>1, <1>7, <3>1 DEF Tidy, Holding
  <2> QED BY <1>7, <2>1 DEF Phase, Owner
<1> QED
  BY <1>1, <1>2, <1>3, <1>4, <1>5, <1>6, <1>7 DEF View

\* A step that changes nothing about a task does not change its view.
LEMMA SameView ==
  ASSUME NEW t \in Tasks, View(t), View(t)',
         \A e : e.id = t => (e \in Entries' <=> e \in Entries),
         t \in parked' <=> t \in parked,
         m_state'[t] = "TERM" <=> m_state[t] = "TERM",
         \A r \in RunThreads : RunsOn(r, t)' <=> RunsOn(r, t)
  PROVE  Phase(t)' = Phase(t) /\ Owner(t)' = Owner(t) /\ Affinity(t)' = Affinity(t)
<1>1. CASE \E e \in Entries : e.id = t
  BY <1>1 DEF View
<1>2. CASE \A e \in Entries : e.id # t
  <2>1. \A e \in Entries' : e.id # t
    BY <1>2
  <2>2. Affinity(t)' = Affinity(t)
    BY <1>2, <2>1 DEF View
  <2>3. CASE t \in parked
    BY <2>2, <2>3 DEF View
  <2>4. CASE m_state[t] = "TERM"
    BY <2>2, <2>4 DEF View
  <2>5. CASE \E r \in RunThreads : RunsOn(r, t)
    BY <2>2, <2>5 DEF View
  <2>6. CASE t \notin parked /\ m_state[t] # "TERM" /\ \A r \in RunThreads : ~RunsOn(r, t)
    BY <1>2, <2>1, <2>2, <2>6 DEF View
  <2> QED BY <2>3, <2>4, <2>5, <2>6
<1> QED
  BY <1>1, <1>2

-----------------------------------------------------------------------------
(* The steps of TaskPool, by what changes in the view of one task.         *)

SameAs(t) == Phase(t)' = Phase(t) /\ Owner(t)' = Owner(t) /\ Affinity(t)' = Affinity(t)

\* A submitted task becomes ready.
LEMMA PoolSubmit ==
  ASSUME NEW t \in Tasks, NEW id \in ThreadIds, idleTerm = {}, idleTerm' = {},
         Phase(t) \in {"new", "running", "parked"},
         Phase(t)' = "ready", Owner(t)' = NoTask, Affinity(t)' = id,
         \A u \in Tasks \ {t} : SameAs(u)
  PROVE  Pool!Next
<1>1. Pool!Submit(t, id)
  BY DEF Pool!Submit, SameAs
<1> QED
  BY <1>1 DEF Pool!Next, ThreadIds

\* A thread takes a ready task that it may run, and runs no other.
LEMMA PoolTake ==
  ASSUME NEW t \in Tasks, NEW r \in RunThreads, idleTerm = {}, idleTerm' = {},
         Phase(t) = "ready", Affinity(t) \in {AnyThread, r},
         \A u \in Tasks : ~(Phase(u) = "running" /\ Owner(u) = r),
         Phase(t)' = "running", Owner(t)' = r, Affinity(t)' = AnyThread,
         \A u \in Tasks \ {t} : SameAs(u)
  PROVE  Pool!Next
<1>1. Pool!Take(r, t)
  BY DEF Pool!Take, Pool!Busy, SameAs
<1> QED
  BY <1>1 DEF Pool!Next

\* A running task gives up its thread.
LEMMA PoolRelease ==
  ASSUME NEW t \in Tasks, NEW outcome \in {"parked", "done"}, idleTerm' = idleTerm,
         Phase(t) = "running", Phase(t)' = outcome, Owner(t)' = NoTask,
         Affinity(t)' = Affinity(t), \A u \in Tasks \ {t} : SameAs(u)
  PROVE  Pool!Next
<1>1. Pool!Release(t, outcome)
  BY DEF Pool!Release, SameAs
<1> QED
  BY <1>1 DEF Pool!Next

\* The pool closes when nothing is ready or running.
LEMMA PoolClose ==
  ASSUME \A t \in Tasks : Phase(t) \notin {"ready", "running"} /\ SameAs(t), idleTerm' # {}
  PROVE  Pool!Next
<1>1. Pool!Close
  BY DEF Pool!Close, SameAs
<1> QED
  BY <1>1 DEF Pool!Next

\* Nothing a client can see.
LEMMA PoolStutter ==
  ASSUME \A t \in Tasks : SameAs(t), idleTerm' = idleTerm
  PROVE  UNCHANGED Pool!poolState
BY DEF Pool!poolState, SameAs

-----------------------------------------------------------------------------
(* Every step of the scheduler is a step of the pool, or none.             *)

\* What a step leaves alone about a task.
Untouched(t) ==
  /\ \A e : e.id = t => (e \in Entries' <=> e \in Entries)
  /\ t \in parked' <=> t \in parked
  /\ m_state'[t] = "TERM" <=> m_state[t] = "TERM"
  /\ \A r \in RunThreads : RunsOn(r, t)' <=> RunsOn(r, t)

AllViews == \A t \in Tasks : View(t)

\* A task that a step does not touch looks the same afterwards.
LEMMA UntouchedSame ==
  ASSUME AllViews, AllViews', NEW t \in Tasks, Untouched(t)
  PROVE  SameAs(t)
BY SameView DEF AllViews, Untouched, SameAs

\* schedule(), called by the caller or a task, submits.
LEMMA ScheduleRefines ==
  ASSUME IInv, Tidy, AllViews, AllViews', NEW t \in Tasks, NEW id \in ThreadIds,
         \/ CallerSchedule(t, id)
         \/ \E r \in RunThreads : UserSchedule(r, t, id) \/ UserWake(r, t, id)
  PROVE  Pool!Next
<1>1. PICK isFiber \in BOOLEAN : ScheduleNoLock(t, isFiber, id)
  <2>1. (t \in Fibers) \in BOOLEAN /\ TRUE \in BOOLEAN
    OBVIOUS
  <2> QED BY <2>1 DEF CallerSchedule, UserSchedule, UserWake
<1>2. /\ UNCHANGED <<m_state, pc, task, idleTerm>>
      /\ parked' = parked \/ (parked' = parked \ {t} /\ t \in parked)
  BY DEF CallerSchedule, UserSchedule, UserWake, poolVars, fiberVars
<1>3. idleTerm = {}
  <2>1. CASE CallerSchedule(t, id)
    BY <2>1 DEF CallerSchedule, IInv, QuiescentExit
  <2>2. CASE \E r \in RunThreads : UserSchedule(r, t, id) \/ UserWake(r, t, id)
    BY <2>2, HolderBlocksExit DEF UserSchedule, UserWake, Running, TaskPcs
  <2> QED BY <2>1, <2>2
<1>4. Fresh(t) \/ t \in parked
  BY DEF CallerSchedule, UserSchedule, UserWake
<1>5. \A e \in Entries : e.id # t
  <2>1. CASE Fresh(t)
    BY <2>1 DEF Fresh, Queued, Entries
  <2>2. CASE t \in parked
    BY <2>2 DEF Tidy, Waiting
  <2> QED BY <1>4, <2>1, <2>2
<1>6. Phase(t) \in {"new", "parked"}
  <2>1. CASE Fresh(t)
    <3>1. t \notin parked /\ m_state[t] # "TERM" /\ \A r \in RunThreads : ~RunsOn(r, t)
      BY <2>1 DEF Fresh, OnThread, RunsOn, TaskPcs
    <3> QED BY <1>5, <3>1 DEF AllViews, View
  <2>2. CASE t \in parked
    BY <2>2 DEF AllViews, View
  <2> QED BY <1>4, <2>1, <2>2
<1>7. PICK new : /\ new = [id |-> t, fiber |-> isFiber, threadId |-> id]
                 /\ new.id = t /\ new.threadId = id
  <2> DEFINE rec == [id |-> t, fiber |-> isFiber, threadId |-> id]
  <2>1. rec.id = t /\ rec.threadId = id
    OBVIOUS
  <2> QED BY <2>1, Zenon
<1>8. Entries' = Entries \cup {new}
  BY <1>1, <1>5, <1>7, AppendEntry DEF IInv, TypeOK, Tidy, Once
<1>9. Phase(t)' = "ready" /\ Owner(t)' = NoTask /\ Affinity(t)' = id
  BY <1>7, <1>8 DEF AllViews, View
<1>10. \A u \in Tasks \ {t} : SameAs(u)
  <2> SUFFICES ASSUME NEW u \in Tasks \ {t} PROVE Untouched(u)
    BY UntouchedSame
  <2> QED
    BY <1>2, <1>7, <1>8 DEF Untouched, RunsOn
<1> QED
  BY <1>2, <1>3, <1>6, <1>9, <1>10, PoolSubmit

\* A running fiber that gives up its thread submits itself or is released.
LEMMA GiveUpRefines ==
  ASSUME IInv, Tidy, AllViews, AllViews', NEW r \in RunThreads,
         (\E where \in {"own", "any"} : UserReschedule(r, where)) \/ UserPark(r) \/ Finish(r)
  PROVE  Pool!Next
<1>1. PICK to \in {"yield", "switch"} : Step(r, "user", to) /\ UNCHANGED <<task, idleTerm>>
  BY DEF UserReschedule, UserPark, Finish
<1>2. /\ pc[r] = "user" /\ pc'[r] = to /\ \A q \in RunThreads \ {r} : pc'[q] = pc[q]
  BY <1>1 DEF Step, IInv, TypeOK
<1>3. PICK t \in Tasks : t = task[r].id /\ t \notin parked /\ \A e \in Entries : e.id # t
  BY <1>2, HeldTask, WaitingIsNotHeld DEF TaskPcs, IInv
<1>4. idleTerm = {} /\ idleTerm' = {}
  BY <1>1, <1>2, HolderBlocksExit DEF TaskPcs
<1>5. RunsOn(r, t) /\ Phase(t) = "running" /\ Affinity(t) = AnyThread
  BY <1>2, <1>3 DEF RunsOn, AllViews, View
<1>6. \A u \in Tasks \ {t}, q \in RunThreads : RunsOn(q, u)' <=> RunsOn(q, u)
  BY <1>1, <1>2, <1>3 DEF RunsOn
<1>7. CASE UserPark(r)
  <2>1. parked' = parked \cup {t} /\ Entries' = Entries /\ m_state' = m_state
    BY <1>3, <1>7 DEF UserPark, Entries
  <2>2. \A u \in Tasks \ {t} : SameAs(u)
    <3> SUFFICES ASSUME NEW u \in Tasks \ {t} PROVE Untouched(u)
      BY UntouchedSame
    <3> QED BY <1>6, <2>1 DEF Untouched
  <2>3. Phase(t)' = "parked" /\ Owner(t)' = NoTask /\ Affinity(t)' = AnyThread
    BY <2>1 DEF AllViews, View
  <2> QED BY <1>4, <1>5, <2>2, <2>3, PoolRelease
<1>8. CASE Finish(r)
  <2>1. parked' = parked /\ Entries' = Entries
    BY <1>8 DEF Finish, Entries
  <2>2. m_state'[t] = "TERM" /\ \A u \in Tasks \ {t} : m_state'[u] = m_state[u]
    BY <1>3, <1>8 DEF Finish, IInv, TypeOK
  <2>3. \A u \in Tasks \ {t} : SameAs(u)
    <3> SUFFICES ASSUME NEW u \in Tasks \ {t} PROVE Untouched(u)
      BY UntouchedSame
    <3> QED BY <1>6, <2>1, <2>2 DEF Untouched
  <2>4. Phase(t)' = "done" /\ Owner(t)' = NoTask /\ Affinity(t)' = AnyThread
    BY <2>2 DEF AllViews, View
  <2> QED BY <1>4, <1>5, <2>3, <2>4, PoolRelease
<1>9. ASSUME NEW where \in {"own", "any"}, UserReschedule(r, where) PROVE Pool!Next
  <2>1. PICK id \in ThreadIds : id = IF where = "own" THEN r ELSE AnyThread
    BY DEF ThreadIds
  <2>2. ScheduleNoLock(t, TRUE, id) /\ parked' = parked /\ m_state' = m_state
    BY <1>3, <1>9, <2>1 DEF UserReschedule
  <2>3. PICK new : /\ new = [id |-> t, fiber |-> TRUE, threadId |-> id]
                   /\ new.id = t /\ new.threadId = id
    <3> DEFINE rec == [id |-> t, fiber |-> TRUE, threadId |-> id]
    <3>1. rec.id = t /\ rec.threadId = id
      OBVIOUS
    <3> QED BY <3>1, Zenon
  <2>4. TRUE \in BOOLEAN
    OBVIOUS
  <2>5. Entries' = Entries \cup {new}
    BY <1>3, <2>2, <2>3, <2>4, AppendEntry DEF IInv, TypeOK, Tidy, Once
  <2>6. Phase(t)' = "ready" /\ Owner(t)' = NoTask /\ Affinity(t)' = id
    BY <2>3, <2>5 DEF AllViews, View
  <2>7. \A u \in Tasks \ {t} : SameAs(u)
    <3> SUFFICES ASSUME NEW u \in Tasks \ {t} PROVE Untouched(u)
      BY UntouchedSame
    <3> QED BY <1>6, <2>2, <2>3, <2>5 DEF Untouched
  <2> QED BY <1>4, <1>5, <2>6, <2>7, PoolSubmit
<1> QED
  BY <1>7, <1>8, <1>9

\* Taking a task out of the list.
LEMMA FetchRefines ==
  ASSUME IInv, Tidy, AllViews, AllViews', NEW r \in RunThreads, FetchTask(r)
  PROVE  Pool!Next
<1>1. PICK i \in DOMAIN m_tasks :
        /\ m_tasks[i].threadId \in {AnyThread, r}
        /\ task' = [task EXCEPT ![r] = m_tasks[i]]
        /\ m_tasks' = RemoveAt(m_tasks, i)
  BY DEF FetchTask, Eligible
<1>2. PICK e \in Entries : e = m_tasks[i]
  BY DEF Entries
<1>3. PICK t \in Tasks : t = e.id
  BY EntryType DEF IInv
<1>4. Step(r, "fetch", "resume") /\ UNCHANGED <<m_state, parked, idleTerm>>
  BY DEF FetchTask, fiberVars
<1>5. /\ pc[r] = "fetch" /\ pc'[r] = "resume" /\ task'[r] = e
      /\ \A q \in RunThreads \ {r} : pc'[q] = pc[q] /\ task'[q] = task[q]
  BY <1>1, <1>2, <1>4 DEF Step, IInv, TypeOK
<1>6. idleTerm = {}
  <2>1. m_tasks # <<>>
    BY <1>1
  <2> QED BY <2>1 DEF IInv, QuiescentExit
<1>7. Entries' = {f \in Entries : f.id # t}
  BY <1>1, <1>2, <1>3, RemoveEntry DEF IInv, TypeOK, Tidy, Once
<1>8. Phase(t) = "ready" /\ Affinity(t) \in {AnyThread, r}
  BY <1>1, <1>2, <1>3 DEF AllViews, View
<1>9. RunsOn(r, t)'
  BY <1>3, <1>5 DEF RunsOn
<1>10. Phase(t)' = "running" /\ Owner(t)' = r /\ Affinity(t)' = AnyThread
  BY <1>9 DEF AllViews, View
<1>11. \A u \in Tasks \ {t} : SameAs(u)
  <2> SUFFICES ASSUME NEW u \in Tasks \ {t} PROVE Untouched(u)
    BY UntouchedSame
  <2> QED BY <1>3, <1>4, <1>5, <1>7 DEF Untouched, RunsOn
<1>12. ASSUME NEW u \in Tasks, Phase(u) = "running", Owner(u) = r PROVE FALSE
  <2>1. OnThread(u)
    BY <1>12 DEF Phase
  <2>2. pc[Owner(u)] \in TaskPcs
    BY <1>12, <2>1 DEF Owner, OnThread
  <2> QED BY <1>5, <1>12, <2>2 DEF TaskPcs
<1> QED
  BY <1>4, <1>6, <1>8, <1>10, <1>11, <1>12, PoolTake

\* The steps of resume() and yield() are not visible.
LEMMA SwitchRefines ==
  ASSUME IInv, Tidy, AllViews, AllViews', NEW r \in RunThreads,
         Resume(r) \/ Yield(r) \/ Switched(r) \/ Deactivate(r)
  PROVE  UNCHANGED Pool!poolState
<1>1. PICK from, to :
        /\ Step(r, from, to)
        /\ \/ from = "resume" /\ to = "user"
           \/ from \in Leaving /\ to \in {"switch", "dec", "fetch"}
  BY DEF Resume, Yield, Switched, Deactivate, Leaving
<1>2. /\ pc[r] = from /\ pc'[r] = to /\ \A q \in RunThreads \ {r} : pc'[q] = pc[q]
  BY <1>1 DEF Step, IInv, TypeOK
<1>3. UNCHANGED <<m_tasks, parked, idleTerm>>
  BY DEF Resume, Yield, Switched, Deactivate, poolVars, fiberVars
<1>4. /\ \A q \in RunThreads \ {r} : task'[q] = task[q]
      /\ from = "resume" => task'[r] = task[r]
  BY <1>2 DEF Resume, Yield, Switched, Deactivate, Step, IInv, TypeOK
<1>5. \A u \in Tasks : m_state'[u] = "TERM" <=> m_state[u] = "TERM"
  <2>1. CASE Switched(r) \/ Deactivate(r)
    BY <2>1 DEF Switched, Deactivate, fiberVars
  <2>2. CASE Resume(r) \/ Yield(r)
    <3>1. PICK after \in {"RUNNING", "READY"} : m_state' = [m_state EXCEPT ![task[r].id] = after]
      BY <2>2 DEF Resume, Yield
    <3>2. pc[r] \in {"resume", "yield"}
      BY <2>2 DEF Resume, Yield, Step
    <3>3. m_state[task[r].id] # "TERM"
      BY <3>2 DEF Tidy, Holding
    <3> QED BY <3>1, <3>3 DEF IInv, TypeOK
  <2> QED BY <2>1, <2>2
<1>6. ASSUME NEW u \in Tasks PROVE Untouched(u)
  <2>1. Entries' = Entries
    BY <1>3 DEF Entries
  <2>2. \A q \in RunThreads : RunsOn(q, u)' <=> RunsOn(q, u)
    BY <1>1, <1>2, <1>4 DEF RunsOn, Leaving
  <2> QED BY <1>3, <1>5, <2>1, <2>2 DEF Untouched
<1> QED
  BY <1>3, <1>6, UntouchedSame, PoolStutter

\* Nor is what threads and the caller do without a task, except that the first
\* idle fiber that returns closes the pool.
LEMMA IdleRefines ==
  ASSUME IInv, Tidy, AllViews, AllViews',
         \/ \E r \in RunThreads :
              FetchNothing(r) \/ EnterIdle(r) \/ IdleRound(r) \/ LeaveIdle(r) \/ LeaveRun(r)
         \/ Start \/ StopCall \/ RootEnd \/ Join
         \/ UNCHANGED vars
  PROVE  Pool!Next \/ UNCHANGED Pool!poolState
<1>1. UNCHANGED <<m_tasks, m_state, parked, task>>
  BY DEF FetchNothing, EnterIdle, IdleRound, LeaveIdle, LeaveRun, Start, StopCall, RootEnd, Join,
         vars, poolVars, fiberVars
<1>2. \A q \in RunThreads : pc[q] \in {"resume", "user"} <=> pc'[q] \in {"resume", "user"}
  BY DEF FetchNothing, EnterIdle, IdleRound, LeaveIdle, LeaveRun, Start, StopCall, RootEnd, Join,
         vars, Step, IInv, TypeOK
<1>3. \A u \in Tasks : SameAs(u)
  <2> SUFFICES ASSUME NEW u \in Tasks PROVE Untouched(u)
    BY UntouchedSame
  <2>1. Entries' = Entries
    BY <1>1 DEF Entries
  <2> QED BY <1>1, <1>2, <2>1 DEF Untouched, RunsOn
<1>4. CASE idleTerm' = idleTerm
  BY <1>3, <1>4, PoolStutter
<1>5. CASE idleTerm' # idleTerm
  <2>1. PICK r \in RunThreads : IdleRound(r)
    BY <1>5 DEF FetchNothing, EnterIdle, LeaveIdle, LeaveRun, Start, StopCall, RootEnd, Join, vars
  <2>2. Stopping /\ idleTerm' # {}
    BY <1>5, <2>1 DEF IdleRound
  <2>3. ASSUME NEW u \in Tasks PROVE Phase(u) \notin {"ready", "running"}
    <3>1. ~Queued(u)
      BY <2>2 DEF Stopping, Queued
    <3>2. At(TaskPcs) = {}
      <4>1. IsFiniteSet(At(TaskPcs))
        BY RunThreadsFinite, FS_Subset DEF At
      <4> QED BY <2>2, <4>1, FS_EmptySet DEF Stopping, IInv, ActiveCount
    <3>3. ~OnThread(u)
      BY <3>2 DEF At, OnThread
    <3> QED BY <3>1, <3>3 DEF Phase
  <2> QED BY <1>3, <2>2, <2>3, PoolClose
<1> QED
  BY <1>4, <1>5

\* Every step of the scheduler is a step of the pool, or invisible.
LEMMA NextRefines ==
  ASSUME IInv, Tidy, AllViews, AllViews', [Next]_vars
  PROVE  [Pool!Next]_(Pool!poolState)
<1>1. ASSUME NEW r \in RunThreads, Run(r) PROVE Pool!Next \/ UNCHANGED Pool!poolState
  BY <1>1, FetchRefines, SwitchRefines, IdleRefines DEF Run
<1>2. ASSUME NEW r \in RunThreads, User(r) PROVE Pool!Next
  BY <1>2, ScheduleRefines, GiveUpRefines DEF User
<1>3. CASE CallerStep
  BY <1>3, ScheduleRefines, IdleRefines DEF CallerStep
<1>4. CASE UNCHANGED vars
  BY <1>4, IdleRefines
<1> QED
  BY <1>1, <1>2, <1>3, <1>4 DEF Next, Terminated

\* The initial state is that of an empty pool.
LEMMA InitRefines == Init => Pool!Init
<1> SUFFICES ASSUME Init PROVE Pool!Init
  OBVIOUS
<1>1. ASSUME NEW t \in Tasks PROVE Phase(t) = "new" /\ Owner(t) = NoTask /\ Affinity(t) = AnyThread
  <2>1. ~Queued(t) /\ t \notin parked /\ m_state[t] # "TERM" /\ ~OnThread(t)
    BY DEF Init, Queued, OnThread, TaskPcs
  <2> QED BY <2>1 DEF Phase, Owner, Affinity
<1> QED
  BY <1>1 DEF Init, Pool!Init

\* For orderly clients the scheduler implements the task pool: no task is lost,
\* run by two threads, run where it may not run, or left when the pool closes.
THEOREM OrderlyImplementsTaskPool == ASSUME Orderly PROVE Spec => ImplementsTaskPool
<1>1. IInv /\ Tidy /\ [Next]_vars => Tidy'
  BY NextTidy
<1>2. IInv /\ Tidy => AllViews
  BY Views DEF IInv, AllViews
<1>3. IInv /\ Tidy /\ AllViews /\ AllViews' /\ [Next]_vars => [Pool!Next]_(Pool!poolState)
  BY NextRefines
<1> QED
  BY <1>1, <1>2, <1>3, InitTidy, InitRefines, SchedulerInvariant, PTL
     DEF Spec, ImplementsTaskPool, Pool!Spec
=============================================================================
