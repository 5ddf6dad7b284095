----------------------------- MODULE FiberProofs -----------------------------
(***************************************************************************)
(* Fiber, for any threads and fibers: clients that make none of the        *)
(* Mistakes never meet a failed assertion, a lost flow or a foreign        *)
(* GetThis().  The inductive invariant says of every fiber where its flow  *)
(* is and of every thread what the two save areas below the running fiber  *)
(* hold.                                                                   *)
(***************************************************************************)
EXTENDS Fiber, TLAPS

\* Tasks return to the main fiber of a worker and to the caller's root fiber.
SchedulerFiber ==
  \A t \in Threads :
    \/ t_scheduler_fiber[t] = None
    \/ t \in Workers /\ t_scheduler_fiber[t] = t
    \/ t = Caller /\ t_scheduler_fiber[t] = RootFiber

\* The root fiber has resumed a task and waits in its own area.
RootWaits ==
  /\ m_state[RootFiber] = "RUNNING" /\ m_ctx[RootFiber] = RootFiber
  /\ resumer[RootFiber] = Caller
  /\ cur[RootFiber] = RootFiber /\ RootFiber \in held

\* What a thread on a made fiber's flow looks like.
OnFiber(t, f) ==
  /\ m_state[f] = "RUNNING" /\ cur[f] = f /\ f \in held /\ m_ctx[f] = None
  /\ m_state[t] = "RUNNING" /\ m_ctx[t] = t
  /\ Back(t, f) # None /\ resumer[f] = Back(t, f)
  /\ f # RootFiber => t_fiber[t] = f
  /\ f = RootFiber => t = Caller
  /\ f \in Tasks /\ t = Caller => RootWaits

OnCpu == \A t \in Threads : cpu[t] \in Made => OnFiber(t, cpu[t])

OneCpu == \A t, u \in Threads : cpu[t] \in Made /\ cpu[t] = cpu[u] => t = u

MainFibers ==
  \A t \in Threads :
    /\ cpu[t] \notin Made => m_ctx[t] = None
    /\ t_fiber[t] = None => m_state[t] = "NONE"
    /\ t_fiber[t] # None => m_state[t] = "RUNNING"
    /\ t_fiber[t] \in Made => t_fiber[t] = cpu[t]

\* What the state of a made fiber says about its flow and its pointers.
MadeFiber(f) ==
  /\ m_state[f] = "NONE" => m_ctx[f] = None /\ cur[f] = None /\ f \notin held
  /\ m_state[f] = "READY" => m_ctx[f] = f /\ cur[f] \in {None, f} /\ (f \in held \/ cur[f] = f)
  /\ m_state[f] = "RUNNING" => \/ \E t \in Threads : cpu[t] = f
                               \/ f = RootFiber /\ cpu[Caller] \in Tasks
  /\ m_state[f] = "TERM" => cur[f] = None /\ f \in held

MadeFibers == \A f \in Made : MadeFiber(f)

FiberInv ==
  /\ TypeOK /\ NoFault
  /\ SchedulerFiber /\ OnCpu /\ OneCpu /\ MainFibers /\ MadeFibers

USE FiberAssumption DEF Threads, Made, Flows

LEMMA InitInv == ASSUME Init PROVE FiberInv
<1> USE DEF Init
<1>1. TypeOK BY DEF TypeOK
<1>2. NoFault /\ SchedulerFiber BY DEF NoFault, SchedulerFiber
<1>3. \A t \in Threads : cpu[t] \notin Made BY FiberAssumption
<1>4. OnCpu /\ OneCpu BY <1>3 DEF OnCpu, OneCpu
<1>5. MainFibers BY DEF MainFibers
<1>6. MadeFibers BY DEF MadeFibers, MadeFiber
<1> QED BY <1>1, <1>2, <1>4, <1>5, <1>6 DEF FiberInv

\* The actions that move no flow.
LEMMA GetThisInv ==
  ASSUME FiberInv, NEW t \in Threads, GetThis(t) PROVE FiberInv'
<1> USE DEF GetThis, MainFiber, SetThis
<1>1. TypeOK' BY DEF FiberInv, TypeOK
<1>2. NoFault' /\ SchedulerFiber' /\ OneCpu' BY DEF FiberInv, NoFault, SchedulerFiber, OneCpu
<1>3. OnCpu' BY DEF FiberInv, TypeOK, OnCpu, OnFiber, Back, RootWaits
<1>4. MainFibers' BY DEF FiberInv, TypeOK, MainFibers
<1>5. MadeFibers' BY DEF FiberInv, TypeOK, MadeFibers, MadeFiber
<1> QED BY <1>1, <1>2, <1>3, <1>4, <1>5 DEF FiberInv

LEMMA EnterRunInv ==
  ASSUME FiberInv, NEW w \in Workers, EnterRun(w) PROVE FiberInv'
<1> USE DEF EnterRun, MainFiber, SetThis
<1>1. TypeOK' BY DEF FiberInv, TypeOK
<1>2. NoFault' /\ SchedulerFiber' /\ OneCpu'
  BY DEF FiberInv, TypeOK, NoFault, SchedulerFiber, OneCpu
<1>3. OnCpu' BY DEF FiberInv, TypeOK, OnCpu, OnFiber, Back, RootWaits
<1>4. MainFibers' BY DEF FiberInv, TypeOK, MainFibers
<1>5. MadeFibers' BY DEF FiberInv, TypeOK, MadeFibers, MadeFiber
<1> QED BY <1>1, <1>2, <1>3, <1>4, <1>5 DEF FiberInv

LEMMA MakeSchedulerInv ==
  ASSUME FiberInv, MakeScheduler PROVE FiberInv'
<1> USE DEF MakeScheduler, SetThis
<1>1. TypeOK' BY DEF FiberInv, TypeOK
<1>2. NoFault' /\ SchedulerFiber' /\ OneCpu'
  BY DEF FiberInv, TypeOK, NoFault, SchedulerFiber, OneCpu
<1>3. OnCpu' BY DEF FiberInv, TypeOK, OnCpu, OnFiber, Back, RootWaits
<1>4. MainFibers' BY DEF FiberInv, TypeOK, MainFibers
<1>5. MadeFibers' BY DEF FiberInv, TypeOK, MadeFibers, MadeFiber
<1> QED BY <1>1, <1>2, <1>3, <1>4, <1>5 DEF FiberInv

LEMMA ConstructInv ==
  ASSUME FiberInv, NEW f \in Made, Construct(f) \/ Reset(f) PROVE FiberInv'
<1> USE DEF Construct, Reset, Ready
<1>0. \A t \in Threads : cpu[t] # f BY DEF FiberInv, TypeOK, OnCpu, OnFiber
<1>1. TypeOK' BY DEF FiberInv, TypeOK
<1>2. NoFault' /\ SchedulerFiber' /\ OneCpu'
  BY DEF FiberInv, TypeOK, NoFault, SchedulerFiber, OneCpu
<1>3. OnCpu' BY <1>0 DEF FiberInv, TypeOK, OnCpu, OnFiber, Back, RootWaits
<1>4. MainFibers' BY DEF FiberInv, TypeOK, MainFibers
<1>5. MadeFibers' BY DEF FiberInv, TypeOK, MadeFibers, MadeFiber
<1> QED BY <1>1, <1>2, <1>3, <1>4, <1>5 DEF FiberInv

LEMMA DropInv ==
  ASSUME Mistakes = {}, FiberInv, NEW f \in Made, Drop(f) PROVE FiberInv'
<1> USE DEF Drop, Check
<1>0. f = RootFiber => ~RootWaits BY DEF RootWaits
<1>1. TypeOK' BY DEF FiberInv, TypeOK
<1>2. NoFault' /\ SchedulerFiber' /\ OneCpu'
  BY DEF FiberInv, TypeOK, NoFault, SchedulerFiber, OneCpu
<1>3. OnCpu' BY <1>0 DEF FiberInv, TypeOK, OnCpu, OnFiber, Back, RootWaits
<1>4. MainFibers' BY DEF FiberInv, TypeOK, MainFibers
<1>5. MadeFibers' BY DEF FiberInv, TypeOK, MadeFibers, MadeFiber, OnCpu, OnFiber
<1> QED BY <1>1, <1>2, <1>3, <1>4, <1>5 DEF FiberInv

LEMMA ThreadExitInv ==
  ASSUME FiberInv, NEW t \in Threads, ThreadExit(t) PROVE FiberInv'
<1> USE DEF ThreadExit, Check, SetThis
<1>1. TypeOK' BY DEF FiberInv, TypeOK
<1>2. NoFault' /\ SchedulerFiber' /\ OneCpu'
  BY DEF FiberInv, TypeOK, NoFault, SchedulerFiber, OneCpu, MainFibers
<1>3. OnCpu' BY DEF FiberInv, TypeOK, OnCpu, OnFiber, Back, RootWaits
<1>4. MainFibers' BY DEF FiberInv, TypeOK, MainFibers
<1>5. MadeFibers' BY DEF FiberInv, TypeOK, MadeFibers, MadeFiber
<1> QED BY <1>1, <1>2, <1>3, <1>4, <1>5 DEF FiberInv

\* resume() saves the running flow into its own fiber's area: it is called by the
\* flow the fiber returns to.
LEMMA ResumeInv ==
  ASSUME Mistakes = {}, FiberInv, NEW t \in Threads, NEW f \in Made, Resume(t, f)
  PROVE  FiberInv'
<1> DEFINE b == cpu[t]
<1>1. /\ m_state[f] = "READY" /\ m_ctx[f] = f /\ t_fiber[t] # None /\ m_state[t] = "RUNNING"
      /\ \A u \in Threads : cpu[u] # f
  BY DEF FiberInv, TypeOK, Resume, MadeFibers, MadeFiber, MainFibers, OnCpu, OnFiber
<1>2. \/ b = t /\ (f \in Tasks => t_scheduler_fiber[t] = t) /\ (f = RootFiber => t = Caller)
         /\ (f \in Tasks => t \in Workers)
      \/ b = RootFiber /\ t = Caller /\ f \in Tasks /\ t_scheduler_fiber[t] = RootFiber
  BY DEF FiberInv, TypeOK, SchedulerFiber, Resume, MayResume
<1>3. Back(t, f) = b /\ b # f /\ b # None BY <1>1, <1>2 DEF Back, Resume
<1>4. /\ cpu' = [cpu EXCEPT ![t] = f]
      /\ m_ctx' = [m_ctx EXCEPT ![b] = b, ![f] = None]
  BY <1>1, <1>2, <1>3 DEF FiberInv, TypeOK, Resume, SwapContext
<1>5. /\ t_fiber' = [t_fiber EXCEPT ![t] = f]
      /\ m_state' = [m_state EXCEPT ![f] = "RUNNING"]
      /\ resumer' = [resumer EXCEPT ![f] = b]
      /\ cur' = [cur EXCEPT ![f] = f]
      /\ UNCHANGED <<t_scheduler_fiber, held>> /\ f \in held
  BY <1>1 DEF FiberInv, TypeOK, Resume, SetThis, Begin, MadeFibers, MadeFiber
<1>6. TypeOK' BY <1>2, <1>4, <1>5 DEF FiberInv, TypeOK
<1>7. NoFault' /\ SchedulerFiber' /\ OneCpu'
  BY <1>1, <1>3, <1>4, <1>5 DEF FiberInv, TypeOK, NoFault, SchedulerFiber, OneCpu, Resume, Check
<1>8. b = RootFiber => RootWaits'
  BY <1>2, <1>3, <1>4, <1>5 DEF FiberInv, TypeOK, OnCpu, OnFiber, RootWaits, Back
<1>9. ASSUME NEW u \in Threads, cpu'[u] \in Made PROVE OnFiber(u, cpu[u])'
  <2>1. CASE u = t
    BY <1>1, <1>2, <1>3, <1>4, <1>5, <1>8, <2>1 DEF FiberInv, TypeOK, OnCpu, OnFiber, Back
  <2>2. CASE u # t
    <3>1. cpu'[u] = cpu[u] /\ cpu[u] # f /\ cpu[u] # b /\ OnFiber(u, cpu[u])
      BY <1>1, <1>2, <1>4, <1>9, <2>2 DEF FiberInv, TypeOK, OnCpu, OneCpu
    <3>2. u = Caller => b # RootFiber BY <1>2, <2>2
    <3>3. u = Caller /\ cpu[u] \in Tasks => f # RootFiber
      BY <1>1, <3>1 DEF OnFiber, RootWaits
    <3> QED BY <1>2, <1>4, <1>5, <2>2, <3>1, <3>2, <3>3
            DEF FiberInv, TypeOK, OnFiber, Back, RootWaits
  <2> QED BY <2>1, <2>2
<1>10. OnCpu' BY <1>9 DEF OnCpu
<1>11. MainFibers' BY <1>1, <1>2, <1>4, <1>5 DEF FiberInv, TypeOK, MainFibers, OnCpu, OnFiber
<1>12. MadeFibers'
  BY <1>1, <1>2, <1>4, <1>5 DEF FiberInv, TypeOK, MadeFibers, MadeFiber, OnCpu, OnFiber
<1> QED BY <1>6, <1>7, <1>10, <1>11, <1>12 DEF FiberInv

\* A flow leaves: control goes on in the area below it.
LEMMA LeaveInv ==
  ASSUME FiberInv, NEW t \in Threads, Yield(t) \/ Finish(t)
  PROVE  FiberInv'
<1> DEFINE f == cpu[t]
           b == Back(t, f)
<1>1. f \in Made /\ OnFiber(t, f) BY DEF FiberInv, OnCpu, Yield, Finish
<1>2. \/ b = t /\ (t = Caller => f \notin Tasks)
      \/ b = RootFiber /\ t = Caller /\ f \in Tasks /\ RootWaits
  BY <1>1 DEF FiberInv, SchedulerFiber, OnFiber, Back
<1>3. m_ctx[b] = b /\ b # f BY <1>1, <1>2 DEF OnFiber, RootWaits
<1> HIDE DEF b
<1>4. PICK s \in {"READY", "TERM"} :
        /\ m_state' = [m_state EXCEPT ![f] = s]
        /\ SwapContext(t, f, b) /\ SetThis(t, t)
        /\ cur' = IF s = "TERM" THEN [cur EXCEPT ![f] = None] ELSE cur
        /\ UNCHANGED <<t_scheduler_fiber, held, resumer, faults>>
  BY <1>1 DEF FiberInv, TypeOK, Yield, Finish, YieldAs, Check, OnFiber, NoFault, b
<1>5. /\ cpu' = [cpu EXCEPT ![t] = b]
      /\ m_ctx' = [m_ctx EXCEPT ![f] = f, ![b] = None]
      /\ t_fiber' = [t_fiber EXCEPT ![t] = t]
      /\ m_state' = [m_state EXCEPT ![f] = s]
  <2>1. [m_ctx EXCEPT ![f] = cpu[t]][b] = b BY <1>1, <1>2, <1>3 DEF FiberInv, TypeOK
  <2> QED BY <1>4, <2>1 DEF SwapContext, SetThis
<1>6. TypeOK' BY <1>1, <1>2, <1>4, <1>5 DEF FiberInv, TypeOK
<1>7. \A u \in Threads : u # t => cpu[u] # f /\ cpu[u] # b
  BY <1>1, <1>2 DEF FiberInv, TypeOK, OneCpu, OnCpu, OnFiber
<1>8. NoFault' /\ SchedulerFiber' /\ OneCpu'
  BY <1>2, <1>4, <1>5, <1>7 DEF FiberInv, TypeOK, NoFault, SchedulerFiber, OneCpu
<1>9. ASSUME NEW u \in Threads, cpu'[u] \in Made PROVE OnFiber(u, cpu[u])'
  <2>1. CASE u = t
    BY <1>1, <1>2, <1>3, <1>4, <1>5, <1>9, <2>1 DEF FiberInv, TypeOK, OnFiber, Back, RootWaits
  <2>2. CASE u # t
    <3>1. cpu'[u] = cpu[u] /\ cpu[u] # f /\ cpu[u] # b /\ OnFiber(u, cpu[u])
      BY <1>5, <1>7, <1>9, <2>2 DEF FiberInv, TypeOK, OnCpu
    <3>2. u = Caller => f # RootFiber /\ b # RootFiber
      BY <1>1, <1>2, <2>2 DEF OnFiber
    <3> QED BY <1>1, <1>2, <1>4, <1>5, <2>2, <3>1, <3>2
            DEF FiberInv, TypeOK, OnFiber, Back, RootWaits
  <2> QED BY <2>1, <2>2
<1>10. OnCpu' BY <1>9 DEF OnCpu
<1>11. MainFibers' BY <1>1, <1>2, <1>4, <1>5 DEF FiberInv, TypeOK, MainFibers, OnFiber
<1>12. MadeFibers'
  <2> SUFFICES ASSUME NEW g \in Made PROVE MadeFiber(g)' BY DEF MadeFibers
  <2>1. CASE g = f BY <1>1, <1>2, <1>4, <1>5, <2>1 DEF FiberInv, TypeOK, MadeFiber, OnFiber
  <2>2. CASE g # f /\ g = b
    BY <1>1, <1>2, <1>4, <1>5, <2>2 DEF FiberInv, TypeOK, MadeFibers, MadeFiber, RootWaits
  <2>3. CASE g # f /\ g # b
    BY <1>1, <1>2, <1>4, <1>5, <2>3 DEF FiberInv, TypeOK, MadeFibers, MadeFiber
  <2> QED BY <2>1, <2>2, <2>3
<1> QED BY <1>6, <1>8, <1>10, <1>11, <1>12 DEF FiberInv

\* The inductive invariant: where every flow is, and what the save areas below a
\* running fiber hold.
THEOREM FiberInvariant == ASSUME Mistakes = {} PROVE Spec => []FiberInv
<1>1. Init => FiberInv BY InitInv
<1>2. FiberInv /\ [Next]_vars => FiberInv'
  <2> SUFFICES ASSUME FiberInv, [Next]_vars PROVE FiberInv' OBVIOUS
  <2>1. CASE MakeScheduler BY <2>1, MakeSchedulerInv
  <2>2. ASSUME NEW w \in Workers, EnterRun(w) PROVE FiberInv' BY <2>2, EnterRunInv
  <2>3. ASSUME NEW t \in Threads, GetThis(t) PROVE FiberInv' BY <2>3, GetThisInv
  <2>4. ASSUME NEW t \in Threads, Yield(t) \/ Finish(t) PROVE FiberInv' BY <2>4, LeaveInv
  <2>5. ASSUME NEW t \in Threads, ThreadExit(t) PROVE FiberInv' BY <2>5, ThreadExitInv
  <2>6. ASSUME NEW f \in Made, Construct(f) \/ Reset(f) PROVE FiberInv' BY <2>6, ConstructInv
  <2>7. ASSUME NEW f \in Made, Drop(f) PROVE FiberInv' BY <2>7, DropInv
  <2>8. ASSUME NEW t \in Threads, NEW f \in Made, Resume(t, f) PROVE FiberInv'
    BY <2>8, ResumeInv
  <2>9. CASE UNCHANGED vars
    BY <2>9 DEF vars, FiberInv, TypeOK, NoFault, SchedulerFiber, OnCpu, OnFiber, RootWaits, Back,
                OneCpu, MainFibers, MadeFibers, MadeFiber
  <2> QED BY <2>1, <2>2, <2>3, <2>4, <2>5, <2>6, <2>7, <2>8, <2>9 DEF Next
<1> QED BY <1>1, <1>2, PTL DEF Spec

\* The assertions of fiber.cpp hold, pointers are valid and areas keep to their
\* own fiber, whatever fibers do and on whichever threads they are resumed.
THEOREM FiberSafe == ASSUME Mistakes = {} PROVE Spec => [](TypeOK /\ NoFault)
<1>1. FiberInv => TypeOK /\ NoFault BY DEF FiberInv
<1> QED BY <1>1, FiberInvariant, PTL

\* GetThis() inside a callback is the callback's fiber.
THEOREM CallbackIsItself == ASSUME Mistakes = {} PROVE Spec => []SelfKnown
<1>1. FiberInv => SelfKnown BY DEF FiberInv, OnCpu, OnFiber, SelfKnown
<1> QED BY <1>1, FiberInvariant, PTL

\* yield() returns to the flow that called resume(), at both depths.
THEOREM YieldReturns == ASSUME Mistakes = {} PROVE Spec => []ControlReturns
<1>1. ASSUME FiberInv PROVE ControlReturns
  <2> SUFFICES ASSUME NEW t \in Threads, cpu[t] \in Made
               PROVE  resumer[cpu[t]] # None /\ m_ctx[Back(t, cpu[t])] = resumer[cpu[t]]
    BY DEF ControlReturns
  <2>1. OnFiber(t, cpu[t]) BY <1>1 DEF FiberInv, OnCpu
  <2>2. Back(t, cpu[t]) = t \/ (Back(t, cpu[t]) = RootFiber /\ RootWaits)
    BY <1>1, <2>1 DEF FiberInv, SchedulerFiber, OnFiber, Back
  <2> QED BY <2>1, <2>2 DEF OnFiber, RootWaits
<1> QED BY <1>1, FiberInvariant, PTL

\* Fibers end with their last pointer and not before.
THEOREM FibersCounted == ASSUME Mistakes = {} PROVE Spec => []PointersExact
<1>1. ASSUME FiberInv PROVE PointersExact
  <2> SUFFICES ASSUME NEW f \in Made
               PROVE  m_state[f] # "NONE" <=> f \in held \/ (cur[f] = f /\ m_state[f] # "TERM")
    BY DEF PointersExact
  <2>1. m_state[f] = "RUNNING" => f \in held
    BY <1>1 DEF FiberInv, MadeFibers, MadeFiber, OnCpu, OnFiber, RootWaits
  <2> QED BY <1>1, <2>1 DEF FiberInv, TypeOK, MadeFibers, MadeFiber
<1> QED BY <1>1, FiberInvariant, PTL

\* No flow is lost or doubled.
THEOREM FlowsKept == ASSUME Mistakes = {} PROVE Spec => []NothingLost
<1>1. ASSUME FiberInv, NEW f \in Made, m_state[f] \in {"READY", "RUNNING"}
      PROVE  \E p \in Places(f) : Places(f) = {p}
  <2>1. \A g \in Flows : m_ctx[g] = f => g = f BY <1>1 DEF FiberInv, TypeOK
  <2>2. CASE \E t \in Threads : cpu[t] = f
    <3>1. PICK t \in Threads : cpu[t] = f BY <2>2
    <3>2. (\A u \in Threads : cpu[u] = f => u = t) /\ m_ctx[f] = None
      BY <1>1, <3>1 DEF FiberInv, OneCpu, OnCpu, OnFiber
    <3>3. Places(f) = {<<"cpu", t>>} BY <2>1, <3>1, <3>2 DEF Places
    <3> QED BY <3>3
  <2>3. CASE \A t \in Threads : cpu[t] # f
    <3>1. m_ctx[f] = f
      BY <1>1, <2>3 DEF FiberInv, TypeOK, MadeFibers, MadeFiber, OnCpu, OnFiber, RootWaits
    <3>2. Places(f) = {<<"area", f>>} BY <2>1, <2>3, <3>1 DEF Places
    <3> QED BY <3>2
  <2> QED BY <2>2, <2>3
<1>2. ASSUME FiberInv, NEW t \in Threads, cpu[t] # None
      PROVE  \E p \in Places(t) : Places(t) = {p}
  <2>1. /\ \A g \in Flows : m_ctx[g] = t => g = t
        /\ \A u \in Threads : cpu[u] = t => u = t
    BY <1>2 DEF FiberInv, TypeOK
  <2>2. CASE cpu[t] = t
    <3>1. m_ctx[t] = None BY <1>2, <2>2 DEF FiberInv, MainFibers
    <3>2. Places(t) = {<<"cpu", t>>} BY <2>1, <2>2, <3>1 DEF Places
    <3> QED BY <3>2
  <2>3. CASE cpu[t] \in Made
    <3>1. m_ctx[t] = t BY <1>2, <2>3 DEF FiberInv, OnCpu, OnFiber
    <3>2. Places(t) = {<<"area", t>>} BY <2>1, <2>3, <3>1 DEF Places
    <3> QED BY <3>2
  <2> QED BY <1>2, <2>2, <2>3 DEF FiberInv, TypeOK
<1>3. FiberInv => NothingLost BY <1>1, <1>2 DEF NothingLost
<1> QED BY <1>3, FiberInvariant, PTL
=============================================================================
