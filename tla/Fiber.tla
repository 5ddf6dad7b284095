-------------------------------- MODULE Fiber --------------------------------
(***************************************************************************)
(* sylar::Fiber (fiber.h, fiber.cpp): coroutines on ucontext, two levels   *)
(* deep.  A fiber has one save area, m_ctx.  resume() saves whatever runs  *)
(* into the area of the thread's main fiber, or of the scheduler's fiber,  *)
(* and yield() jumps to what is there.                                     *)
(*                                                                         *)
(* A flow is one of the stacks control can be on: a fiber's own, or the    *)
(* one the thread began with, which its main fiber stands for.  Fibers     *)
(* made with a callback are Tasks (run_in_scheduler), Solos (not), and the *)
(* RootFiber a Scheduler with use_caller makes.  The main fiber of a       *)
(* thread is named by the thread.                                          *)
(*                                                                         *)
(* resume() and yield() are one step each: what another thread sees of a   *)
(* fiber between its change of state and swapcontext() is in Scheduler.    *)
(***************************************************************************)

CONSTANTS
  Caller,      \* a thread that makes a Scheduler with use_caller and calls stop()
  Workers,     \* threads that start() makes: they call Scheduler::run()
  Plain,       \* threads without scheduler, as in tests/test_fiber.cpp
  RootFiber, Tasks, Solos,
  None,        \* no fiber, no flow
  Mistakes     \* what clients may get wrong: a subset of Careless

Careless == {"nested", "twice", "noMainFiber", "dropUnstarted"}

Threads == {Caller} \cup Workers \cup Plain
Made == {RootFiber} \cup Tasks \cup Solos
Flows == Made \cup Threads

ASSUME FiberAssumption ==
  /\ Mistakes \subseteq Careless
  /\ None \notin Flows
  /\ Caller \notin Workers \cup Plain /\ Workers \cap Plain = {}
  /\ RootFiber \notin Tasks \cup Solos /\ Tasks \cap Solos = {}
  /\ Made \cap Threads = {}

VARIABLES
  m_state,            \* "NONE": not made or destroyed
  m_ctx,              \* the flow that continues when the area is loaded; None: it
                      \* was loaded since, or never filled
  cpu,                \* the flow each thread runs; None: the thread has exited
  t_fiber,            \* thread_local: what GetThis() returns
  t_scheduler_fiber,  \* thread_local: where Tasks return to
  cur,                \* MainFunc()'s Fiber::ptr on the fiber's stack, while it runs
  held,               \* fibers somebody outside their own stack has a pointer to
  resumer,            \* history: the flow that called resume()
  faults              \* failed assertions, null and dangling pointers: all is over

vars == <<m_state, m_ctx, cpu, t_fiber, t_scheduler_fiber, cur, held, resumer, faults>>

Init ==
  /\ m_state = [f \in Flows |-> "NONE"]
  /\ m_ctx = [f \in Flows |-> None]
  /\ cpu = [t \in Threads |-> t]
  /\ t_fiber = [t \in Threads |-> None]
  /\ t_scheduler_fiber = [t \in Threads |-> None]
  /\ cur = [f \in Made |-> None]
  /\ held = {}
  /\ resumer = [f \in Made |-> None]
  /\ faults = {}

\* SYLAR_ASSERT, and the pointers the code uses without looking.
Check(holds, place) == faults' = faults \cup (IF holds THEN {} ELSE {place})

\* Mutant: the main fiber stays the current one.
MutSetThis(t, f) == t_fiber' = [t_fiber EXCEPT ![t] = t]

SetThis(t, f) == t_fiber' = [t_fiber EXCEPT ![t] = f]

\* Fiber::GetThis() by the thread's own flow: t_thread_fiber is made once.
MainFiber(t) ==
  /\ m_state' = [m_state EXCEPT ![t] = "RUNNING"]
  /\ SetThis(t, t)

GetThis(t) ==
  /\ cpu[t] = t /\ t_fiber[t] = None
  /\ MainFiber(t)
  /\ UNCHANGED <<m_ctx, cpu, t_scheduler_fiber, cur, held, resumer, faults>>

\* makecontext(): the area holds the beginning of the fiber's flow.
Ready(f) ==
  /\ m_state' = [m_state EXCEPT ![f] = "READY"]
  /\ m_ctx' = [m_ctx EXCEPT ![f] = f]

\* Fiber::Fiber(cb, stacksize, run_in_scheduler)
Construct(f) ==
  /\ f # RootFiber /\ m_state[f] = "NONE"
  /\ Ready(f)
  /\ held' = held \cup {f}
  /\ UNCHANGED <<cpu, t_fiber, t_scheduler_fiber, cur, resumer, faults>>

\* Scheduler::Scheduler() with use_caller.
MakeScheduler ==
  /\ cpu[Caller] = Caller /\ m_state[RootFiber] = "NONE"
  /\ m_state' = [m_state EXCEPT ![Caller] = "RUNNING", ![RootFiber] = "READY"]
  /\ m_ctx' = [m_ctx EXCEPT ![RootFiber] = RootFiber]
  /\ SetThis(Caller, Caller)
  /\ t_scheduler_fiber' = [t_scheduler_fiber EXCEPT ![Caller] = RootFiber]
  /\ held' = held \cup {RootFiber}
  /\ UNCHANGED <<cpu, cur, resumer, faults>>

\* The beginning of Scheduler::run() in a worker.
EnterRun(w) ==
  /\ cpu[w] = w /\ t_scheduler_fiber[w] = None
  /\ MainFiber(w)
  /\ t_scheduler_fiber' = [t_scheduler_fiber EXCEPT ![w] = w]
  /\ UNCHANGED <<m_ctx, cpu, cur, held, resumer, faults>>

-----------------------------------------------------------------------------
(* Changing stacks.                                                        *)

\* Mutant: run_in_scheduler is ignored.
MutBack(t, f) == t

\* The fiber whose area resume() saves into and yield() loads.
Back(t, f) == IF f \in Tasks THEN t_scheduler_fiber[t] ELSE t

\* Mutant: setcontext() instead of swapcontext().
MutSwapContext(t, save, load) ==
  /\ cpu' = [cpu EXCEPT ![t] = m_ctx[load]]
  /\ m_ctx' = [m_ctx EXCEPT ![load] = None]

\* swapcontext(&save->m_ctx, &load->m_ctx): the thread goes on with the flow it
\* finds.  It finds none if the area is used up or the fiber is destroyed.
SwapContext(t, save, load) ==
  LET saved == [m_ctx EXCEPT ![save] = cpu[t]]
  IN /\ cpu' = [cpu EXCEPT ![t] = saved[load]]
     /\ m_ctx' = [saved EXCEPT ![load] = None]

\* Who calls resume(): Scheduler::run() for Tasks, on a worker's main flow or in
\* the root fiber; the thread's own flow for the others, the caller in stop().
MayResume(t, f) ==
  \/ f \in Tasks /\ cpu[t] = t_scheduler_fiber[t]
  \/ f \in Solos /\ cpu[t] = t /\ t \notin Workers
  \/ f = RootFiber /\ cpu[t] = t /\ t = Caller
  \/ "nested" \in Mistakes /\ f # RootFiber

\* Mutant: MainFunc() has no pointer of its own.
MutBegin(f) == UNCHANGED cur

\* The first line of MainFunc(), if the flow begins.
Begin(f) == cur' = [cur EXCEPT ![f] = f]

\* Fiber::resume().
Resume(t, f) ==
  /\ cpu[t] # None /\ f \in held /\ MayResume(t, f)
  /\ t_fiber[t] # None \/ "noMainFiber" \in Mistakes
  /\ m_state[f] = "READY" \/ "twice" \in Mistakes
  /\ Check(m_state[f] = "READY" /\ m_state[t] = "RUNNING" /\ Back(t, f) # None, "fiber.cpp:116")
  /\ SetThis(t, f)
  /\ m_state' = [m_state EXCEPT ![f] = "RUNNING"]
  /\ SwapContext(t, Back(t, f), f)
  /\ IF cur[f] = None THEN Begin(f) ELSE UNCHANGED cur
  /\ resumer' = [resumer EXCEPT ![f] = cpu[t]]
  /\ UNCHANGED <<t_scheduler_fiber, held>>

\* Fiber::yield() of the fiber me, with the state it leaves behind.
YieldAs(t, me, state) ==
  /\ SetThis(t, t)
  /\ m_state' = [m_state EXCEPT ![me] = state]
  /\ SwapContext(t, me, Back(t, me))

\* A callback calls Fiber::GetThis()->yield().
Yield(t) ==
  /\ cpu[t] \in Tasks \cup Solos
  /\ Check(t_fiber[t] \in Made /\ m_state[t_fiber[t]] = "RUNNING", "fiber.cpp:130")
  /\ YieldAs(t, t_fiber[t], "READY")
  /\ UNCHANGED <<t_scheduler_fiber, cur, held, resumer>>

\* Mutant: the terminated fiber keeps its pointer to itself.
MutFinish(t) ==
  /\ cpu[t] \in Made
  /\ Check(cur[cpu[t]] \in held, "fiber.cpp:155")
  /\ YieldAs(t, cur[cpu[t]], "TERM")
  /\ UNCHANGED <<t_scheduler_fiber, cur, held, resumer>>

\* The callback returns to MainFunc(), which gives up its own pointer and yields
\* for good.  Nobody else's pointer left, the fiber would be destroyed under it.
Finish(t) ==
  /\ cpu[t] \in Made
  /\ Check(cur[cpu[t]] \in held, "fiber.cpp:155")
  /\ YieldAs(t, cur[cpu[t]], "TERM")
  /\ cur' = [cur EXCEPT ![cpu[t]] = None]
  /\ UNCHANGED <<t_scheduler_fiber, held, resumer>>

-----------------------------------------------------------------------------
(* The end of a fiber and of a thread.                                     *)

\* Fiber::reset()
Reset(f) ==
  /\ f \in held \ {RootFiber} /\ m_state[f] = "TERM"
  /\ Ready(f)
  /\ UNCHANGED <<cpu, t_fiber, t_scheduler_fiber, cur, held, resumer, faults>>

\* The last pointer outside goes away.  The one that resume() was called through
\* outlives the call.  A fiber that has begun keeps itself alive, for ever if
\* nobody can resume it; otherwise ~Fiber() runs.
Drop(f) ==
  /\ f \in held /\ \A t \in Threads : cpu[t] # f
  /\ f = RootFiber => m_state[f] = "TERM"
  /\ cur[f] # None \/ m_state[f] = "TERM" \/ "dropUnstarted" \in Mistakes
  /\ held' = held \ {f}
  /\ IF cur[f] # None THEN UNCHANGED <<m_state, m_ctx, faults>>
     ELSE /\ Check(m_state[f] = "TERM", "fiber.cpp:86")
          /\ m_state' = [m_state EXCEPT ![f] = "NONE"]
          /\ m_ctx' = [m_ctx EXCEPT ![f] = None]
  /\ UNCHANGED <<cpu, t_fiber, t_scheduler_fiber, cur, resumer>>

\* The thread function returns: t_thread_fiber is destroyed.  The caller's, after
\* its Scheduler.
ThreadExit(t) ==
  /\ cpu[t] = t
  /\ t = Caller => RootFiber \notin held
  /\ Check(m_state[t] \in {"NONE", "RUNNING"}, "fiber.cpp:91")
  /\ m_state' = [m_state EXCEPT ![t] = "NONE"]
  /\ SetThis(t, None)
  /\ cpu' = [cpu EXCEPT ![t] = None]
  /\ UNCHANGED <<m_ctx, t_scheduler_fiber, cur, held, resumer>>

-----------------------------------------------------------------------------
Next ==
  /\ faults = {}
  /\ \/ MakeScheduler
     \/ \E w \in Workers : EnterRun(w)
     \/ \E t \in Threads : GetThis(t)
     \/ \E t \in Threads : Yield(t) \/ Finish(t) \/ ThreadExit(t)
     \/ \E f \in Made : Construct(f) \/ Reset(f) \/ Drop(f)
     \/ \E t \in Threads, f \in Made : Resume(t, f)

Spec == Init /\ [][Next]_vars

-----------------------------------------------------------------------------
\* Types; a save area only ever holds the flow of its own fiber, and a thread's
\* current fiber is its own main fiber or a made one.
TypeOK ==
  /\ m_state \in [Flows -> {"NONE", "READY", "RUNNING", "TERM"}]
  /\ m_ctx \in [Flows -> Flows \cup {None}] /\ \A f \in Flows : m_ctx[f] \in {f, None}
  /\ cpu \in [Threads -> Flows \cup {None}]
  /\ t_fiber \in [Threads -> Flows \cup {None}]
  /\ \A t \in Threads : {cpu[t], t_fiber[t]} \subseteq Made \cup {t, None}
  /\ t_scheduler_fiber \in [Threads -> Threads \cup {RootFiber, None}]
  /\ cur \in [Made -> Made \cup {None}]
  /\ held \subseteq Made
  /\ resumer \in [Made -> Flows \cup {None}]

\* No assertion of fiber.cpp fails and no dangling or null pointer is used, by
\* clients that resume fibers from the flow they are meant to be resumed from.
NoFault == faults = {}

\* A callback is never mistaken for another fiber: what Fiber::GetThis() returns
\* inside it, which is what yields, reschedules itself and is registered for
\* events, is the fiber it runs in, on whichever thread it was resumed.
SelfKnown == \A t \in Threads : cpu[t] \in Tasks \cup Solos => t_fiber[t] = cpu[t]

\* Control comes back to who called resume(): the area that yield() and the end
\* of MainFunc() load holds the flow that resumed the fiber, at every depth.
ControlReturns ==
  \A t \in Threads :
    cpu[t] \in Made => resumer[cpu[t]] # None /\ m_ctx[Back(t, cpu[t])] = resumer[cpu[t]]

\* Where a flow can continue from.
Places(f) ==
  {<<"cpu", t>> : t \in {u \in Threads : cpu[u] = f}}
    \cup {<<"area", g>> : g \in {h \in Flows : m_ctx[h] = f}}

\* No flow is lost or doubled: a fiber that is not finished, and the flow of every
\* thread, is either on one thread or in one save area.
NothingLost ==
  /\ \A f \in Made : m_state[f] \in {"READY", "RUNNING"} => \E p \in Places(f) : Places(f) = {p}
  /\ \A t \in Threads : cpu[t] # None => \E p \in Places(t) : Places(t) = {p}

\* A fiber exists as long as somebody has a pointer to it or it has begun and not
\* ended; one that has ended goes with the last pointer (test_fiber.cpp: "// 1").
PointersExact ==
  \A f \in Made : m_state[f] # "NONE" <=> f \in held \/ (cur[f] = f /\ m_state[f] # "TERM")
=============================================================================
