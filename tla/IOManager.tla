------------------------------ MODULE IOManager ------------------------------
(***************************************************************************)
(* The event side of sylar::IOManager (iomanager.h, iomanager.cpp): the    *)
(* FdContexts, addEvent(), delEvent(), cancelEvent(), cancelAll(), and the *)
(* loop of idle() that turns a batch from epoll_wait() into scheduled      *)
(* tasks.  Timers, the wake-up pipe and shutdown are in Reactor.           *)
(*                                                                         *)
(* Every operation holds its FdContext's m_mutex from the look at m_events *)
(* to the end and is one action.  A call of epoll_ctl() that fails changes *)
(* nothing; addEvent(), delEvent() and the others then return false.       *)
(***************************************************************************)
EXTENDS Naturals, FiniteSets, FiniteSetsExt

CONSTANTS
  Fds,
  Events,        \* READ and WRITE, or one of them
  Waiters,       \* fibers and callbacks that clients register
  NoWaiter,      \* an EventContext after resetEventContext()
  Pollers,       \* threads that run idle()
  SingleThread   \* do clients run on the only poller, outside idle()?

ASSUME IOManagerAssumption ==
  /\ IsFiniteSet(Fds) /\ IsFiniteSet(Events)
  /\ NoWaiter \notin Waiters
  /\ "HUP" \notin Events
  /\ SingleThread \in BOOLEAN

VARIABLES
  m_events,             \* of each FdContext
  ctx,                  \* the waiter in each EventContext
  m_pendingEventCount,
  waiter,               \* "free", "waiting" for an event, or "scheduled" by it
  registered,           \* kernel: descriptors in the epoll set
  interest,             \* kernel: what they are registered for
  ready,                \* kernel: what is true of each descriptor now
  readyList,            \* kernel: what epoll_wait() reports next
  batch,                \* each poller's events[], from the current index on
  faults                \* a failed SYLAR_ASSERT; the program aborted

contextVars == <<m_events, ctx, m_pendingEventCount>>
kernelVars == <<registered, interest, ready, readyList>>
vars == <<contextVars, waiter, kernelVars, batch, faults>>

Init ==
  /\ m_events = [fd \in Fds |-> {}]
  /\ ctx = [fd \in Fds |-> [e \in Events |-> NoWaiter]]
  /\ m_pendingEventCount = 0
  /\ waiter = [w \in Waiters |-> "free"]
  /\ registered = {}
  /\ interest = [fd \in Fds |-> {}]
  /\ ready = [fd \in Fds |-> {}]
  /\ readyList = {}
  /\ batch = [p \in Pollers |-> {}]
  /\ faults = {}

-----------------------------------------------------------------------------
(* The kernel: descriptors and an edge-triggered epoll set.                *)

\* EPOLLERR and EPOLLHUP are reported whether asked for or not.
Reported(fd, events) == ready[fd] \cap (events \cup {"HUP"})

\* epoll_ctl() returns 0.
CtlSucceeds(op, fd) == (op = "ADD") = (fd \notin registered)

\* Its effect: adding or changing a registration reports what holds already.
EpollCtl(op, fd, events) ==
  /\ registered' = IF op = "DEL" THEN registered \ {fd} ELSE registered \cup {fd}
  /\ interest' = [interest EXCEPT ![fd] = events]
  /\ readyList' = IF op = "DEL" THEN readyList \ {fd}
                  ELSE IF Reported(fd, events) # {} THEN readyList \cup {fd}
                  ELSE readyList
  /\ UNCHANGED ready

\* Something happens to a descriptor; the edge reaches a registered one.
BecomeReady(fd, e) ==
  /\ faults = {}
  /\ e \notin ready[fd]
  /\ ready' = [ready EXCEPT ![fd] = @ \cup {e}]
  /\ readyList' = IF fd \in registered /\ e \in interest[fd] \cup {"HUP"}
                  THEN readyList \cup {fd} ELSE readyList
  /\ UNCHANGED <<contextVars, waiter, registered, interest, batch, faults>>

-----------------------------------------------------------------------------
(* Clients.                                                                *)

\* A client runs on some thread; with one thread, not inside idle().
ClientRuns == faults = {} /\ (SingleThread => \A p \in Pollers : batch[p] = {})

\* A client reads or writes until EAGAIN.
Drain(fd, e) ==
  /\ ClientRuns
  /\ e \in ready[fd] \cap Events
  /\ ready' = [ready EXCEPT ![fd] = @ \ {e}]
  /\ UNCHANGED <<contextVars, waiter, registered, interest, readyList, batch, faults>>

\* A scheduled waiter has run, and may register again.
Resumed(w) ==
  /\ ClientRuns
  /\ waiter[w] = "scheduled"
  /\ waiter' = [waiter EXCEPT ![w] = "free"]
  /\ UNCHANGED <<contextVars, kernelVars, batch, faults>>

\* Mutant: epoll_ctl() is called with m_events and without the new event.
MutAddEvent(fd, e, w) ==
  LET op == IF m_events[fd] = {} THEN "ADD" ELSE "MOD"
  IN /\ ClientRuns
     /\ waiter[w] = "free"
     /\ e \notin m_events[fd]
     /\ CtlSucceeds(op, fd)
     /\ EpollCtl(op, fd, m_events[fd])
     /\ m_pendingEventCount' = m_pendingEventCount + 1
     /\ m_events' = [m_events EXCEPT ![fd] = @ \cup {e}]
     /\ ctx' = [ctx EXCEPT ![fd][e] = w]
     /\ waiter' = [waiter EXCEPT ![w] = "waiting"]
     /\ UNCHANGED <<batch, faults>>

\* addEvent() for an event nobody waits for.
AddEvent(fd, e, w) ==
  LET op == IF m_events[fd] = {} THEN "ADD" ELSE "MOD"
  IN /\ ClientRuns
     /\ waiter[w] = "free"
     /\ e \notin m_events[fd]
     /\ CtlSucceeds(op, fd)
     /\ EpollCtl(op, fd, m_events[fd] \cup {e})
     /\ m_pendingEventCount' = m_pendingEventCount + 1
     /\ m_events' = [m_events EXCEPT ![fd] = @ \cup {e}]
     /\ faults' = IF ctx[fd][e] = NoWaiter THEN {} ELSE {"addEvent: event context is empty"}
     /\ ctx' = [ctx EXCEPT ![fd][e] = w]
     /\ waiter' = [waiter EXCEPT ![w] = "waiting"]
     /\ UNCHANGED batch

\* addEvent() for an event that somebody waits for: the program aborts.
AddEventTwice(fd, e) ==
  /\ ClientRuns
  /\ e \in m_events[fd]
  /\ faults' = {"addEvent: event is registered"}
  /\ UNCHANGED <<contextVars, waiter, kernelVars, batch>>

\* Mutant: the descriptor stays in the epoll set without events.
MutNarrow(fd, taken) == CtlSucceeds("MOD", fd) /\ EpollCtl("MOD", fd, m_events[fd] \ taken)

\* Take the events in taken away from fd in the epoll set.
Narrow(fd, taken) ==
  LET left == m_events[fd] \ taken
      op == IF left = {} THEN "DEL" ELSE "MOD"
  IN CtlSucceeds(op, fd) /\ EpollCtl(op, fd, left)

\* Mutants: the context is not reset; the count is not lowered.
MutDelEventContext(fd, e) ==
  /\ ClientRuns
  /\ e \in m_events[fd]
  /\ Narrow(fd, {e})
  /\ m_pendingEventCount' = m_pendingEventCount - 1
  /\ m_events' = [m_events EXCEPT ![fd] = @ \ {e}]
  /\ waiter' = [waiter EXCEPT ![ctx[fd][e]] = "free"]
  /\ UNCHANGED <<ctx, batch, faults>>

MutDelEventCount(fd, e) ==
  /\ ClientRuns
  /\ e \in m_events[fd]
  /\ Narrow(fd, {e})
  /\ m_events' = [m_events EXCEPT ![fd] = @ \ {e}]
  /\ ctx' = [ctx EXCEPT ![fd][e] = NoWaiter]
  /\ waiter' = [waiter EXCEPT ![ctx[fd][e]] = "free"]
  /\ UNCHANGED <<m_pendingEventCount, batch, faults>>

\* delEvent() forgets the waiter.
DelEvent(fd, e) ==
  /\ ClientRuns
  /\ e \in m_events[fd]
  /\ Narrow(fd, {e})
  /\ m_pendingEventCount' = m_pendingEventCount - 1
  /\ m_events' = [m_events EXCEPT ![fd] = @ \ {e}]
  /\ ctx' = [ctx EXCEPT ![fd][e] = NoWaiter]
  /\ waiter' = [waiter EXCEPT ![ctx[fd][e]] = "free"]
  /\ UNCHANGED <<batch, faults>>

\* Mutant: the count is lowered inside triggerEvent() and after it.
MutTriggerTwice(fd, events) ==
  LET woken == {ctx[fd][e] : e \in events \cap m_events[fd]}
  IN /\ m_pendingEventCount' = m_pendingEventCount - 2 * Cardinality(events \cap m_events[fd])
     /\ m_events' = [m_events EXCEPT ![fd] = @ \ events]
     /\ ctx' = [ctx EXCEPT ![fd] = [e \in Events |-> IF e \in events THEN NoWaiter ELSE @[e]]]
     /\ waiter' = [w \in Waiters |-> IF w \in woken THEN "scheduled" ELSE waiter[w]]
     /\ UNCHANGED faults

\* triggerEvent() for each of the events, each followed by
\* --m_pendingEventCount: the waiters are scheduled and their contexts reset.
TriggerEvents(fd, events) ==
  LET woken == {ctx[fd][e] : e \in events \cap m_events[fd]}
  IN /\ faults' = IF events \subseteq m_events[fd] THEN {}
                  ELSE {"triggerEvent: m_events & event"}
     /\ m_pendingEventCount' = m_pendingEventCount - Cardinality(events \cap m_events[fd])
     /\ m_events' = [m_events EXCEPT ![fd] = @ \ events]
     /\ ctx' = [ctx EXCEPT ![fd] = [e \in Events |-> IF e \in events THEN NoWaiter ELSE @[e]]]
     /\ waiter' = [w \in Waiters |-> IF w \in woken THEN "scheduled" ELSE waiter[w]]

CancelEvent(fd, e) ==
  /\ ClientRuns
  /\ e \in m_events[fd]
  /\ Narrow(fd, {e})
  /\ TriggerEvents(fd, {e})
  /\ UNCHANGED batch

\* cancelAll(), as the hooked close() calls it.
CancelAll(fd) ==
  /\ ClientRuns
  /\ m_events[fd] # {}
  /\ CtlSucceeds("DEL", fd)
  /\ EpollCtl("DEL", fd, {})
  /\ TriggerEvents(fd, m_events[fd])
  /\ UNCHANGED batch

\* close() of a descriptor nobody waits for; then the number is used again.
Reopen(fd) ==
  /\ ClientRuns
  /\ m_events[fd] = {}
  /\ registered' = registered \ {fd}
  /\ readyList' = readyList \ {fd}
  /\ interest' = [interest EXCEPT ![fd] = {}]
  /\ ready' = [ready EXCEPT ![fd] = {}]
  /\ UNCHANGED <<contextVars, waiter, batch, faults>>

-----------------------------------------------------------------------------
(* idle()                                                                  *)

\* epoll_wait() returns everything that is ready, in any order, and takes it
\* off the ready list.
EpollWait(p) ==
  /\ faults = {}
  /\ batch[p] = {}
  /\ LET hits == {fd \in readyList : Reported(fd, interest[fd]) # {}}
     IN /\ hits # {}
        /\ batch' = [batch EXCEPT ![p] =
             {[fd |-> fd, events |-> Reported(fd, interest[fd])] : fd \in hits}]
  /\ readyList' = {}
  /\ UNCHANGED <<contextVars, waiter, registered, interest, ready, faults>>

\* EPOLLERR and EPOLLHUP stand for the events that are waited for.
RealEvents(event) ==
  IF "HUP" \in event.events
  THEN (event.events \ {"HUP"}) \cup m_events[event.fd]
  ELSE event.events

\* An event nobody waits for any more: continue with the next one.
SkipEvent(p, event) ==
  /\ faults = {}
  /\ event \in batch[p]
  /\ m_events[event.fd] \cap RealEvents(event) = {}
  /\ batch' = [batch EXCEPT ![p] = @ \ {event}]
  /\ UNCHANGED <<contextVars, waiter, kernelVars, faults>>

\* An event somebody waits for.  The result of epoll_ctl() is assigned to ret, the
\* bound of the loop, so that the loop ends after the first such event.  (So it
\* would if epoll_ctl() failed, which it does not: KernelAgrees.)
HandleEvent(p, event) ==
  /\ faults = {}
  /\ event \in batch[p]
  /\ m_events[event.fd] \cap RealEvents(event) # {}
  /\ Narrow(event.fd, RealEvents(event))
  /\ TriggerEvents(event.fd, RealEvents(event))
  /\ batch' = [batch EXCEPT ![p] = {}]

-----------------------------------------------------------------------------
Client ==
  \E fd \in Fds :
    \/ \E e \in Events :
         \/ \E w \in Waiters : AddEvent(fd, e, w)
         \/ AddEventTwice(fd, e)
         \/ DelEvent(fd, e) \/ CancelEvent(fd, e) \/ Drain(fd, e)
    \/ CancelAll(fd) \/ Reopen(fd)

Idle(p) ==
  \/ EpollWait(p)
  \/ \E event \in batch[p] : SkipEvent(p, event) \/ HandleEvent(p, event)

Next ==
  \/ Client
  \/ \E w \in Waiters : Resumed(w)
  \/ \E fd \in Fds, e \in Events \cup {"HUP"} : BecomeReady(fd, e)
  \/ \E p \in Pollers : Idle(p)

Spec == Init /\ [][Next]_vars

\* A thread without tasks goes round idle() for ever.
FairSpec == Spec /\ \A p \in Pollers : WF_vars(Idle(p))

-----------------------------------------------------------------------------
TypeOK ==
  /\ m_events \in [Fds -> SUBSET Events]
  /\ ctx \in [Fds -> [Events -> Waiters \cup {NoWaiter}]]
  /\ m_pendingEventCount \in Nat
  /\ waiter \in [Waiters -> {"free", "waiting", "scheduled"}]
  /\ registered \subseteq Fds /\ readyList \subseteq Fds
  /\ interest \in [Fds -> SUBSET Events]
  /\ ready \in [Fds -> SUBSET (Events \cup {"HUP"})]
  /\ batch \in [Pollers -> SUBSET [fd : Fds, events : SUBSET (Events \cup {"HUP"})]]

\* No assertion fails but the one about a client that registers for an event
\* twice: triggerEvent() is called for awaited events only, and addEvent() finds
\* the EventContext empty.  This is so with one kind of event or with one thread.
NoFault == faults \subseteq {"addEvent: event is registered"}

\* An EventContext is filled exactly for the events in m_events, and a waiter
\* that waits has exactly one, so that it is scheduled once and by its event.
OneContextPerWaiter ==
  /\ \A fd \in Fds, e \in Events : ctx[fd][e] # NoWaiter <=> e \in m_events[fd]
  /\ \A w \in Waiters :
       Cardinality({s \in Fds \X Events : ctx[s[1]][s[2]] = w})
         = IF waiter[w] = "waiting" THEN 1 ELSE 0

\* m_pendingEventCount, on which stopping() relies, is the number of events
\* waited for.
PendingExact ==
  m_pendingEventCount = Cardinality({s \in Fds \X Events : s[2] \in m_events[s[1]]})

\* The epoll set and m_events agree, so that ADD, MOD and DEL are the right
\* operations and do not fail.
KernelAgrees ==
  \A fd \in Fds :
    /\ interest[fd] = m_events[fd]
    /\ fd \in registered <=> m_events[fd] # {}

\* A waiter whose event has happened is scheduled, unless the event goes away or
\* the program aborts.  Registrations are edge triggered, so a report that is lost
\* never comes back.
ReadyIsHandled ==
  \A fd \in Fds, e \in Events :
    (e \in m_events[fd] /\ Reported(fd, {e}) # {})
      ~> (e \notin m_events[fd] \/ Reported(fd, {e}) = {} \/ faults # {})
=============================================================================
