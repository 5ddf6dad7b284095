--------------------------- MODULE IOManagerProofs ---------------------------
(***************************************************************************)
(* Proofs about IOManager for any finite sets of descriptors and events    *)
(* and any number of waiters and polling threads.                          *)
(*                                                                         *)
(* The properties that speak of numbers (OneContextPerWaiter and           *)
(* PendingExact) are carried by sets: the places that name a waiter, and   *)
(* the events that are waited for.                                         *)
(***************************************************************************)
EXTENDS IOManager, TLAPS, FiniteSetTheorems

Places == Fds \X Events

\* Where w is registered.
PlacesOf(w) == {s \in Places : ctx[s[1]][s[2]] = w}

\* The events that are waited for.
Awaited == {s \in Places : s[2] \in m_events[s[1]]}

ContextsFilled == \A fd \in Fds, e \in Events : ctx[fd][e] # NoWaiter <=> e \in m_events[fd]

WaitersPlaced ==
  \A w \in Waiters :
    /\ waiter[w] = "waiting" => \E s \in Places : PlacesOf(w) = {s}
    /\ waiter[w] # "waiting" => PlacesOf(w) = {}

IInv == TypeOK /\ ContextsFilled /\ WaitersPlaced /\ PendingExact /\ KernelAgrees

-----------------------------------------------------------------------------
\* The set of awaited events is finite, and PendingExact is its size.
LEMMA AwaitedFinite ==
  ASSUME TypeOK
  PROVE  IsFiniteSet(Awaited) /\ Cardinality(Awaited) \in Nat
<1>1. IsFiniteSet(Places)
  BY FS_Product, IOManagerAssumption DEF Places, IOManagerAssumption
<1>2. Awaited \in SUBSET Places
  BY DEF Awaited
<1> QED
  BY <1>1, <1>2, FS_Subset, FS_CardinalityType

\* A set of places on one descriptor has as many members as there are events.
LEMMA OnOneDescriptor ==
  ASSUME NEW fd, NEW X, IsFiniteSet(X)
  PROVE  Cardinality({fd} \X X) = Cardinality(X) /\ IsFiniteSet({fd} \X X)
<1>1. IsFiniteSet({fd}) /\ Cardinality({fd}) = 1
  BY FS_Singleton
<1>2. Cardinality(X) \in Nat
  BY FS_CardinalityType
<1> QED
  BY <1>1, <1>2, FS_Product

\* In the beginning nobody waits and the epoll set is empty.
LEMMA InitInv == Init => IInv
<1> SUFFICES ASSUME Init PROVE IInv
  OBVIOUS
<1>1. TypeOK
  BY IOManagerAssumption DEF Init, TypeOK, IOManagerAssumption
<1>2. ContextsFilled /\ KernelAgrees
  BY DEF Init, ContextsFilled, KernelAgrees
<1>3. WaitersPlaced
  BY IOManagerAssumption DEF Init, WaitersPlaced, PlacesOf, Places, IOManagerAssumption
<1>4. PendingExact
  <2>1. {s \in Fds \X Events : s[2] \in m_events[s[1]]} = {}
    BY DEF Init
  <2> QED
    BY <2>1, FS_EmptySet DEF Init, PendingExact
<1> QED
  BY <1>1, <1>2, <1>3, <1>4 DEF IInv

-----------------------------------------------------------------------------
(* The effect of the operations on the parts of the invariant.             *)

\* A registration whose operation was chosen from m_events keeps the epoll set
\* and m_events together.
LEMMA CtlAgrees ==
  ASSUME IInv, NEW fd \in Fds, NEW op, NEW events \in SUBSET Events,
         EpollCtl(op, fd, events),
         m_events' = [m_events EXCEPT ![fd] = events],
         op = "DEL" <=> events = {}
  PROVE  /\ KernelAgrees'
         /\ registered' \subseteq Fds /\ readyList' \subseteq Fds
         /\ interest' \in [Fds -> SUBSET Events]
         /\ ready' = ready
<1>1. registered' \subseteq Fds /\ readyList' \subseteq Fds
  BY DEF IInv, TypeOK, EpollCtl
<1>2. interest' \in [Fds -> SUBSET Events] /\ ready' = ready
  BY DEF IInv, TypeOK, EpollCtl
<1>3. KernelAgrees'
  <2> SUFFICES ASSUME NEW g \in Fds
               PROVE  /\ interest'[g] = m_events'[g]
                      /\ g \in registered' <=> m_events'[g] # {}
    BY DEF KernelAgrees
  <2>1. CASE g = fd
    BY <2>1 DEF IInv, TypeOK, EpollCtl
  <2>2. CASE g # fd
    BY <2>2 DEF IInv, TypeOK, EpollCtl, KernelAgrees
  <2> QED
    BY <2>1, <2>2
<1> QED
  BY <1>1, <1>2, <1>3

\* triggerEvent(), and delEvent() as far as the contexts go: the events in gone
\* leave fd, and their waiters are not waiting any more.
LEMMA Leaving ==
  ASSUME IInv, NEW fd \in Fds, NEW gone \in SUBSET Events, NEW state \in {"free", "scheduled"},
         m_pendingEventCount' = m_pendingEventCount - Cardinality(gone \cap m_events[fd]),
         m_events' = [m_events EXCEPT ![fd] = @ \ gone],
         ctx' = [ctx EXCEPT ![fd] = [e \in Events |-> IF e \in gone THEN NoWaiter ELSE @[e]]],
         waiter' = [w \in Waiters |-> IF w \in {ctx[fd][e] : e \in gone \cap m_events[fd]}
                                      THEN state ELSE waiter[w]]
  PROVE  /\ m_events' \in [Fds -> SUBSET Events]
         /\ ctx' \in [Fds -> [Events -> Waiters \cup {NoWaiter}]]
         /\ m_pendingEventCount' \in Nat
         /\ waiter' \in [Waiters -> {"free", "waiting", "scheduled"}]
         /\ ContextsFilled' /\ WaitersPlaced' /\ PendingExact'
<1> DEFINE left == gone \cap m_events[fd]
<1>1. m_events' \in [Fds -> SUBSET Events]
  BY DEF IInv, TypeOK
<1>2. ctx' \in [Fds -> [Events -> Waiters \cup {NoWaiter}]]
  BY DEF IInv, TypeOK
<1>3. waiter' \in [Waiters -> {"free", "waiting", "scheduled"}]
  BY DEF IInv, TypeOK
<1>4. \A g \in Fds, e \in Events :
        ctx'[g][e] = IF g = fd /\ e \in gone THEN NoWaiter ELSE ctx[g][e]
  BY DEF IInv, TypeOK
<1>5. \A g \in Fds, e \in Events :
        e \in m_events'[g] <=> e \in m_events[g] /\ ~(g = fd /\ e \in gone)
  BY DEF IInv, TypeOK
<1>6. ContextsFilled'
  BY <1>4, <1>5 DEF IInv, ContextsFilled
<1>7. WaitersPlaced'
  <2> SUFFICES ASSUME NEW w \in Waiters
               PROVE  /\ waiter'[w] = "waiting" => \E s \in Places : PlacesOf(w)' = {s}
                      /\ waiter'[w] # "waiting" => PlacesOf(w)' = {}
    BY DEF WaitersPlaced, Places
  <2>0. w # NoWaiter
    BY IOManagerAssumption DEF IOManagerAssumption
  <2>a. PlacesOf(w)' = {s \in PlacesOf(w) : ~(s[1] = fd /\ s[2] \in gone)}
    BY <1>4, <2>0 DEF PlacesOf, Places
  <2>1. CASE \E e \in left : ctx[fd][e] = w
    <3>1. PICK e \in left : ctx[fd][e] = w
      BY <2>1
    <3>2. e \in Events /\ <<fd, e>> \in PlacesOf(w)
      BY <3>1 DEF PlacesOf, Places
    <3>3. PlacesOf(w) = {<<fd, e>>}
      BY <3>2 DEF IInv, WaitersPlaced
    <3>4. PlacesOf(w)' = {}
      BY <2>a, <3>1, <3>3
    <3>5. waiter'[w] # "waiting"
      BY <2>1
    <3> QED
      BY <3>4, <3>5
  <2>2. CASE ~\E e \in left : ctx[fd][e] = w
    <3>1. \A e \in gone : ctx[fd][e] # w
      BY <2>0, <2>2 DEF IInv, ContextsFilled
    <3>2. PlacesOf(w)' = PlacesOf(w)
      BY <2>a, <3>1 DEF PlacesOf, Places
    <3>3. waiter'[w] = waiter[w]
      BY <2>2
    <3> QED
      BY <3>2, <3>3 DEF IInv, WaitersPlaced
  <2> QED
    BY <2>1, <2>2
<1>8. m_pendingEventCount' \in Nat /\ PendingExact'
  <2>1. IsFiniteSet(Awaited) /\ Cardinality(Awaited) \in Nat
    BY AwaitedFinite DEF IInv
  <2>2. Awaited' = Awaited \ ({fd} \X left)
    BY <1>5 DEF Awaited, Places
  <2>3. Awaited \cap ({fd} \X left) = {fd} \X left
    BY DEF Awaited, Places
  <2>4. IsFiniteSet(left)
    BY FS_Subset, IOManagerAssumption DEF IOManagerAssumption
  <2>5. Cardinality({fd} \X left) = Cardinality(left)
    BY <2>4, OnOneDescriptor
  <2>a. Cardinality(Awaited \ ({fd} \X left))
          = Cardinality(Awaited) - Cardinality(Awaited \cap ({fd} \X left))
    BY <2>1, FS_Difference
  <2>6. Cardinality(Awaited') = Cardinality(Awaited) - Cardinality(left)
    BY <2>2, <2>3, <2>5, <2>a
  <2>7. IsFiniteSet(Awaited') /\ Cardinality(Awaited') \in Nat
    BY <2>1, <2>2, FS_Difference, FS_CardinalityType
  <2>8. m_pendingEventCount = Cardinality(Awaited)
    BY DEF IInv, PendingExact, Awaited, Places
  <2>9. m_pendingEventCount' = Cardinality(Awaited')
    BY <2>6, <2>8
  <2> QED
    BY <2>7, <2>9 DEF PendingExact, Awaited, Places
<1> QED
  BY <1>1, <1>2, <1>3, <1>6, <1>7, <1>8

-----------------------------------------------------------------------------
(* The operations of clients.                                              *)

\* addEvent() fills one empty place for a waiter that has none.
LEMMA AddEventInv ==
  ASSUME IInv, NEW fd \in Fds, NEW e \in Events, NEW w \in Waiters, AddEvent(fd, e, w)
  PROVE  IInv'
<1> DEFINE op == IF m_events[fd] = {} THEN "ADD" ELSE "MOD"
           events == m_events[fd] \cup {e}
<1>a. /\ e \notin m_events[fd] /\ waiter[w] = "free"
      /\ EpollCtl(op, fd, events)
      /\ m_events' = [m_events EXCEPT ![fd] = events]
      /\ ctx' = [ctx EXCEPT ![fd][e] = w]
      /\ waiter' = [waiter EXCEPT ![w] = "waiting"]
      /\ m_pendingEventCount' = m_pendingEventCount + 1
      /\ batch' = batch
  BY DEF AddEvent
<1>b. events \in SUBSET Events /\ (op = "DEL" <=> events = {})
  BY DEF IInv, TypeOK
<1> HIDE DEF op, events
<1>1. /\ KernelAgrees'
      /\ registered' \subseteq Fds /\ readyList' \subseteq Fds
      /\ interest' \in [Fds -> SUBSET Events]
      /\ ready' = ready
  BY <1>a, <1>b, CtlAgrees
<1>2. /\ m_events' \in [Fds -> SUBSET Events]
      /\ ctx' \in [Fds -> [Events -> Waiters \cup {NoWaiter}]]
      /\ waiter' \in [Waiters -> {"free", "waiting", "scheduled"}]
      /\ m_pendingEventCount' \in Nat
  BY <1>a, <1>b DEF IInv, TypeOK
<1>3. TypeOK'
  BY <1>a, <1>1, <1>2 DEF IInv, TypeOK
<1>4. \A g \in Fds, d \in Events :
        ctx'[g][d] = IF g = fd /\ d = e THEN w ELSE ctx[g][d]
  BY <1>a DEF IInv, TypeOK
<1>5. \A g \in Fds, d \in Events :
        d \in m_events'[g] <=> d \in m_events[g] \/ (g = fd /\ d = e)
  BY <1>a DEF IInv, TypeOK, events
<1>w. w # NoWaiter
  BY IOManagerAssumption DEF IOManagerAssumption
<1>6. ContextsFilled'
  BY <1>4, <1>5, <1>w DEF IInv, ContextsFilled
<1>7. WaitersPlaced'
  <2> SUFFICES ASSUME NEW v \in Waiters
               PROVE  /\ waiter'[v] = "waiting" => \E s \in Places : PlacesOf(v)' = {s}
                      /\ waiter'[v] # "waiting" => PlacesOf(v)' = {}
    BY DEF WaitersPlaced, Places
  <2>1. CASE v = w
    <3>1. PlacesOf(w) = {}
      BY <1>a DEF IInv, WaitersPlaced
    <3>2. PlacesOf(w)' = {<<fd, e>>}
      BY <1>4, <3>1 DEF PlacesOf, Places
    <3>3. waiter'[w] = "waiting" /\ <<fd, e>> \in Places
      BY <1>a DEF IInv, TypeOK, Places
    <3> QED
      BY <2>1, <3>2, <3>3
  <2>2. CASE v # w
    <3>0. ctx[fd][e] = NoWaiter /\ v # NoWaiter
      BY <1>a, IOManagerAssumption DEF IInv, ContextsFilled, IOManagerAssumption
    <3>1. PlacesOf(v)' = PlacesOf(v)
      BY <1>4, <2>2, <3>0 DEF PlacesOf, Places
    <3>2. waiter'[v] = waiter[v]
      BY <1>a, <2>2 DEF IInv, TypeOK
    <3> QED
      BY <3>1, <3>2 DEF IInv, WaitersPlaced
  <2> QED
    BY <2>1, <2>2
<1>8. PendingExact'
  <2>1. IsFiniteSet(Awaited) /\ Cardinality(Awaited) \in Nat
    BY AwaitedFinite DEF IInv
  <2>2. Awaited' = Awaited \cup {<<fd, e>>} /\ <<fd, e>> \notin Awaited
    BY <1>a, <1>5 DEF Awaited, Places
  <2>3. Cardinality(Awaited \cup {<<fd, e>>}) = Cardinality(Awaited) + 1
    BY <2>1, <2>2, FS_AddElement
  <2>4. m_pendingEventCount = Cardinality(Awaited)
    BY DEF IInv, PendingExact, Awaited, Places
  <2>5. m_pendingEventCount' = Cardinality(Awaited')
    BY <1>a, <2>2, <2>3, <2>4
  <2> QED
    BY <2>5 DEF PendingExact, Awaited, Places
<1> QED
  BY <1>1, <1>3, <1>6, <1>7, <1>8 DEF IInv

\* Taking events away from the epoll set and from the contexts.
LEMMA NarrowInv ==
  ASSUME IInv, NEW fd \in Fds, NEW gone \in SUBSET Events,
         Narrow(fd, gone), TriggerEvents(fd, gone),
         batch' \in [Pollers -> SUBSET [fd : Fds, events : SUBSET (Events \cup {"HUP"})]]
  PROVE  IInv'
<1> DEFINE left == m_events[fd] \ gone
           op == IF left = {} THEN "DEL" ELSE "MOD"
<1>1. EpollCtl(op, fd, left) /\ m_events' = [m_events EXCEPT ![fd] = left]
  BY DEF Narrow, TriggerEvents, IInv, TypeOK
<1>2. left \in SUBSET Events /\ (op = "DEL" <=> left = {})
  BY DEF IInv, TypeOK
<1> HIDE DEF left, op
<1>3. /\ KernelAgrees'
      /\ registered' \subseteq Fds /\ readyList' \subseteq Fds
      /\ interest' \in [Fds -> SUBSET Events]
      /\ ready' = ready
  BY <1>1, <1>2, CtlAgrees
<1>4. /\ m_events' \in [Fds -> SUBSET Events]
      /\ ctx' \in [Fds -> [Events -> Waiters \cup {NoWaiter}]]
      /\ m_pendingEventCount' \in Nat
      /\ waiter' \in [Waiters -> {"free", "waiting", "scheduled"}]
      /\ ContextsFilled' /\ WaitersPlaced' /\ PendingExact'
  BY Leaving DEF TriggerEvents
<1> QED
  BY <1>3, <1>4 DEF IInv, TypeOK

\* delEvent() does the same for one event, but does not schedule the waiter.
LEMMA DelEventInv ==
  ASSUME IInv, NEW fd \in Fds, NEW e \in Events, DelEvent(fd, e)
  PROVE  IInv'
<1> DEFINE left == m_events[fd] \ {e}
           op == IF left = {} THEN "DEL" ELSE "MOD"
<1>1. EpollCtl(op, fd, left) /\ m_events' = [m_events EXCEPT ![fd] = left]
  BY DEF Narrow, DelEvent, IInv, TypeOK
<1>2. left \in SUBSET Events /\ (op = "DEL" <=> left = {})
  BY DEF IInv, TypeOK
<1> HIDE DEF left, op
<1>3. /\ KernelAgrees'
      /\ registered' \subseteq Fds /\ readyList' \subseteq Fds
      /\ interest' \in [Fds -> SUBSET Events]
      /\ ready' = ready
  BY <1>1, <1>2, CtlAgrees
<1>a. {e} \cap m_events[fd] = {e} /\ Cardinality({e}) = 1
  BY FS_Singleton DEF DelEvent
<1>b. m_pendingEventCount' = m_pendingEventCount - Cardinality({e} \cap m_events[fd])
  BY <1>a DEF DelEvent
<1>c. ctx' = [ctx EXCEPT ![fd] = [d \in Events |-> IF d \in {e} THEN NoWaiter ELSE @[d]]]
  BY DEF DelEvent, IInv, TypeOK
<1>d. waiter' = [w \in Waiters |-> IF w \in {ctx[fd][d] : d \in {e} \cap m_events[fd]}
                                   THEN "free" ELSE waiter[w]]
  BY <1>a DEF DelEvent, IInv, TypeOK
<1>4. /\ m_events' \in [Fds -> SUBSET Events]
      /\ ctx' \in [Fds -> [Events -> Waiters \cup {NoWaiter}]]
      /\ m_pendingEventCount' \in Nat
      /\ waiter' \in [Waiters -> {"free", "waiting", "scheduled"}]
      /\ ContextsFilled' /\ WaitersPlaced' /\ PendingExact'
  <2>1. m_events' = [m_events EXCEPT ![fd] = @ \ {e}]
    BY DEF DelEvent
  <2> QED
    BY <1>b, <1>c, <1>d, <2>1, Leaving
<1> QED
  BY <1>3, <1>4 DEF IInv, TypeOK, DelEvent

\* cancelEvent() and cancelAll() are triggered deletions.
LEMMA CancelInv ==
  ASSUME IInv, NEW fd \in Fds,
         CancelAll(fd) \/ \E e \in Events : CancelEvent(fd, e)
  PROVE  IInv'
<1>0. batch' \in [Pollers -> SUBSET [fd : Fds, events : SUBSET (Events \cup {"HUP"})]]
  BY DEF IInv, TypeOK, CancelAll, CancelEvent
<1>1. ASSUME NEW e \in Events, CancelEvent(fd, e) PROVE IInv'
  BY <1>0, <1>1, NarrowInv DEF CancelEvent
<1>2. CASE CancelAll(fd)
  <2>1. m_events[fd] \ m_events[fd] = {} /\ m_events[fd] \in SUBSET Events
    BY DEF IInv, TypeOK
  <2>2. Narrow(fd, m_events[fd])
    BY <1>2, <2>1 DEF CancelAll, Narrow
  <2> QED
    BY <1>0, <1>2, <2>1, <2>2, NarrowInv DEF CancelAll
<1> QED
  BY <1>1, <1>2

\* What leaves the contexts alone: reading and writing, scheduled waiters that
\* run, and the closing of a descriptor nobody waits for.
LEMMA OtherClientInv ==
  ASSUME IInv,
         \/ \E fd \in Fds : Reopen(fd) \/ \E e \in Events : Drain(fd, e) \/ AddEventTwice(fd, e)
         \/ \E fd \in Fds, e \in Events \cup {"HUP"} : BecomeReady(fd, e)
         \/ UNCHANGED vars
  PROVE  IInv'
<1>1. UNCHANGED <<contextVars, waiter, batch>>
  BY DEF Reopen, Drain, AddEventTwice, BecomeReady, vars
<1>2. TypeOK'
  <2>1. ASSUME NEW fd \in Fds, Reopen(fd) PROVE TypeOK'
    BY <1>1, <2>1 DEF IInv, TypeOK, Reopen, contextVars
  <2>2. ASSUME NEW fd \in Fds, NEW e \in Events, Drain(fd, e) PROVE TypeOK'
    BY <1>1, <2>2 DEF IInv, TypeOK, Drain, contextVars
  <2>3. ASSUME NEW fd \in Fds, NEW e \in Events \cup {"HUP"}, BecomeReady(fd, e) PROVE TypeOK'
    BY <1>1, <2>3 DEF IInv, TypeOK, BecomeReady, contextVars
  <2>4. CASE UNCHANGED kernelVars
    BY <1>1, <2>4 DEF IInv, TypeOK, contextVars, kernelVars
  <2> QED
    BY <2>1, <2>2, <2>3, <2>4 DEF AddEventTwice, vars
<1>3. KernelAgrees'
  <2>1. ASSUME NEW fd \in Fds, Reopen(fd) PROVE KernelAgrees'
    BY <1>1, <2>1 DEF IInv, TypeOK, KernelAgrees, Reopen, contextVars
  <2> QED
    BY <1>1, <2>1 DEF IInv, KernelAgrees, Drain, AddEventTwice, BecomeReady, vars, contextVars, kernelVars
<1>4. ContextsFilled' /\ WaitersPlaced' /\ PendingExact'
  BY <1>1 DEF IInv, ContextsFilled, WaitersPlaced, PlacesOf, PendingExact, contextVars
<1> QED
  BY <1>2, <1>3, <1>4 DEF IInv

\* A scheduled waiter runs; it is in no context.
LEMMA ResumedInv ==
  ASSUME IInv, NEW w \in Waiters, Resumed(w)
  PROVE  IInv'
<1>1. TypeOK' /\ KernelAgrees' /\ ContextsFilled' /\ PendingExact'
  BY DEF IInv, TypeOK, KernelAgrees, ContextsFilled, PendingExact, Resumed, contextVars, kernelVars
<1>2. WaitersPlaced'
  BY DEF IInv, TypeOK, WaitersPlaced, PlacesOf, Resumed, contextVars
<1> QED
  BY <1>1, <1>2 DEF IInv

-----------------------------------------------------------------------------
\* idle(): a batch may be stale, but RealEvents and m_events are compared under
\* the FdContext's lock.
LEMMA IdleInv ==
  ASSUME IInv, NEW p \in Pollers, Idle(p)
  PROVE  IInv'
<1> DEFINE Entry == [fd : Fds, events : SUBSET (Events \cup {"HUP"})]
<1>1. CASE EpollWait(p)
  <2>1. \A fd \in readyList : [fd |-> fd, events |-> Reported(fd, interest[fd])] \in Entry
    BY DEF IInv, TypeOK, Reported
  <2>2. batch' \in [Pollers -> SUBSET Entry]
    BY <1>1, <2>1 DEF EpollWait, IInv, TypeOK
  <2>3. TypeOK'
    BY <1>1, <2>2 DEF IInv, TypeOK, EpollWait, contextVars
  <2>4. KernelAgrees' /\ ContextsFilled' /\ WaitersPlaced' /\ PendingExact'
    BY <1>1 DEF IInv, KernelAgrees, ContextsFilled, WaitersPlaced, PlacesOf, PendingExact,
       EpollWait, contextVars
  <2> QED
    BY <2>3, <2>4 DEF IInv
<1>2. ASSUME NEW event \in batch[p], SkipEvent(p, event) PROVE IInv'
  <2>1. TypeOK'
    BY <1>2 DEF IInv, TypeOK, SkipEvent, contextVars, kernelVars
  <2>2. KernelAgrees' /\ ContextsFilled' /\ WaitersPlaced' /\ PendingExact'
    BY <1>2 DEF IInv, KernelAgrees, ContextsFilled, WaitersPlaced, PlacesOf, PendingExact,
       SkipEvent, contextVars, kernelVars
  <2> QED
    BY <2>1, <2>2 DEF IInv
<1>3. ASSUME NEW event \in batch[p], HandleEvent(p, event) PROVE IInv'
  <2>1. event \in Entry
    BY DEF IInv, TypeOK
  <2>2. event.fd \in Fds /\ RealEvents(event) \in SUBSET Events
    BY <2>1 DEF IInv, TypeOK, RealEvents
  <2>3. batch' \in [Pollers -> SUBSET Entry]
    BY <1>3 DEF HandleEvent, IInv, TypeOK
  <2> QED
    BY <1>3, <2>2, <2>3, NarrowInv DEF HandleEvent
<1> QED
  BY <1>1, <1>2, <1>3 DEF Idle

-----------------------------------------------------------------------------
\* Every step of clients, kernel and polling threads keeps IInv.
LEMMA NextInv == IInv /\ [Next]_vars => IInv'
<1> SUFFICES ASSUME IInv, [Next]_vars PROVE IInv'
  OBVIOUS
<1>1. ASSUME NEW fd \in Fds, NEW e \in Events, NEW w \in Waiters, AddEvent(fd, e, w)
      PROVE  IInv'
  BY <1>1, AddEventInv
<1>2. ASSUME NEW fd \in Fds, NEW e \in Events, DelEvent(fd, e) \/ CancelEvent(fd, e)
      PROVE  IInv'
  BY <1>2, DelEventInv, CancelInv
<1>3. ASSUME NEW fd \in Fds, CancelAll(fd) PROVE IInv'
  BY <1>3, CancelInv
<1>4. ASSUME NEW w \in Waiters, Resumed(w) PROVE IInv'
  BY <1>4, ResumedInv
<1>5. ASSUME NEW p \in Pollers, Idle(p) PROVE IInv'
  BY <1>5, IdleInv
<1> QED
  BY <1>1, <1>2, <1>3, <1>4, <1>5, OtherClientInv DEF Next, Client

\* The inductive invariant holds always.
THEOREM EventInvariant == Spec => []IInv
<1> QED
  BY InitInv, NextInv, PTL DEF Spec

\* The epoll set and m_events agree: the operation addEvent(), delEvent(),
\* cancelEvent(), cancelAll() and idle() choose from m_events is the right one.
THEOREM EpollSetAgrees == Spec => []KernelAgrees
<1>1. IInv => KernelAgrees
  BY DEF IInv
<1> QED
  BY <1>1, EventInvariant, PTL

\* m_pendingEventCount, read by stopping(), is the number of awaited events.
THEOREM PendingCountExact == Spec => []PendingExact
<1>1. IInv => PendingExact
  BY DEF IInv
<1> QED
  BY <1>1, EventInvariant, PTL

\* Every waiting fiber or callback is in exactly one EventContext, and every
\* other one in none: no stale batch entry can schedule it twice.
THEOREM WaitersOnce == Spec => []OneContextPerWaiter
<1>1. IInv => OneContextPerWaiter
  <2> SUFFICES ASSUME IInv PROVE OneContextPerWaiter
    OBVIOUS
  <2>1. ASSUME NEW w \in Waiters
        PROVE  Cardinality(PlacesOf(w)) = IF waiter[w] = "waiting" THEN 1 ELSE 0
    BY FS_Singleton, FS_EmptySet DEF IInv, WaitersPlaced
  <2> QED
    BY <2>1 DEF IInv, ContextsFilled, OneContextPerWaiter, PlacesOf, Places
<1> QED
  BY <1>1, EventInvariant, PTL

\* Waiters, contexts, epoll set and batches keep their types; the count, which
\* is lowered on five paths, never passes below zero.
THEOREM EventTypes == Spec => []TypeOK
<1>1. IInv => TypeOK
  BY DEF IInv
<1> QED
  BY <1>1, EventInvariant, PTL

-----------------------------------------------------------------------------
(* The assertions.  addEvent()'s holds on every step; triggerEvent()'s     *)
(* depends on how old a batch may be.                                      *)

\* What the loop of idle() passes to triggerEvent() is awaited.
BatchesTrusted ==
  \A p \in Pollers : \A event \in batch[p] :
    m_events[event.fd] \cap RealEvents(event) # {} => RealEvents(event) \subseteq m_events[event.fd]

\* While batches are to be trusted no assertion fails.
LEMMA NoFaultStep ==
  ASSUME IInv, BatchesTrusted, NoFault, [Next]_vars
  PROVE  NoFault'
<1>1. ASSUME NEW fd \in Fds, NEW e \in Events, NEW w \in Waiters, AddEvent(fd, e, w)
      PROVE  NoFault'
  BY <1>1 DEF AddEvent, NoFault, IInv, ContextsFilled
<1>2. ASSUME NEW fd \in Fds, NEW e \in Events, CancelEvent(fd, e)
      PROVE  NoFault'
  BY <1>2 DEF CancelEvent, TriggerEvents, NoFault
<1>3. ASSUME NEW fd \in Fds, CancelAll(fd)
      PROVE  NoFault'
  BY <1>3 DEF CancelAll, TriggerEvents, NoFault
<1>4. ASSUME NEW p \in Pollers, Idle(p)
      PROVE  NoFault'
  <2>1. ASSUME NEW event \in batch[p], HandleEvent(p, event)
        PROVE  NoFault'
    BY <2>1 DEF HandleEvent, TriggerEvents, NoFault, BatchesTrusted
  <2> QED
    BY <1>4, <2>1 DEF Idle, EpollWait, SkipEvent, NoFault
<1>a. ASSUME NEW fd \in Fds, NEW e \in Events, AddEventTwice(fd, e) PROVE NoFault'
  BY <1>a DEF AddEventTwice, NoFault
<1>5. CASE \/ \E fd \in Fds, e \in Events : DelEvent(fd, e) \/ Drain(fd, e)
           \/ \E fd \in Fds : Reopen(fd)
           \/ \E w \in Waiters : Resumed(w)
           \/ \E fd \in Fds, e \in Events \cup {"HUP"} : BecomeReady(fd, e)
           \/ UNCHANGED vars
  BY <1>5 DEF DelEvent, Drain, Reopen, Resumed, BecomeReady, vars, NoFault
<1> QED
  BY <1>1, <1>2, <1>3, <1>4, <1>5, <1>a DEF Next, Client

\* With one kind of event a batch can be as old as it likes: an event that is
\* still awaited is all that was reported.
LEMMA OneKindTrusted ==
  ASSUME IInv, NEW kind, Events = {kind}
  PROVE  BatchesTrusted
<1> SUFFICES ASSUME NEW p \in Pollers, NEW event \in batch[p],
                    m_events[event.fd] \cap RealEvents(event) # {}
             PROVE  RealEvents(event) \subseteq m_events[event.fd]
  BY DEF BatchesTrusted
<1>1. event \in [fd : Fds, events : SUBSET (Events \cup {"HUP"})]
  BY DEF IInv, TypeOK
<1>2. m_events[event.fd] \subseteq {kind} /\ RealEvents(event) \subseteq {kind}
  BY <1>1 DEF IInv, TypeOK, RealEvents
<1> QED
  BY <1>2

\* Descriptors that are waited on for one kind of event only: triggerEvent() is
\* never called for an event that is gone, whatever the threads do.
THEOREM OneKindSafe ==
  ASSUME NEW kind, Events = {kind}
  PROVE  Spec => []NoFault
<1>1. Init => NoFault
  BY DEF Init, NoFault
<1>2. IInv /\ NoFault /\ [Next]_vars => NoFault'
  BY OneKindTrusted, NoFaultStep
<1> QED
  BY <1>1, <1>2, EventInvariant, PTL DEF Spec

\* With one thread a batch is processed before any client runs again.
BatchesFresh ==
  \A p \in Pollers : \A event \in batch[p] : event.events \ {"HUP"} \subseteq m_events[event.fd]

\* One thread: what was reported is still awaited when it is looked at.
LEMMA FreshStep ==
  ASSUME IInv, BatchesFresh, SingleThread, NEW only, Pollers = {only}, [Next]_vars
  PROVE  BatchesFresh'
<1>1. CASE batch[only] = {} /\ batch' = batch
  BY <1>1 DEF BatchesFresh
<1>2. CASE \/ \E fd \in Fds, e \in Events \cup {"HUP"} : BecomeReady(fd, e)
           \/ UNCHANGED vars
  BY <1>2 DEF BecomeReady, BatchesFresh, vars, contextVars
<1>3. CASE EpollWait(only)
  <2>1. \A fd \in readyList : Reported(fd, interest[fd]) \ {"HUP"} \subseteq m_events[fd]
    BY DEF IInv, TypeOK, KernelAgrees, Reported
  <2>2. m_events' = m_events
    BY <1>3 DEF EpollWait, contextVars
  <2>3. \A event \in batch'[only] :
          \E fd \in readyList : event = [fd |-> fd, events |-> Reported(fd, interest[fd])]
    BY <1>3 DEF EpollWait, IInv, TypeOK
  <2> QED
    BY <2>1, <2>2, <2>3 DEF BatchesFresh
<1>4. ASSUME NEW event \in batch[only], SkipEvent(only, event)
      PROVE  BatchesFresh'
  BY <1>4 DEF SkipEvent, BatchesFresh, contextVars, IInv, TypeOK
<1>5. ASSUME NEW event \in batch[only], HandleEvent(only, event)
      PROVE  BatchesFresh'
  BY <1>5 DEF HandleEvent, BatchesFresh, IInv, TypeOK
<1>6. ASSUME Client \/ \E w \in Waiters : Resumed(w)
      PROVE  batch[only] = {} /\ batch' = batch
  BY <1>6 DEF Client, ClientRuns, AddEvent, AddEventTwice, DelEvent, CancelEvent, Drain,
               CancelAll, Reopen, Resumed
<1> QED
  BY <1>1, <1>2, <1>3, <1>4, <1>5, <1>6 DEF Next, Idle

\* An IOManager with one thread: triggerEvent() is never called for an event that
\* is gone, on any descriptors, READ and WRITE together and hang-ups included.
THEOREM OneThreadSafe ==
  ASSUME SingleThread, NEW only, Pollers = {only}
  PROVE  Spec => []NoFault
<1>1. Init => NoFault /\ BatchesFresh
  BY DEF Init, NoFault, BatchesFresh
<1>2. ASSUME IInv, BatchesFresh PROVE BatchesTrusted
  <2> SUFFICES ASSUME NEW event \in batch[only]
               PROVE  RealEvents(event) \subseteq m_events[event.fd]
    BY DEF BatchesTrusted
  <2>1. event.events \ {"HUP"} \subseteq m_events[event.fd]
    BY <1>2 DEF BatchesFresh
  <2> QED
    BY <2>1 DEF RealEvents
<1>3. IInv /\ BatchesFresh /\ NoFault /\ [Next]_vars => BatchesFresh' /\ NoFault'
  BY <1>2, FreshStep, NoFaultStep
<1> QED
  BY <1>1, <1>3, EventInvariant, PTL DEF Spec
=============================================================================
