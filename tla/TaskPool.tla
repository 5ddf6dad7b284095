------------------------------ MODULE TaskPool ------------------------------
(***************************************************************************)
(* What a scheduler promises to the code that uses it: a submitted task is *)
(* run by one thread at a time, a thread runs one task at a time and only  *)
(* tasks it may run, a task that gives up its thread is run again after it *)
(* was submitted again, and the pool closes only when nothing is left.     *)
(***************************************************************************)
EXTENDS Naturals, FiniteSets

CONSTANTS
  Tasks,
  Threads,
  AnyThread,   \* the affinity of a task that every thread may run
  NoThread     \* the owner of a task that no thread runs

VARIABLES
  phase,       \* what became of each task
  owner,       \* the thread that runs each task
  affinity,    \* where each submitted task may run
  closed       \* is the pool shut down?

poolState == <<phase, owner, affinity, closed>>

Init ==
  /\ phase = [t \in Tasks |-> "new"]
  /\ owner = [t \in Tasks |-> NoThread]
  /\ affinity = [t \in Tasks |-> AnyThread]
  /\ closed = FALSE

Busy(r) == \E t \in Tasks : phase[t] = "running" /\ owner[t] = r

\* A task enters the pool: for the first time, or because it gave up its
\* thread, either just now or earlier.
Submit(t, id) ==
  /\ ~closed
  /\ phase[t] \in {"new", "running", "parked"}
  /\ phase' = [phase EXCEPT ![t] = "ready"]
  /\ owner' = [owner EXCEPT ![t] = NoThread]
  /\ affinity' = [affinity EXCEPT ![t] = id]
  /\ UNCHANGED closed

Take(r, t) ==
  /\ ~closed
  /\ phase[t] = "ready"
  /\ affinity[t] \in {AnyThread, r}
  /\ ~Busy(r)
  /\ phase' = [phase EXCEPT ![t] = "running"]
  /\ owner' = [owner EXCEPT ![t] = r]
  /\ affinity' = [affinity EXCEPT ![t] = AnyThread]
  /\ UNCHANGED closed

\* The task finishes, or waits until another task submits it.
Release(t, outcome) ==
  /\ phase[t] = "running"
  /\ phase' = [phase EXCEPT ![t] = outcome]
  /\ owner' = [owner EXCEPT ![t] = NoThread]
  /\ UNCHANGED <<affinity, closed>>

Close ==
  /\ \A t \in Tasks : phase[t] \notin {"ready", "running"}
  /\ closed' = TRUE
  /\ UNCHANGED <<phase, owner, affinity>>

Next ==
  \/ \E t \in Tasks :
       \/ \E id \in Threads \cup {AnyThread} : Submit(t, id)
       \/ \E r \in Threads : Take(r, t)
       \/ \E outcome \in {"parked", "done"} : Release(t, outcome)
  \/ Close

Spec == Init /\ [][Next]_poolState
=============================================================================
