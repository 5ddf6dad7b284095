----------------------------- MODULE MCScheduler -----------------------------
(***************************************************************************)
(* Scheduler for TLC: the workers start() creates are interchangeable.     *)
(* Only runs without liveness properties use the symmetry.                 *)
(***************************************************************************)
EXTENDS Scheduler, TLC

Symmetry == Permutations(Workers)
=============================================================================
